------------------------------- MODULE Gossip -------------------------------
(***************************************************************************)
(* How BFT messages travel between validators                              *)
(* (substrate/network/src/consensus.rs): every node keeps the messages of  *)
(* the current agreements, passes new ones on to its peers, and hands      *)
(* those about one parent block to the agreement that runs on it.          *)
(*                                                                         *)
(* There is one chain, so a block is its number.  A message is its hash.   *)
(* The messages on a connection are a set: they may overtake one another.  *)
(***************************************************************************)
EXTENDS Integers, FiniteSets

CONSTANTS Validators,
          ValidatorLinks,      \* the pairs of nodes that may be connected
          Messages,
          Origin,     \* the node that makes a message
          ParentOf,   \* the parent block it is about
          MaxHeight,  \* bound: the chain
          Listeners,  \* the nodes whose agreements are looked at
          MaxLosses, \* bound: lost connections and expired messages
          Absent

VARIABLES best,      \* the number of the best block of each node
          known,     \* Consensus::peers: known_messages per peer, or Absent
          messages,  \* messages and message_hashes, which have the same members
          cleaned,   \* the last block whose import notification was handled
          sink,      \* bft_message_sink: the parent block, or Absent
          stream,    \* what the agreement has got through the sink
          wire,      \* the messages in flight, per sender and receiver
          made,      \* history: the messages that were made
          expired,   \* history: the messages some node dropped for their age
          opened,    \* history: the parent of the last stream
          losses

gossip == <<best, known, messages, cleaned, sink, stream, wire, made, expired,
          opened, losses>>

GossipInit ==
  /\ best = [n \in Validators |-> 0]
  /\ known = [n \in Validators |-> [p \in Validators |-> IF {n, p} \in ValidatorLinks THEN {} ELSE Absent]]
  /\ messages = [n \in Validators |-> {}]
  /\ cleaned = [n \in Validators |-> 0]
  /\ sink = [n \in Validators |-> Absent]
  /\ stream = [n \in Validators |-> {}]
  /\ wire = [n \in Validators |-> [p \in Validators |-> {}]]
  /\ made = {}
  /\ expired = {}
  /\ opened = [n \in Validators |-> Absent]
  /\ losses = 0

-----------------------------------------------------------------------------
(* The peers of n that a message goes to: those not known to have it. *)
Targets(n, m, kn) == {p \in Validators : kn[n][p] # Absent /\ m \notin kn[n][p]}

(* Consensus::register_message and propagate, from the peers' knowledge kn *)
(* and the messages in flight w.                                           *)
RegisterAndPropagate(n, m, kn, w) ==
  LET to == Targets(n, m, kn)
      Add(f) == [f EXCEPT ![n] = [p \in Validators |-> IF p \in to THEN @[p] \cup {m} ELSE @[p]]]
  IN  /\ messages' = [messages EXCEPT ![n] = @ \cup {m}]
      /\ known' = Add(kn)
      /\ wire' = Add(w)

(* Consensus::send_bft_message, for a message about the best block. *)
SendBftMessage(n, m) ==
  /\ m \notin made /\ Origin[m] = n /\ ParentOf[m] = best[n]
  /\ made' = made \cup {m}
  /\ RegisterAndPropagate(n, m, known, wire)
  /\ UNCHANGED <<best, cleaned, sink, stream, expired, opened, losses>>

(* Known already, or about a block that has a successor. *)
Ignored(n, m) == m \in messages[n] \/ ParentOf[m] < best[n]

(* Consensus::on_bft_message.  A message about another block than the sink *)
(* is for closes the sink.  A peer's status comes first on a connection,   *)
(* so a message waits until its sender is a peer.                          *)
OnBftMessage(n, p, m) ==
  LET w == [wire EXCEPT ![p][n] = @ \ {m}]
  IN  /\ m \in wire[p][n] /\ known[n][p] # Absent
      /\ \/ /\ Ignored(n, m)
            /\ wire' = w
            /\ UNCHANGED <<known, messages, sink, stream>>
         \/ /\ ~Ignored(n, m)
            /\ sink' = [sink EXCEPT ![n] = IF @ = ParentOf[m] THEN @ ELSE Absent]
            /\ stream' = [stream EXCEPT ![n] = IF sink[n] = ParentOf[m] THEN @ \cup {m} ELSE @]
            /\ RegisterAndPropagate(n, m, [known EXCEPT ![n][p] = @ \cup {m}], w)
      /\ UNCHANGED <<best, cleaned, made, expired, opened, losses>>

(* Mutant: the messages that came before the stream are not replayed. *)
BftMessagesFromNow(n) ==
  /\ n \in Listeners /\ opened[n] # best[n]
  /\ sink' = [sink EXCEPT ![n] = best[n]]
  /\ opened' = [opened EXCEPT ![n] = best[n]]
  /\ stream' = [stream EXCEPT ![n] = {}]
  /\ UNCHANGED <<best, known, messages, cleaned, wire, made, expired, losses>>

(* Consensus::bft_messages: the agreement on the best block opens a stream. *)
BftMessages(n) ==
  /\ n \in Listeners /\ opened[n] # best[n]
  /\ sink' = [sink EXCEPT ![n] = best[n]]
  /\ opened' = [opened EXCEPT ![n] = best[n]]
  /\ stream' = [stream EXCEPT ![n] = {m \in messages[n] : ParentOf[m] = best[n]}]
  /\ UNCHANGED <<best, known, messages, cleaned, wire, made, expired, losses>>

(* Consensus::new_peer: n handles the status of p and sends all it has. *)
NewPeer(n, p) ==
  /\ {n, p} \in ValidatorLinks /\ known[n][p] = Absent
  /\ known' = [known EXCEPT ![n][p] = messages[n]]
  /\ wire' = [wire EXCEPT ![n][p] = messages[n]]
  /\ UNCHANGED <<best, messages, cleaned, sink, stream, made, expired, opened, losses>>

(* Consensus::peer_disconnected at both ends; what was in flight is lost. *)
PeerDisconnected(n, p) ==
  /\ known[n][p] # Absent /\ losses + Cardinality(expired) < MaxLosses
  /\ losses' = losses + 1
  /\ known' = [known EXCEPT ![n][p] = Absent, ![p][n] = Absent]
  /\ wire' = [wire EXCEPT ![n][p] = {}, ![p][n] = {}]
  /\ UNCHANGED <<best, messages, cleaned, sink, stream, made, expired, opened>>

(* The node imports the next block; the notification comes later. *)
Import(n) ==
  /\ best[n] < MaxHeight
  /\ best' = [best EXCEPT ![n] = @ + 1]
  /\ UNCHANGED <<known, messages, cleaned, sink, stream, wire, made, expired,
                 opened, losses>>

(* Consensus::collect_garbage: keep the messages in keep, and forget what  *)
(* the peers know of the others.                                           *)
CollectGarbage(n, keep) ==
  /\ messages' = [messages EXCEPT ![n] = keep]
  /\ known' = [known EXCEPT ![n] = [p \in Validators |->
                 IF @[p] = Absent THEN Absent ELSE @[p] \cap keep]]

(* Protocol::on_block_imported: drop the messages about the block's parent. *)
OnBlockImported(n) ==
  /\ cleaned[n] < best[n]
  /\ cleaned' = [cleaned EXCEPT ![n] = @ + 1]
  /\ CollectGarbage(n, {m \in messages[n] : ParentOf[m] # cleaned[n]})
  /\ UNCHANGED <<best, sink, stream, wire, made, expired, opened, losses>>

(* Protocol::tick: a message is dropped after its lifetime. *)
Tick(n, m) ==
  /\ m \in messages[n] /\ losses + Cardinality(expired) < MaxLosses
  /\ expired' = expired \cup {m}
  /\ CollectGarbage(n, messages[n] \ {m})
  /\ UNCHANGED <<best, cleaned, sink, stream, wire, made, opened, losses>>

GossipNext ==
  \E n \in Validators :
    \/ BftMessages(n) \/ Import(n) \/ OnBlockImported(n)
    \/ \E m \in Messages : SendBftMessage(n, m) \/ Tick(n, m)
    \/ \E p \in Validators : NewPeer(n, p) \/ PeerDisconnected(n, p)
    \/ \E p \in Validators, m \in Messages : OnBftMessage(n, p, m)

(* Connections are made again, and what is on them arrives. *)
MessageArrives == \E n \in Validators, p \in Validators : NewPeer(n, p) \/ \E m \in Messages : OnBftMessage(n, p, m)

GossipFairness == WF_gossip(MessageArrives)

GossipSpec == GossipInit /\ [][GossipNext]_gossip /\ GossipFairness

-----------------------------------------------------------------------------
(* An agreement gets every message about its block that its node keeps,    *)
(* whether it came before the agreement opened its stream or after, except *)
(* the node's own later ones (Consensus::bft_messages, on_bft_message).    *)
StreamComplete ==
  \A n \in Validators : sink[n] # Absent =>
    {m \in messages[n] : ParentOf[m] = sink[n] /\ Origin[m] # n} \subseteq stream[n]

(* A message that one validator makes reaches all of them, over any number *)
(* of hops and lost connections, unless it expires or the chain moves on.  *)
MessagesSpread ==
  []<>(\A m \in made, n \in Validators :
         m \in messages[n] \/ m \in expired \/ \E k \in Validators : best[k] > ParentOf[m])
=============================================================================
