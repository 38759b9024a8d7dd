----------------------------- MODULE MCNetwork ------------------------------
(***************************************************************************)
(* The protocols of the network service: the gossip of BFT messages, the   *)
(* remote calls of a light client, the synchronisation of the chain and    *)
(* the propagation of extrinsics.  They share the connections and nothing  *)
(* else, so each is explored by itself, with connections that come and go. *)
(***************************************************************************)
EXTENDS Gossip, OnDemand, Propagation, TLC

CONSTANTS v1, v2, v3, m1, m2, honest, false, silent, r1, r2, p, q

CONSTANTS MAX_BLOCKS_TO_REQUEST, Peers, Branch, MaxImports, MaxAuthored, MaxDrops

VARIABLES part,
          setup, sync, chain, notices, status, asked, height, counts, linked, to, from,
          closing, disabled, drops

(* One chain that the node follows or writes, and forks that it meets. *)
MCSetup(ours, theirs_p, theirs_q, authors) ==
  [ours |-> ours, theirs |-> (p :> theirs_p) @@ (q :> theirs_q), authors |-> authors]

MCSetups ==
  {MCSetup(<<1, 0>>, <<1, 3>>, <<1, 2>>, FALSE), MCSetup(<<1, 1>>, <<1, 3>>, <<1, 1>>, FALSE),
   MCSetup(<<1, 1>>, <<1, 3>>, <<1, 2>>, TRUE),  MCSetup(<<1, 2>>, <<2, 3>>, <<1, 3>>, FALSE),
   MCSetup(<<1, 2>>, <<2, 1>>, <<1, 2>>, FALSE), MCSetup(<<1, 1>>, <<1, 5>>, <<2, 4>>, FALSE)}

Syncs == INSTANCE Sync WITH Setups <- MCSetups

syncing == <<setup, sync, chain, notices, status, asked, height, counts, linked, to, from,
             closing, disabled, drops>>

vars == <<part, gossip, calls, syncing, net>>

(* A part that is not explored stays in an initial state of its own. *)
Init ==
  /\ part \in {"gossip", "calls", "sync", "spread"}
  /\ GossipInit /\ CallsInit /\ Syncs!Init /\ SpreadInit
  /\ part # "sync" => setup = CHOOSE s \in MCSetups : TRUE
  /\ part # "spread" => net.setup = CHOOSE s \in Setups : TRUE

(* A step of one part. *)
InGossip(A) == part = "gossip" /\ A /\ UNCHANGED <<part, calls, syncing, net>>
InCalls(A) == part = "calls" /\ A /\ UNCHANGED <<part, gossip, syncing, net>>
InSync(A) == part = "sync" /\ A /\ UNCHANGED <<part, gossip, calls, net>>
InSpread(A) == part = "spread" /\ A /\ UNCHANGED <<part, gossip, calls, syncing>>

Next ==
  \/ InGossip(GossipNext)
  \/ InCalls(CallsNext)
  \/ InSync(Syncs!Next)
  \/ InSpread(SpreadNext)

(* The fairness of the parts, of which only one takes steps: theirs, and   *)
(* nothing is asked of the others.                                         *)
Spec ==
  /\ Init /\ [][Next]_vars
  /\ WF_gossip(part = "gossip" /\ MessageArrives)
  /\ \A x \in Servers : WF_calls(part = "calls" /\ Closes(x)) /\ WF_calls(part = "calls" /\ Responds(x))
  /\ \A x \in Honest : WF_calls(part = "calls" /\ ConnectsAgain(x))
  /\ WF_calls(part = "calls" /\ MaintainPeers(1))
  /\ []<>(part # "sync" \/ notices = <<>>) \/ []<><<part = "sync" /\ Syncs!OnBlockImported>>_vars
  /\ \A x \in Peers : []<>(part # "sync" \/ ~Syncs!Busy(x)) \/ []<><<part = "sync" /\ Syncs!Receives(x)>>_vars
  /\ \A x \in Nodes : WF_net(part = "spread" /\ Works(x)) /\ WF_net(part = "spread" /\ Timeout(x))

(* The bookkeeping of downloads is right, and costs no honest peer         *)
(* (ChainSync, BlockCollection, on_block_response).                        *)
DownloadsSound == Syncs!DownloadsSound

(* Everything arrives: the messages of validators at all of them, an       *)
(* answer to every call, the blocks of the peers, and the extrinsics of    *)
(* the pools (Consensus, OnDemand, ChainSync, propagate_transactions).     *)
AllArrives ==
  /\ MessagesSpread
  /\ CallsAnswered
  /\ part = "sync" => Syncs!CaughtUp
  /\ ExtrinsicsSpread

-----------------------------------------------------------------------------
(* Three validators in a line; a message on each of two blocks. *)
MCLinks == {{v1, v2}, {v2, v3}}
MCOrigin == (m1 :> v1) @@ (m2 :> v2)
MCParentOf == (m1 :> 0) @@ (m2 :> 1)

(* Full nodes of one chain, or a light client and a node of another chain  *)
(* beside a full one.  The line is the same from both of its ends.         *)
MCRoles == {[light |-> {}, foreign |-> {}, users |-> {v1, v2}],
            [light |-> {v3}, foreign |-> {v1}, users |-> {v2, v3}]}
=============================================================================
