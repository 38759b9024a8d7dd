-------------------------------- MODULE Sync --------------------------------
(***************************************************************************)
(* How a node catches up with its peers (substrate/network/src/sync.rs,    *)
(* blocks.rs and the parts of protocol.rs that carry their requests): the  *)
(* search for the common block, the download of ranges and of announced    *)
(* blocks, their import, and the restart after a block that does not fit.  *)
(*                                                                         *)
(* A block is its number and its fork; forks share the blocks up to        *)
(* Branch.  The peers are honest and each follows one fork.  Of the id of  *)
(* a request only matters whether it is the last one of its peer.          *)
(***************************************************************************)
EXTENDS Integers, Sequences, SequencesExt, FiniteSetsExt, Functions

CONSTANTS MAX_BLOCKS_TO_REQUEST,
          Peers,
          Branch,     \* the last block that all forks have
          Setups,     \* initial chains: the node's, the peers', and whether it also authors
          MaxImports, \* bound: the blocks that peers import
          MaxAuthored,  \* bound: the blocks the node authors
          MaxDrops,   \* bound: lost connections and timeouts
          None

VARIABLES setup,     \* the chains the behaviour starts with
          sync,      \* ChainSync: peers, blocks and best_queued_number
          chain,     \* the client: known blocks, the block of each number, best number
          notices,   \* import notifications that are not handled yet
          status,    \* Protocol::peers: the block of a peer's status, or None
          asked,     \* the peers that have a block_request
          height,    \* the chain of each peer
          counts,    \* the peers that count the node among theirs
          linked,    \* the peers with a connection
          to, from,  \* the messages to and from each peer, in order
          closing,   \* the peers the node has asked to be disconnected from
          disabled,  \* the peers the node has banned
          drops

net == <<height, counts, linked, to, from, closing, disabled>>
vars == <<setup, sync, chain, notices, status, asked, net, drops>>

-----------------------------------------------------------------------------
(* The blocks a node is downloading: a map from the first number of a      *)
(* range to the range, which a peer is downloading or which is complete    *)
(* and waits to be imported.  MAX_PARALLEL_DOWNLOADS is 1, so a range that *)
(* is downloading never takes a second peer and its counter is left out.   *)

(* BlockRangeState *)
Downloading(len) == [complete |-> FALSE, len |-> len, data |-> <<>>]
Complete(data) == [complete |-> TRUE, len |-> Len(data), data |-> data]

(* BlockCollection::new and clear *)
NoBlocks == [blocks |-> <<>>, peer_requests |-> <<>>]

End(blocks, s) == s + blocks[s].len

(* Nothing starts right behind the range at s or in it. *)
GapAfter(blocks, s) == \A t \in DOMAIN blocks : t > s => t > End(blocks, s)

(* BlockCollection::insert, with the complete range of start. *)
InsertBlocks(c, start, data) ==
  LET taken == start \in DOMAIN c.blocks
               /\ (c.blocks[start].complete => c.blocks[start].len >= Len(data))
  IN  IF data = <<>> \/ taken
      THEN c
      ELSE [c EXCEPT !.blocks = [s \in DOMAIN @ \cup {start} |->
                                   IF s = start THEN Complete(data) ELSE @[s]]]

(* The first number that nobody has and nobody downloads, from first on. *)
FirstNeeded(blocks, first) ==
  IF \A s \in DOMAIN blocks : s > first
  THEN first
  ELSE End(blocks, Min({s \in DOMAIN blocks : GapAfter(blocks, s)}))

(* BlockCollection::needed_blocks: the range [start, end) to ask a peer    *)
(* for, empty when the peer has nothing that is needed.                    *)
NeededBlocks(c, peer_best, common) ==
  LET start == FirstNeeded(c.blocks, common + 1)
      gap == {start + MAX_BLOCKS_TO_REQUEST} \cup {s \in DOMAIN c.blocks : s >= start}
  IN  [start |-> start, end |-> Min(gap \cup {peer_best + 1})]

MarkDownloading(c, p, range) ==
  [blocks |-> [s \in DOMAIN c.blocks \cup {range.start} |->
                 IF s = range.start THEN Downloading(range.end - range.start) ELSE c.blocks[s]],
   peer_requests |-> [q \in DOMAIN c.peer_requests \cup {p} |->
                        IF q = p THEN range.start ELSE c.peer_requests[q]]]

(* BlockCollection::drain: the complete ranges from the lowest one on, as  *)
(* long as each starts where the one before it ends or earlier.            *)
Drained(blocks, first) ==
  LET Reached(s) == LET below == {t \in DOMAIN blocks : t < s}
                    IN  s <= IF below = {} THEN first ELSE End(blocks, Max(below))
  IN  {s \in DOMAIN blocks :
         \A t \in DOMAIN blocks : t <= s => blocks[t].complete /\ Reached(t)}

DrainedBlocks(blocks, first) ==
  LET starts == SetToSortSeq(Drained(blocks, first), <)
  IN  FlattenSeq([i \in DOMAIN starts |-> blocks[starts[i]].data])

Drain(c, first) ==
  [c EXCEPT !.blocks = Restrict(@, DOMAIN @ \ Drained(@, first))]

(* Mutant: a range stays marked when its peer is gone. *)
ClearPeerDownloadOnly(c, p) ==
  [c EXCEPT !.peer_requests = Restrict(@, DOMAIN @ \ {p})]

(* BlockCollection::clear_peer_download *)
ClearPeerDownload(c, p) ==
  IF p \notin DOMAIN c.peer_requests
  THEN c
  ELSE LET start == c.peer_requests[p]
           remove == start \in DOMAIN c.blocks /\ ~c.blocks[start].complete
       IN  [blocks |-> IF remove THEN Restrict(c.blocks, DOMAIN c.blocks \ {start}) ELSE c.blocks,
            peer_requests |-> Restrict(c.peer_requests, DOMAIN c.peer_requests \ {p})]

-----------------------------------------------------------------------------
Block(f, n) == <<n, IF n <= Branch THEN 0 ELSE f>>
Parent(b) == Block(b[2], b[1] - 1)

Available == [kind |-> "available"]
DownloadingNew(n) == [kind |-> "new", start |-> n]
DownloadingStale(b) == [kind |-> "stale", block |-> b]
AncestorSearch(n) == [kind |-> "search", number |-> n]

Init ==
  /\ setup \in Setups
  /\ sync = [peers |-> <<>>, blocks |-> NoBlocks, best |-> setup.ours[2]]
  /\ chain = [known |-> {Block(setup.ours[1], n) : n \in 0..setup.ours[2]},
              at |-> [n \in 0..setup.ours[2] |-> Block(setup.ours[1], n)],
              best |-> setup.ours[2]]
  /\ notices = <<>>
  /\ status = [p \in Peers |-> None]
  /\ asked = {}
  /\ height = [p \in Peers |-> setup.theirs[p][2]]
  /\ counts = {} /\ linked = {} /\ closing = {} /\ disabled = {}
  /\ to = [p \in Peers |-> <<>>]
  /\ from = [p \in Peers |-> <<>>]
  /\ drops = 0

-----------------------------------------------------------------------------
(* A handler works on the state of ChainSync, the requests it sends and    *)
(* the peers it cuts off or bans.                                          *)
Handler == [peers |-> sync.peers, blocks |-> sync.blocks, best |-> sync.best,
            sends |-> <<>>, cut |-> {}, ban |-> {}]

Set(f, x, v) == [y \in DOMAIN f \cup {x} |-> IF y = x THEN v ELSE f[y]]

Request(w, p, first, max) == [w EXCEPT !.sends = Set(@, p, [first |-> first, max |-> max])]

(* Mutant: a peer is asked again while it has a request. *)
DownloadNewAlways(w, p) ==
  LET peer == w.peers[p]
      range == NeededBlocks(w.blocks, peer.best, peer.common)
  IN  IF range.start <= peer.best
      THEN Request([w EXCEPT !.blocks = MarkDownloading(@, p, range),
                             !.peers[p].state = DownloadingNew(range.start)],
                   p, range.start, range.end - range.start)
      ELSE w

(* ChainSync::download_new *)
DownloadNew(w, p) ==
  LET peer == w.peers[p]
      range == NeededBlocks(w.blocks, peer.best, peer.common)
  IN  IF peer.state = Available /\ range.start <= peer.best
      THEN Request([w EXCEPT !.blocks = MarkDownloading(@, p, range),
                             !.peers[p].state = DownloadingNew(range.start)],
                   p, range.start, range.end - range.start)
      ELSE w

(* ChainSync::download_stale *)
DownloadStale(w, p, b) ==
  IF w.peers[p].state = Available
  THEN Request([w EXCEPT !.peers[p].state = DownloadingStale(b)], p, b[1], 1)
  ELSE w

(* ChainSync::new_peer *)
NewPeer(w, p, b, known) ==
  LET Peer(common, state) ==
        [w EXCEPT !.peers = Set(@, p, [common |-> common, best |-> b[1], state |-> state])]
  IN  IF b \in known THEN Peer(b[1], Available)
      ELSE IF w.best > 0 THEN Request(Peer(0, AncestorSearch(w.best)), p, w.best, 1)
      ELSE DownloadNew(Peer(0, Available), p)

(* Mutant: nothing more is asked for. *)
MaintainSyncNot(w, order) == w

(* ChainSync::maintain_sync, over the peers in any order. *)
MaintainSync(w, order) == FoldLeft(DownloadNew, w, order)

(* ChainSync::restart, with best_queued_number read after the peers. *)
Restart(w, order, c) ==
  [FoldLeft(LAMBDA x, p : NewPeer(x, p, status[p], c.known),
            [w EXCEPT !.blocks = NoBlocks], order)
     EXCEPT !.best = c.best]

(* ChainSync::block_imported *)
BlockImported(w, n) ==
  [w EXCEPT !.best = Max({@, n}),
            !.peers = [p \in DOMAIN @ |-> IF @[p].best >= n THEN [@[p] EXCEPT !.common = n]
                                          ELSE @[p]]]

(* Client::import_block *)
Import(c, b) ==
  [known |-> c.known \cup {b}, at |-> Set(c.at, b[1], b),
   best |-> IF b[1] = c.best + 1 THEN b[1] ELSE c.best]

(* One block of the import loop of on_block_data: it is known, or fits, or *)
(* ends the loop.  Only a block at the best number seen is announced.      *)
ImportOne(l, b) ==
  CASE ~l.ok \/ b \in l.chain.known -> l
    [] l.ok /\ b \notin l.chain.known /\ Parent(b) \notin l.chain.known -> [l EXCEPT !.ok = FALSE]
    [] OTHER -> [l EXCEPT !.chain = Import(@, b), !.w = BlockImported(@, b[1]),
                          !.notices = IF b[1] >= l.seen THEN Append(@, b[1]) ELSE @]

BestSeen(w) == Max({w.peers[p].best : p \in DOMAIN w.peers})

(* ChainSync::on_block_data: the blocks that are ready for import. *)
NewBlocks(w, p, data) ==
  LET state == w.peers[p].state
      done == InsertBlocks(ClearPeerDownload(w.blocks, p), state.start, data)
  IN  CASE state.kind = "new" -> DrainedBlocks(done.blocks, w.best + 1)
        [] state.kind = "stale" -> data
        [] OTHER -> <<>>

(* ... and what is left when they are taken. *)
Taken(w, p, data) ==
  LET state == w.peers[p].state
      done == InsertBlocks(ClearPeerDownload(w.blocks, p), state.start, data)
      free == [w EXCEPT !.peers[p].state = Available]
  IN  CASE state.kind = "new" -> [free EXCEPT !.blocks = Drain(done, w.best + 1)]
        [] state.kind = "search" -> [free EXCEPT !.peers[p].common = Max({@, state.number})]
        [] OTHER -> free

(* The end of a handler: requests go out, older ones become outdated. *)
Outdated(s) == [i \in DOMAIN s |-> IF s[i].kind \in {"request", "response"}
                                   THEN [s[i] EXCEPT !.fresh = FALSE] ELSE s[i]]

Store(w, waiting, inbox) ==
  /\ sync' = [peers |-> w.peers, blocks |-> w.blocks, best |-> w.best]
  /\ asked' = waiting \cup DOMAIN w.sends
  /\ to' = [p \in Peers |->
              IF p \in DOMAIN w.sends
              THEN Append(Outdated(to[p]), [kind |-> "request", fresh |-> TRUE] @@ w.sends[p])
              ELSE to[p]]
  /\ from' = [p \in Peers |-> IF p \in DOMAIN w.sends THEN Outdated(inbox[p]) ELSE inbox[p]]
  /\ closing' = closing \cup w.cut \cup w.ban
  /\ disabled' = disabled \cup w.ban

(* The same when the connection to p is gone. *)
Hangup(w, p) ==
  /\ sync' = [peers |-> w.peers, blocks |-> w.blocks, best |-> w.best]
  /\ asked' = (asked \ {p}) \cup DOMAIN w.sends
  /\ to' = [q \in Peers |->
              IF q = p THEN <<>>
              ELSE IF q \in DOMAIN w.sends
              THEN Append(Outdated(to[q]), [kind |-> "request", fresh |-> TRUE] @@ w.sends[q])
              ELSE to[q]]
  /\ from' = [q \in Peers |-> IF q = p THEN <<>>
                              ELSE IF q \in DOMAIN w.sends THEN Outdated(from[q]) ELSE from[q]]
  /\ closing' = closing \ {p}
  /\ UNCHANGED disabled

-----------------------------------------------------------------------------
Orders(S) == SetToSeqs(S)

Arrives(p, kind) == from[p] # <<>> /\ Head(from[p]).kind = kind

Inbox(p) == [from EXCEPT ![p] = Tail(@)]

(* Protocol::on_status_message *)
OnStatusMessage(p) ==
  /\ Arrives(p, "status")
  /\ status' = [status EXCEPT ![p] = Head(from[p]).block]
  /\ Store(NewPeer(Handler, p, Head(from[p]).block, chain.known), asked, Inbox(p))
  /\ UNCHANGED <<setup, chain, notices, height, counts, linked, drops>>

(* A response nobody waits for gets its sender banned; one with another id *)
(* is ignored, but the request it was taken for is gone.                   *)
UnexpectedResponse(p) ==
  /\ Arrives(p, "response")
  /\ \/ p \notin asked /\ Store([Handler EXCEPT !.ban = {p}], asked, Inbox(p))
     \/ p \in asked /\ ~Head(from[p]).fresh /\ Store(Handler, asked \ {p}, Inbox(p))
  /\ UNCHANGED <<setup, chain, notices, status, height, counts, linked, drops>>

Answered(p) == Arrives(p, "response") /\ p \in asked /\ Head(from[p]).fresh

(* The block at the number searched for is not the node's. *)
Differs(p) ==
  LET state == sync.peers[p].state
      data == Head(from[p]).blocks
  IN  /\ state.kind = "search"
      /\ ~(data # <<>> /\ state.number \in DOMAIN chain.at /\ data[1] = chain.at[state.number])

(* ChainSync::on_block_data, when the search for the common block goes on  *)
(* one block below or the peer has no block at that number.                *)
SearchOn(p) ==
  LET n == sync.peers[p].state.number - 1
  IN  /\ Answered(p) /\ Differs(p)
      /\ \/ /\ Head(from[p]).blocks = <<>>
            /\ Store([Handler EXCEPT !.cut = {p}], asked \ {p}, Inbox(p))
         \/ /\ Head(from[p]).blocks # <<>>
            /\ Store(Request([Handler EXCEPT !.peers[p].state = AncestorSearch(n)], p, n, 1),
                     asked \ {p}, Inbox(p))
      /\ UNCHANGED <<setup, chain, notices, status, height, counts, linked, drops>>

(* ChainSync::on_block_data otherwise: import what is ready, then look for *)
(* more, or start again when a block does not fit.                         *)
OnBlockData(p) ==
  LET data == Head(from[p]).blocks
      w == Taken(Handler, p, data)
      l == FoldLeft(ImportOne, [ok |-> TRUE, w |-> w, chain |-> chain, notices |-> notices,
                                seen |-> BestSeen(w)], NewBlocks(Handler, p, data))
  IN  /\ Answered(p) /\ ~Differs(p)
      /\ chain' = l.chain /\ notices' = l.notices
      /\ \E order \in Orders(DOMAIN sync.peers) :
           Store(IF l.ok THEN MaintainSync(l.w, order) ELSE Restart(l.w, order, l.chain),
                 asked \ {p}, Inbox(p))
      /\ UNCHANGED <<setup, status, height, counts, linked, drops>>

KnownOrDownloading(b) ==
  b \in chain.known \/ \E p \in DOMAIN sync.peers : sync.peers[p].state = DownloadingStale(b)

(* Protocol::on_block_announce and ChainSync::on_block_announce *)
OnBlockAnnounce(p) ==
  LET b == Head(from[p]).block
      n == b[1]
      told == [Handler EXCEPT !.peers[p] =
                 [@ EXCEPT !.best = Max({@, n}),
                           !.common = IF n <= sync.best THEN Max({@, n}) ELSE @]]
  IN  /\ Arrives(p, "announce")
      /\ Store(CASE KnownOrDownloading(b) -> told
                 [] ~KnownOrDownloading(b) /\ n > sync.best -> DownloadNew(told, p)
                 [] OTHER -> IF KnownOrDownloading(Parent(b)) THEN DownloadStale(told, p, b)
                             ELSE told,
               asked, Inbox(p))
      /\ UNCHANGED <<setup, chain, notices, status, height, counts, linked, drops>>

(* Protocol::on_block_imported, for the oldest notification. *)
OnBlockImported ==
  /\ notices # <<>>
  /\ notices' = Tail(notices)
  /\ Store(BlockImported(Handler, Head(notices)), asked, from)
  /\ UNCHANGED <<setup, chain, status, height, counts, linked, drops>>

(* The agreement the node takes part in has decided on the next block. *)
OwnImport ==
  LET top == chain.at[chain.best]
      b == Block(IF top[2] = 0 THEN setup.ours[1] ELSE top[2], chain.best + 1)
  IN  /\ setup.authors /\ chain.best < MaxAuthored
      /\ chain' = Import(chain, b)
      /\ notices' = Append(notices, b[1])
      /\ UNCHANGED <<setup, sync, status, asked, net, drops>>

(* Protocol::on_peer_disconnected and ChainSync::peer_disconnected, after  *)
(* the node has cut the peer off, a timeout, or the loss of the connection.*)
OnPeerDisconnected(p) ==
  LET gone == [Handler EXCEPT !.blocks = ClearPeerDownload(@, p),
                              !.peers = Restrict(@, DOMAIN @ \ {p})]
  IN  /\ p \in linked
      /\ \/ p \in closing /\ UNCHANGED drops
         \/ p \notin closing /\ drops < MaxDrops /\ drops' = drops + 1
      /\ status' = [status EXCEPT ![p] = None]
      /\ linked' = linked \ {p} /\ counts' = counts \ {p}
      /\ \E order \in Orders(DOMAIN gone.peers) :
           LET w == IF status[p] = None THEN Handler ELSE MaintainSync(gone, order)
           IN  Hangup(w, p)
      /\ UNCHANGED <<setup, chain, notices, height>>

-----------------------------------------------------------------------------
(* External: a connection, over which both sides send their status. *)
Connect(p) ==
  /\ p \notin linked \cup disabled
  /\ linked' = linked \cup {p}
  /\ to' = [to EXCEPT ![p] = <<[kind |-> "status"]>>]
  /\ from' = [from EXCEPT ![p] =
                <<[kind |-> "status", block |-> Block(setup.theirs[p][1], height[p])]>>]
  /\ UNCHANGED <<setup, sync, chain, notices, status, asked, height, counts, closing, disabled,
                 drops>>

(* Protocol::on_block_request at the peer, and the node's status. *)
PeerReceives(p) ==
  LET m == Head(to[p])
      last == Min({height[p], m.first + m.max - 1})
  IN  /\ to[p] # <<>>
      /\ to' = [to EXCEPT ![p] = Tail(@)]
      /\ \/ /\ m.kind = "status"
            /\ counts' = counts \cup {p}
            /\ UNCHANGED from
         \/ /\ m.kind = "request"
            /\ from' = [from EXCEPT ![p] = Append(@,
                 [kind |-> "response", fresh |-> m.fresh,
                  blocks |-> [i \in 1..(last - m.first + 1) |->
                                Block(setup.theirs[p][1], m.first + i - 1)]])]
            /\ UNCHANGED counts
      /\ UNCHANGED <<setup, sync, chain, notices, status, asked, height, linked, closing, disabled,
                     drops>>

(* The peer imports a block and announces it to those it counts as peers. *)
PeerImports(p) ==
  /\ MapThenSumSet(LAMBDA q : height[q] - setup.theirs[q][2], Peers) < MaxImports
  /\ height' = [height EXCEPT ![p] = @ + 1]
  /\ from' = IF p \in counts
             THEN [from EXCEPT ![p] = Append(@,
                     [kind |-> "announce", block |-> Block(setup.theirs[p][1], height[p] + 1)])]
             ELSE from
  /\ UNCHANGED <<setup, sync, chain, notices, status, asked, counts, linked, to, closing,
                 disabled, drops>>

Next ==
  \/ \E p \in Peers :
       \/ OnStatusMessage(p) \/ UnexpectedResponse(p) \/ SearchOn(p) \/ OnBlockData(p)
       \/ OnBlockAnnounce(p) \/ OnPeerDisconnected(p)
       \/ Connect(p) \/ PeerReceives(p) \/ PeerImports(p)
  \/ OnBlockImported \/ OwnImport

(* Connections come back and are closed, messages are read on both sides,  *)
(* and notifications are handled.  Busy(p) says when a step of Receives(p) *)
(* is possible, so this is weak fairness of it.                            *)
Receives(p) ==
  \/ OnStatusMessage(p) \/ UnexpectedResponse(p) \/ SearchOn(p) \/ OnBlockData(p)
  \/ OnBlockAnnounce(p) \/ PeerReceives(p) \/ Connect(p)
  \/ p \in closing /\ OnPeerDisconnected(p)

Busy(p) == from[p] # <<>> \/ to[p] # <<>> \/ p \notin linked \cup disabled \/ p \in closing

Fairness ==
  /\ []<>(notices = <<>>) \/ []<><<OnBlockImported>>_vars
  /\ \A p \in Peers : []<>(~Busy(p)) \/ []<><<Receives(p)>>_vars

Spec == Init /\ [][Next]_vars /\ Fairness

-----------------------------------------------------------------------------
(* The ranges do not overlap, a peer that has asked for a range is the     *)
(* only one that downloads it, and every range that is downloading has a   *)
(* peer.  The debug assertions of insert and clear_peer_download hold, and *)
(* no block is lost or downloaded twice at the same time.                  *)
RangesMatch(c) ==
  LET loading == {s \in DOMAIN c.blocks : ~c.blocks[s].complete}
      wanted == {c.peer_requests[p] : p \in DOMAIN c.peer_requests}
  IN  /\ loading = wanted
      /\ \A p, q \in DOMAIN c.peer_requests :
           p # q => c.peer_requests[p] # c.peer_requests[q]
      /\ \A s, t \in DOMAIN c.blocks : s < t => End(c.blocks, s) <= t
SingleChain == \A p \in Peers : setup.theirs[p][1] = setup.ours[1]

(* The collection of blocks and the states of the peers agree: a range is  *)
(* downloading exactly when a peer is in DownloadingNew for it, ranges do  *)
(* not overlap, and so the debug assertions of blocks.rs hold.             *)
DownloadsMatch ==
  /\ RangesMatch(sync.blocks)
  /\ sync.blocks.peer_requests =
       [p \in {q \in DOMAIN sync.peers : sync.peers[q].state.kind = "new"} |->
          sync.peers[p].state.start]

(* While there are no forks the node never bans or cuts off a peer.        *)
HonestKept == SingleChain => closing = {}

(* While there are no forks and the node does not author blocks itself, it *)
(* gets every block that a connected peer has told it of: the block is     *)
(* imported, or lies in the collection, where the next download finds it.  *)
CaughtUp ==
  SingleChain /\ ~setup.authors =>
    []<>(\A p \in DOMAIN sync.peers : \A n \in (chain.best + 1)..sync.peers[p].best :
           \E s \in DOMAIN sync.blocks.blocks :
             sync.blocks.blocks[s].complete /\ s <= n /\ n < End(sync.blocks.blocks, s))

(* The bookkeeping of downloads is right, and costs no honest peer         *)
(* (ChainSync, BlockCollection, on_block_response).                        *)
DownloadsSound == DownloadsMatch /\ HonestKept
=============================================================================
