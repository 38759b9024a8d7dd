------------------------------ MODULE OnDemand ------------------------------
(***************************************************************************)
(* The remote calls of a light client (substrate/network/src/on_demand.rs):*)
(* requests wait, are dispatched to idle peers, and are given to another   *)
(* peer when the first one answers wrongly, too late or not at all.        *)
(*                                                                         *)
(* A request is the caller it answers.  The events of one connection are   *)
(* handled one after the other; the service link is set before any event.  *)
(***************************************************************************)
EXTENDS Integers, Sequences, FiniteSets

CONSTANTS Servers,
          Honest,       \* peers whose proofs check out
          Silent,       \* peers that never answer
          Callers,
          MaxFailures    \* bound: lost or slow connections, false peers coming back

VARIABLES core,      \* OnDemandCore
          link,      \* the state of each connection: down, up or closing
          lines,     \* the ids of the requests and answers on a connection
          answered,  \* history: the answers of each caller
          called,    \* history: the callers that asked
          mishaps

calls == <<core, link, lines, answered, called, mishaps>>

CallsInit ==
  /\ core = [next_request_id |-> 0, pending |-> <<>>, active |-> <<>>, idle |-> <<>>]
  /\ link = [p \in Servers |-> "down"]
  /\ lines = [p \in Servers |-> {}]
  /\ answered = [r \in Callers |-> 0]
  /\ called = {}
  /\ mishaps = 0

-----------------------------------------------------------------------------
AddPeer(c, p) == [c EXCEPT !.idle = Append(@, p)]

Active(c, p) == {i \in DOMAIN c.active : c.active[i].peer = p}

Request(a) == [id |-> a.id, data |-> a.data]

(* VecDeque::swap_remove_back: the last element takes the place of the ith. *)
SwapRemoveBack(s, i) == SubSeq([s EXCEPT ![i] = s[Len(s)]], 1, Len(s) - 1)

(* LinkedHashMap::remove: the ith goes, the others keep their order. *)
Removed(s, i) == [j \in 1..(Len(s) - 1) |-> IF j < i THEN s[j] ELSE s[j + 1]]

(* Mutant: the request of a peer that goes is dropped with it. *)
RemovePeerForgetful(c, p) ==
  [c EXCEPT !.active = SelectSeq(@, LAMBDA a : a.peer # p),
            !.idle = SelectSeq(@, LAMBDA q : q # p)]

(* A peer goes: its request is the next one to be dispatched again. *)
RemovePeer(c, p) ==
  IF Active(c, p) # {}
  THEN LET i == CHOOSE i \in Active(c, p) : TRUE
       IN  [c EXCEPT !.active = Removed(@, i), !.pending = <<Request(c.active[i])>> \o @]
  ELSE IF \E i \in DOMAIN c.idle : c.idle[i] = p
  THEN LET i == CHOOSE i \in DOMAIN c.idle :
                  c.idle[i] = p /\ \A j \in 1..(i - 1) : c.idle[j] # p
       IN  [c EXCEPT !.idle = SwapRemoveBack(@, i)]
  ELSE c

(* The first k active requests are too old: they are pushed to the front   *)
(* of the pending ones, one after the other.                               *)
TimedOut(c, k) ==
  [c EXCEPT !.active = SubSeq(@, k + 1, Len(@)),
            !.pending = [i \in 1..k |-> Request(c.active[k + 1 - i])] \o @]

Insert(c, d) ==
  [c EXCEPT !.pending = Append(@, [id |-> c.next_request_id, data |-> d]),
            !.next_request_id = @ + 1]

(* The answered request leaves the peer, which becomes idle. *)
RemoveRequest(c, i) ==
  [c EXCEPT !.active = Removed(@, i), !.idle = Append(@, c.active[i].peer)]

Dispatched(c) ==
  LET k == IF Len(c.pending) < Len(c.idle) THEN Len(c.pending) ELSE Len(c.idle)
  IN  [i \in 1..k |-> [peer |-> c.idle[i], id |-> c.pending[i].id, data |-> c.pending[i].data]]

(* Dispatch: pending requests go to idle peers in order, and are sent. *)
Dispatch(c, w) ==
  LET new == Dispatched(c)
  IN  /\ core' = [c EXCEPT !.pending = SubSeq(@, Len(new) + 1, Len(@)),
                           !.idle = SubSeq(@, Len(new) + 1, Len(@)),
                           !.active = @ \o new]
      /\ lines' = [p \in Servers |-> w[p] \cup {new[i].id : i \in {j \in DOMAIN new : new[j].peer = p}}]

-----------------------------------------------------------------------------
(* Fetcher::remote_call *)
RemoteCall(r) ==
  /\ r \notin called
  /\ called' = called \cup {r}
  /\ Dispatch(Insert(core, r), lines)
  /\ UNCHANGED <<link, answered, mishaps>>

(* A false peer that comes back is a mishap. *)
OnConnect(p) ==
  /\ link[p] = "down"
  /\ p \notin Honest => mishaps < MaxFailures
  /\ mishaps' = IF p \in Honest THEN mishaps ELSE mishaps + 1
  /\ link' = [link EXCEPT ![p] = "up"]
  /\ Dispatch(AddPeer(core, p), lines)
  /\ UNCHANGED <<answered, called>>

(* The connection is closed, by us or by accident. *)
OnDisconnect(p) ==
  /\ \/ link[p] = "closing" /\ UNCHANGED mishaps
     \/ link[p] = "up" /\ mishaps < MaxFailures /\ mishaps' = mishaps + 1
  /\ link' = [link EXCEPT ![p] = "down"]
  /\ Dispatch(RemovePeer(core, p), [lines EXCEPT ![p] = {}])
  /\ UNCHANGED <<answered, called>>

(* The peers of the k oldest requests have not answered in time.  That an  *)
(* honest one has not is a mishap.                                         *)
MaintainPeers(k) ==
  LET late == {core.active[i].peer : i \in 1..k}
      slow == Cardinality(late \ Silent)
  IN  /\ k \in 0..Len(core.active)
      /\ mishaps + slow <= MaxFailures
      /\ mishaps' = mishaps + slow
      /\ link' = [p \in Servers |-> IF p \in late THEN "closing" ELSE link[p]]
      /\ Dispatch(TimedOut(core, k), lines)
      /\ UNCHANGED <<answered, called>>

(* on_remote_call_response and accept_response: the answer with the id is  *)
(* unexpected, or checks out, or does not.                                 *)
OnRemoteCallResponse(p, id) ==
  LET mine == {i \in Active(core, p) : core.active[i].id = id}
      w == [lines EXCEPT ![p] = @ \ {id}]
      closed == [link EXCEPT ![p] = "closing"]
  IN  /\ id \in lines[p] /\ p \notin Silent
      /\ \/ /\ mine = {}
            /\ link' = closed
            /\ core' = RemovePeer(core, p)
            /\ lines' = w
            /\ UNCHANGED answered
         \/ \E i \in mine :
              /\ p \in Honest
              /\ answered' = [answered EXCEPT ![core.active[i].data] = @ + 1]
              /\ Dispatch(RemoveRequest(core, i), w)
              /\ UNCHANGED link
         \/ \E i \in mine :
              /\ p \notin Honest
              /\ link' = closed
              /\ Dispatch(Insert(RemovePeer(RemoveRequest(core, i), p), core.active[i].data), w)
              /\ UNCHANGED answered
      /\ UNCHANGED <<called, mishaps>>

CallsNext ==
  \/ \E r \in Callers : RemoteCall(r)
  \/ \E p \in Servers : OnConnect(p) \/ OnDisconnect(p)
  \/ \E k \in 0..Cardinality(Servers) : MaintainPeers(k)
  \/ \E p \in Servers : \E id \in lines[p] : OnRemoteCallResponse(p, id)

(* Connections that are being closed close, peers answer, honest ones come *)
(* back when there is a call, and the timer of the network service runs.   *)
Closes(p) == link[p] = "closing" /\ OnDisconnect(p)
Responds(p) == \E id \in lines[p] : OnRemoteCallResponse(p, id)
ConnectsAgain(p) == called # {} /\ OnConnect(p)

CallsFairness ==
  /\ \A p \in Servers : WF_calls(Closes(p)) /\ WF_calls(Responds(p))
  /\ \A p \in Honest : WF_calls(ConnectsAgain(p))
  /\ WF_calls(MaintainPeers(1))

CallsSpec == CallsInit /\ [][CallsNext]_calls /\ CallsFairness

-----------------------------------------------------------------------------
(* Every call waits in exactly one place or has been answered exactly      *)
(* once, and every connected peer is idle or has exactly one request: no   *)
(* request takes the place of another in the map of the active peers       *)
(* (remove_peer, maintain_peers, dispatch and the retry of                 *)
(* accept_response).                                                       *)
CallsKept ==
  /\ \A r \in called :
       Cardinality({i \in DOMAIN core.pending : core.pending[i].data = r})
         + Cardinality({i \in DOMAIN core.active : core.active[i].data = r}) + answered[r] = 1
  /\ \A p \in Servers :
       Cardinality({i \in DOMAIN core.idle : core.idle[i] = p})
         + Cardinality({i \in DOMAIN core.active : core.active[i].peer = p})
           = IF link[p] = "up" THEN 1 ELSE 0

(* Every call is answered, although peers lie, are silent, slow or go.     *)
CallsAnswered == []<>(\A r \in called : answered[r] = 1)
=============================================================================
