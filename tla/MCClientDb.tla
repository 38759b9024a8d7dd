----------------------------- MODULE MCClientDb -----------------------------
(***************************************************************************)
(* The client and what is below it, part by part: the backend on disk, the *)
(* backends in memory and of light nodes, the calls of a light node, the   *)
(* execution of a call on a state, the encoding of what is stored and      *)
(* sent, and the functions that the host offers to the native and to the   *)
(* Wasm build of the runtime.  Each takes what it gets from another (a     *)
(* state, a header, a value) from a set of its own, so the parts are       *)
(* explored one at a time; the disk and the light client have variables   *)
(* of their own, the others have `other'.                                  *)
(***************************************************************************)
EXTENDS ClientDb, LightClient

CONSTANTS h1, h2, h3

VARIABLES part, other

AllModes == {Constrained(0), Constrained(1), ArchiveAll, ArchiveCanonical}

MCHashes == {h1, h2, h3}
MCFull == {h1}
MCOrigins == {"NetworkInitialSync"}

Memory == INSTANCE Backends WITH
  v <- other, Hashes <- MCHashes, Full <- MCFull, MaxNumber <- 2, Origins <- MCOrigins

(* Two siblings, one of them with a child; the child changes the code. *)
MCChain ==
  (GenesisHeader :> [number |-> 0, parent |-> Absent]) @@ (h1 :> [number |-> 1, parent |-> GenesisHeader])
  @@ (h2 :> [number |-> 1, parent |-> GenesisHeader]) @@ (h3 :> [number |-> 2, parent |-> h1])
MCState ==
  (GenesisHeader :> [code |-> 1, count |-> 0, item |-> 0]) @@ (h1 :> [code |-> 1, count |-> 1, item |-> 1])
  @@ (h2 :> [code |-> 1, count |-> 1, item |-> 2]) @@ (h3 :> [code |-> 2, count |-> 1, item |-> 2])

MCStored == {1}

Machine == INSTANCE Execution WITH e <- other, MaxOps <- 3, MaxCalls <- 2, Values <- MCStored

MCFollows == {0, 31}
MCRawBytes == {0, 1, 2, 16, 28, 29, 31}

Bytes == INSTANCE Codec WITH c <- other, Follows <- MCFollows, RawBytes <- MCRawBytes, MaxRaw <- 4

MCNames == {"x", "y"}

Sandboxes == INSTANCE Sandbox WITH b <- other, Names <- MCNames, HeapSize <- 8, MaxCalls <- 5

MCValues == {<<>>, <<1>>, <<0, 1>>}

Hosts == INSTANCE HostFunctions WITH
  h <- other, Half <- 8, MemSize <- 10, MaxOps <- 4, MaxVecs <- 2, Values <- MCValues

NoLight == l = [answers |-> {}, refused |-> {}]

(* The disk rests in one of its initial states while another is explored. *)
MCInit ==
  /\ Init
  /\ \/ part = "disk" /\ other = None
     \/ /\ st.mode = ArchiveAll /\ window = 0 /\ db.data = {}
        /\ \/ part = "memory" /\ Memory!Init
           \/ part = "light" /\ other = None
           \/ part = "machine" /\ Machine!Init
           \/ part = "bytes" /\ Bytes!Init
           \/ part = "sandbox" /\ Sandboxes!Init
           \/ part = "hosts" /\ Hosts!Init
  /\ IF part = "light" THEN LightInit ELSE NoLight

MCNext ==
  \/ part = "disk" /\ Next /\ UNCHANGED <<part, other, l>>
  \/ part = "memory" /\ Memory!Next /\ UNCHANGED <<part, l, vars>>
  \/ part = "light" /\ LightNext /\ UNCHANGED <<part, other, vars>>
  \/ part = "machine" /\ Machine!Next /\ UNCHANGED <<part, l, vars>>
  \/ part = "bytes" /\ Bytes!Next /\ UNCHANGED <<part, l, vars>>
  \/ part = "sandbox" /\ Sandboxes!Next /\ UNCHANGED <<part, l, vars>>
  \/ part = "hosts" /\ Hosts!Next /\ UNCHANGED <<part, l, vars>>

MCSpec == MCInit /\ [][MCNext]_<<part, other, l, vars>>

(* The threads are alike, and so are the keys of the states on disk. *)
Symmetry == Permutations(Threads) \cup Permutations(Keys)

(* The properties of the parts. *)
BackendsSound == part = "memory" => Memory!BackendsSound
ExecutionSound == part = "machine" => Machine!ExecutionSound
CodecSound == part = "bytes" => Bytes!CodecSound
SandboxesAgree == part = "sandbox" => Sandboxes!SandboxesAgree
HostsAgree == part = "hosts" => Hosts!HostsAgree
=============================================================================
