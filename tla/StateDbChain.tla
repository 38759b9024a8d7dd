---------------------------- MODULE StateDbChain ----------------------------
(***************************************************************************)
(* A state database under a growing, forking and finalizing chain, with    *)
(* restarts: blocks are inserted wherever the asserts of insert allow it,  *)
(* any root of the overlay is finalized, blocks are pinned and unpinned.   *)
(*                                                                         *)
(* The state of a block is a set of trie nodes, and its change set is the  *)
(* difference to its parent's state.  A commit is written atomically, in   *)
(* one transaction of the key-value store.                                 *)
(***************************************************************************)
EXTENDS StateDb

CONSTANTS Genesis,      \* the hash of block 0
          Modes,        \* pruning modes to start with
          MaxNumber,    \* bound: height of the chain
          MaxChildren,  \* bound: blocks inserted on one parent
          RestartForked, \* whether the node is restarted while there are forks
          MaxPinned     \* bound: blocks pinned at one time

ASSUME HashesAssumption == Genesis \notin Hashes /\ None \notin Hashes

VARIABLES st,         \* the StateDbSync
          db,         \* the backing database
          chain,      \* history: number, parent and state of every block
          canonical,  \* history: the finalized hashes, Genesis first
          guarded     \* history: blocks pinned while their state was readable

vars == <<st, db, chain, canonical, guarded>>

Blocks == Hashes \cup {Genesis}

Known == {b \in Blocks : chain[b] # None}

Init ==
  /\ \E mode \in Modes, state \in SUBSET Keys :
       /\ db = Apply([data |-> {}, meta |-> <<>>],
                     CommitSet(ChangeSet(state, {}), NoMeta))
       /\ st = NewStateDb(mode, <<>>)
       /\ chain = [b \in Blocks |->
                     IF b = Genesis
                     THEN [number |-> 0, parent |-> None, state |-> state]
                     ELSE None]
  /\ canonical = <<Genesis>>
  /\ guarded = {}

Insert(b, p, state) ==
  LET number == chain[p].number + 1
      change == ChangeSet(state \ chain[p].state, chain[p].state \ state)
      r == InsertBlock(st, b, number, p, change)
  IN  /\ number <= MaxNumber
      /\ Cardinality({c \in Known : chain[c].parent = p}) < MaxChildren
      /\ st.mode.kind # "ArchiveAll" => CanInsert(st, number, p)
      /\ st' = r.st
      /\ db' = Apply(db, r.commit)
      /\ chain' = [chain EXCEPT ![b] = [number |-> number, parent |-> p,
                                        state |-> state]]
      /\ UNCHANGED <<canonical, guarded>>

(* The roots that finalize would accept. *)
Roots ==
  IF st.mode.kind = "ArchiveAll"
  THEN {b \in Known : chain[b].parent = canonical[Len(canonical)]}
  ELSE IF st.levels = <<>> THEN {}
       ELSE {st.levels[1][j].hash : j \in 1..Len(st.levels[1])}

Finalize(b) ==
  LET r == FinalizeBlock(st, b)
  IN  /\ b \in Roots
      /\ st' = r.st
      /\ db' = Apply(db, r.commit)
      /\ canonical' = Append(canonical, b)
      /\ UNCHANGED <<chain, guarded>>

PinBlock(b) ==
  /\ Cardinality(st.pinned \cup {b}) <= MaxPinned
  /\ st' = Pin(st, b)
  /\ guarded' = IF chain[b].state \subseteq Readable(st, db)
                THEN guarded \cup {b} ELSE guarded
  /\ UNCHANGED <<db, chain, canonical>>

UnpinBlock(b) ==
  /\ b \in st.pinned
  /\ st' = Unpin(st, b)
  /\ guarded' = guarded \ {b}
  /\ UNCHANGED <<db, chain, canonical>>

(* A block of the overlay has a sibling, or had one that was discarded. *)
Forked == \E b, c \in Known : b # c /\ chain[b].parent = chain[c].parent

(* The process ends, at any point between two commits, and starts again.   *)
(* Pins are not kept.                                                      *)
Restart ==
  /\ RestartForked \/ ~Forked
  /\ st' = NewStateDb(st.mode, db.meta)
  /\ guarded' = {}
  /\ UNCHANGED <<db, chain, canonical>>

Next ==
  \/ \E b \in Hashes \ Known, p \in Known, state \in SUBSET Keys :
       Insert(b, p, state)
  \/ \E b \in Known : Finalize(b)
  \/ \E b \in Known : PinBlock(b)
  \/ \E b \in Known : UnpinBlock(b)
  \/ Restart

Spec == Init /\ [][Next]_vars

-----------------------------------------------------------------------------
Overlays ==
  UNION {{st.levels[i][j] : j \in 1..Len(st.levels[i])} : i \in 1..Len(st.levels)}

TypeOK ==
  /\ db.data \subseteq Keys
  /\ \A o \in Overlays : /\ o.hash \in Hashes /\ o.index \in Nat
                         /\ o.inserted \subseteq Keys /\ o.deleted \subseteq Keys
  /\ st.parents \in [Hashes -> Blocks \cup {None}]
  /\ st.death_index \in [Keys -> Nat \cup {None}]
  /\ st.pending_number \in Nat \ {0}
  /\ \A i \in 1..Len(st.death_rows) : st.death_rows[i].deleted \subseteq Keys

(* The canonical blocks whose state is kept: all in the archive modes;     *)
(* pruning the row of a block destroys the state before it.                *)
KeptNumbers ==
  IF st.mode.kind = "Constrained" THEN (st.pending_number - 1)..(Len(canonical) - 1)
                                  ELSE 0..(Len(canonical) - 1)

(* The database holds the states of the kept canonical blocks and nothing  *)
(* else: pruning removes no node that a kept block still uses, also when   *)
(* it was deleted and inserted again in between, and leaves no garbage.    *)
DataIsExact ==
  db.data = IF st.mode.kind = "ArchiveAll"
            THEN UNION {chain[b].state : b \in Known}
            ELSE UNION {chain[canonical[n + 1]].state : n \in KeptNumbers}

(* h and its ancestors in the overlay. *)
Branch(h) ==
  {o \in Overlays : \E n \in 0..MaxNumber :
     LET up[i \in 0..n] == IF i = 0 THEN h ELSE chain[up[i - 1]].parent
     IN  (\A i \in 0..(n - 1) : up[i] # Genesis) /\ up[n] = o.hash}

(* The state of every unfinalized block can be read from the database and  *)
(* the change sets of its own branch: finalizing or discarding another     *)
(* branch, or pruning, never takes a node away from it.                    *)
UnfinalizedReadable ==
  \A o \in Overlays :
    chain[o.hash].state \subseteq
      db.data \cup UNION {a.inserted : a \in Branch(o.hash)}

(* The overlay is exactly the tree above the last finalized block.         *)
OverlayIsTree ==
  st.mode.kind # "ArchiveAll" =>
    LET last == canonical[Len(canonical)]
        Above[n \in 0..MaxNumber] ==
          IF n = 0 THEN {last}
          ELSE {b \in Known : chain[b].parent \in Above[n - 1]}
    IN  {o.hash : o \in Overlays} = UNION {Above[n] : n \in 1..MaxNumber}

(* The index names the death row that holds a key, every key on a row is   *)
(* in the index, and no entry of the index points before the window (where *)
(* the subtraction of import would underflow).                             *)
DeathIndexMatches ==
  \A k \in Keys :
    /\ \A i \in 1..Len(st.death_rows) :
         (k \in st.death_rows[i].deleted)
           <=> (st.death_index[k] = st.pending_number + i - 1)
    /\ st.death_index[k] # None =>
         st.death_index[k] - st.pending_number \in 0..(Len(st.death_rows) - 1)

Tree(s) ==
  UNION {{<<i, s.parents[s.levels[i][j].hash], s.levels[i][j]>> :
            j \in 1..Len(s.levels[i])} : i \in 1..Len(s.levels)}

(* "The tree is journaled to the backing database and rebuilt on startup": *)
(* a restart finds the overlay and the pruning window as they were.        *)
RebuiltOnStartup ==
  LET new == NewStateDb(st.mode, db.meta)
  IN  /\ Tree(new) = Tree(st)
      /\ new.last_finalized = st.last_finalized
      /\ new.death_rows = st.death_rows
      /\ new.death_index = st.death_index
      /\ new.pending_number = st.pending_number

(* That holds as long as no block has had a sibling. *)
RebuiltUnlessForked == Forked \/ RebuiltOnStartup

(* Through finalization, discarded forks, pruning, pins and restarts, the  *)
(* database has the states it is to keep and no others, those of blocks    *)
(* that are not final can be read, the overlay is the tree of those, and   *)
(* the death index agrees with its rows (UnfinalizedOverlay, RefWindow).   *)
StatesExact == DataIsExact /\ UnfinalizedReadable /\ OverlayIsTree /\ DeathIndexMatches

-----------------------------------------------------------------------------
(* Small instances for TLC. *)
AllModes == {Constrained(0), Constrained(1), ArchiveAll, ArchiveCanonical}

WindowModes == {Constrained(0), Constrained(1), Constrained(2)}

Symmetry == Permutations(Hashes) \cup Permutations(Keys)
=============================================================================
