------------------------------ MODULE StateDb ------------------------------
(***************************************************************************)
(* The state database (substrate/state-db/src): the overlay of unfinalized *)
(* blocks, the pruning window of finalized ones, and the journals that     *)
(* both are rebuilt from.                                                  *)
(*                                                                         *)
(* The in-memory StateDbSync is a record, and every operation an operator  *)
(* that gives the new record and the CommitSet the caller has to write.    *)
(* Trie nodes are content-addressed, so a key stands for its value.  The   *)
(* backing database is a set of keys and a map of meta entries.            *)
(***************************************************************************)
EXTENDS Integers, Sequences, FiniteSets, TLC

CONSTANTS Hashes,  \* block hashes
          Keys,    \* trie node keys
          None

(* Meta keys. *)
LAST_FINALIZED == <<"last_finalized">>
LAST_PRUNED == <<"last_pruned">>
UnfinalizedJournal(number, index) == <<"unfinalized_journal", number, index>>
PruningJournal(number) == <<"pruning_journal", number>>

ChangeSet(inserted, deleted) == [inserted |-> inserted, deleted |-> deleted]

NoMeta == [inserted |-> <<>>, deleted |-> {}]

CommitSet(data, meta) == [data |-> data, meta |-> meta]

(* Writing a commit in one transaction, insertions first: what client/db's *)
(* apply_state_commit does.                                                *)
Apply(db, commit) ==
  LET meta == commit.meta.inserted @@ db.meta
  IN  [data |-> (db.data \cup commit.data.inserted) \ commit.data.deleted,
       meta |-> [k \in DOMAIN meta \ commit.meta.deleted |-> meta[k]]]

-----------------------------------------------------------------------------
(* unfinalized.rs *)

Front(st) == IF st.last_finalized = None THEN 0
             ELSE st.last_finalized.number + 1

(* The level that is read back for a block number: journal entries are     *)
(* looked up from index 0 until one is missing.                            *)
JournaledLevel(meta, number) ==
  LET Missing(i) == UnfinalizedJournal(number, i) \notin DOMAIN meta
      len == CHOOSE i \in 0..Cardinality(Hashes) :
               Missing(i) /\ \A j \in 0..(i - 1) : ~Missing(j)
  IN  [i \in 1..len |-> LET rec == meta[UnfinalizedJournal(number, i - 1)]
                        IN  [hash |-> rec.hash, index |-> i - 1,
                             inserted |-> rec.inserted,
                             deleted |-> rec.deleted]]

(* UnfinalizedOverlay::new: levels are read until one is empty. *)
ReadUnfinalized(meta) ==
  LET lf == IF LAST_FINALIZED \in DOMAIN meta THEN meta[LAST_FINALIZED]
                                              ELSE None
      Level(i) == JournaledLevel(meta, lf.number + i)
      height == IF lf = None THEN 0
                ELSE CHOOSE i \in 0..Cardinality(Hashes) :
                       /\ Level(i + 1) = <<>>
                       /\ \A j \in 1..i : Level(j) # <<>>
      levels == [i \in 1..height |-> Level(i)]
      records == UNION {{meta[UnfinalizedJournal(lf.number + i, o.index)] :
                           o \in {levels[i][j] : j \in 1..Len(levels[i])}} :
                        i \in 1..height}
  IN  [last_finalized |-> lf,
       levels |-> levels,
       parents |-> [h \in Hashes |->
                      IF \E r \in records : r.hash = h
                      THEN (CHOOSE r \in records : r.hash = h).parent
                      ELSE None]]

(* The asserts of UnfinalizedOverlay::insert, met by every caller.  (With  *)
(* nothing finalized yet the parent is assumed to be.)                     *)
CanInsert(st, number, parent) ==
  \/ st.last_finalized = None /\ st.levels = <<>>
  \/ /\ st.last_finalized # None
     /\ number \in Front(st)..(Front(st) + Len(st.levels))
     /\ IF number = Front(st) THEN st.last_finalized.hash = parent
        ELSE parent \in Hashes /\ st.parents[parent] # None

(* UnfinalizedOverlay::insert *)
InsertUnfinalized(st, hash, number, parent, change) ==
  LET first == st.last_finalized = None
      lf == IF first THEN [hash |-> parent, number |-> number - 1]
            ELSE st.last_finalized
      levels == IF number = lf.number + 1 + Len(st.levels)
                THEN Append(st.levels, <<>>) ELSE st.levels
      at == number - lf.number
      index == Len(levels[at])
      overlay == [hash |-> hash, index |-> index,
                  inserted |-> change.inserted, deleted |-> change.deleted]
      journal == UnfinalizedJournal(number, index) :>
                   [hash |-> hash, parent |-> parent,
                    inserted |-> change.inserted, deleted |-> change.deleted]
      meta == IF first THEN (LAST_FINALIZED :> lf) @@ journal ELSE journal
  IN  [st |-> [st EXCEPT !.last_finalized = lf,
                         !.levels = [levels EXCEPT ![at] = Append(@, overlay)],
                         !.parents[hash] = parent],
       commit |-> CommitSet(ChangeSet({}, {}),
                            [inserted |-> meta, deleted |-> {}])]

(* Mutant: only the roots are discarded, not what was built on them. *)
DiscardedRoots(st, hash) ==
  [i \in 1..Len(st.levels) |->
     IF i = 1 THEN {st.levels[1][j].hash : j \in 1..Len(st.levels[1])} \ {hash}
     ELSE {}]

(* The hashes that finalizing `hash' takes out of every level: the whole   *)
(* front level, and below it the descendants of the other roots (discard). *)
Discarded(st, hash) ==
  LET At(i) == {st.levels[i][j].hash : j \in 1..Len(st.levels[i])}
      doomed[i \in 1..Len(st.levels)] ==
        IF i = 1 THEN At(1) \ {hash}
        ELSE {h \in At(i) : st.parents[h] \in doomed[i - 1]}
  IN  doomed

(* Mutant: the change set of the first root is committed. *)
FinalizeFirst(st, hash) ==
  LET front == Head(st.levels)
      lf == [hash |-> hash, number |-> Front(st)]
  IN  [st |-> [st EXCEPT !.last_finalized = lf,
                         !.levels = Tail(@),
                         !.parents[hash] = None],
       commit |-> CommitSet(ChangeSet(front[1].inserted, front[1].deleted),
                            [inserted |-> LAST_FINALIZED :> lf,
                             deleted |-> {UnfinalizedJournal(lf.number, 0)}])]

(* UnfinalizedOverlay::finalize *)
FinalizeUnfinalized(st, hash) ==
  LET number == Front(st)
      front == Head(st.levels)
      final == CHOOSE i \in 1..Len(front) : front[i].hash = hash
      doomed == Discarded(st, hash)
      Keep(i) == SelectSeq(st.levels[i],
                           LAMBDA overlay : overlay.hash \notin doomed[i])
      gone == {hash} \cup UNION {doomed[i] : i \in 1..Len(st.levels)}
      journals == {UnfinalizedJournal(number, front[i].index) : i \in 1..Len(front)}
        \cup UNION {{UnfinalizedJournal(number + i - 1, st.levels[i][j].index) :
                       j \in {k \in 1..Len(st.levels[i]) :
                                st.levels[i][k].hash \in doomed[i]}} :
                    i \in 1..Len(st.levels)}
      lf == [hash |-> hash, number |-> number]
  IN  [st |-> [st EXCEPT
                 !.last_finalized = lf,
                 !.levels = [i \in 1..(Len(@) - 1) |-> Keep(i + 1)],
                 !.parents = [h \in Hashes |-> IF h \in gone THEN None ELSE @[h]]],
       commit |-> CommitSet(ChangeSet(front[final].inserted, front[final].deleted),
                            [inserted |-> LAST_FINALIZED :> lf,
                             deleted |-> journals])]

(* UnfinalizedOverlay::get finds a key of any overlay. *)
OverlayKeys(st) ==
  UNION {st.levels[i][j].inserted :
           <<i, j>> \in {x \in (1..Len(st.levels)) \X (1..Cardinality(Hashes)) :
                           x[2] <= Len(st.levels[x[1]])}}

-----------------------------------------------------------------------------
(* pruning.rs *)

(* Mutant: keys that are inserted again stay on their death row. *)
ImportRowForgetful(st, hash, change) ==
  LET number == st.pending_number + Len(st.death_rows)
  IN  [st EXCEPT
         !.death_rows = Append(@, [hash |-> hash, deleted |-> change.deleted]),
         !.death_index = [k \in Keys |-> IF k \in change.deleted THEN number
                                         ELSE @[k]]]

(* RefWindow::import: keys that are inserted again are taken off the death *)
(* row that the index names.                                               *)
ImportRow(st, hash, change) ==
  LET again == {k \in change.inserted : st.death_index[k] # None}
      Row(i) == [st.death_rows[i] EXCEPT !.deleted =
                   @ \ {k \in again : st.death_index[k] - st.pending_number = i - 1}]
      number == st.pending_number + Len(st.death_rows)
  IN  [st EXCEPT
         !.death_rows = Append([i \in 1..Len(@) |-> Row(i)],
                               [hash |-> hash, deleted |-> change.deleted]),
         !.death_index = [k \in Keys |-> IF k \in change.deleted THEN number
                                         ELSE IF k \in again THEN None
                                         ELSE @[k]]]

(* RefWindow::new: the rows of the journal are imported one by one. *)
ReadPruning(st, meta) ==
  LET pending == IF LAST_PRUNED \in DOMAIN meta THEN meta[LAST_PRUNED] + 1
                                                ELSE 1
      empty == [st EXCEPT !.pending_number = pending,
                          !.death_rows = <<>>,
                          !.death_index = [k \in Keys |-> None]]
      Missing(n) == PruningJournal(n) \notin DOMAIN meta
      last == CHOOSE n \in (pending - 1)..(pending + Cardinality(Hashes)) :
                /\ Missing(n + 1)
                /\ \A m \in pending..n : ~Missing(m)
      read[n \in (pending - 1)..last] ==
        IF n = pending - 1 THEN empty
        ELSE LET rec == meta[PruningJournal(n)]
             IN  ImportRow(read[n - 1], rec.hash, rec)
  IN  read[last]

(* RefWindow::note_finalized takes over the deletions of the commit. *)
NoteFinalized(st, hash, commit) ==
  LET number == st.pending_number + Len(st.death_rows)
  IN  [st |-> ImportRow(st, hash, commit.data),
       commit |-> [commit EXCEPT
         !.data.deleted = {},
         !.meta.inserted = (PruningJournal(number) :>
                              [hash |-> hash, inserted |-> commit.data.inserted,
                               deleted |-> commit.data.deleted]) @@ @]]

(* Mutant: pruned keys stay in the index. *)
PruneOneKeepingIndex(r) ==
  LET row == Head(r.st.death_rows)
      number == r.st.pending_number
  IN  [st |-> [r.st EXCEPT !.death_rows = Tail(@), !.pending_number = number + 1],
       commit |-> [r.commit EXCEPT
         !.data.deleted = @ \cup row.deleted,
         !.meta.inserted = (LAST_PRUNED :> number) @@ @,
         !.meta.deleted = @ \cup {PruningJournal(number)}]]

(* Mutant: the number of the pruned block is not recorded. *)
PruneOneUnrecorded(r) ==
  LET row == Head(r.st.death_rows)
  IN  [st |-> [r.st EXCEPT
         !.death_rows = Tail(@),
         !.death_index = [k \in Keys |-> IF k \in row.deleted THEN None ELSE @[k]],
         !.pending_number = @ + 1],
       commit |-> [r.commit EXCEPT
         !.data.deleted = @ \cup row.deleted,
         !.meta.deleted = @ \cup {PruningJournal(r.st.pending_number)}]]

(* RefWindow::prune_one *)
PruneOne(r) ==
  LET row == Head(r.st.death_rows)
      number == r.st.pending_number
  IN  [st |-> [r.st EXCEPT
         !.death_rows = Tail(@),
         !.death_index = [k \in Keys |-> IF k \in row.deleted THEN None ELSE @[k]],
         !.pending_number = number + 1],
       commit |-> [r.commit EXCEPT
         !.data.deleted = @ \cup row.deleted,
         !.meta.inserted = (LAST_PRUNED :> number) @@ @,
         !.meta.deleted = @ \cup {PruningJournal(number)}]]

-----------------------------------------------------------------------------
(* lib.rs.  A mode is Constrained with a number of blocks (max_mem is not  *)
(* implemented), ArchiveAll or ArchiveCanonical.                           *)

Constrained(max_blocks) == [kind |-> "Constrained", max_blocks |-> max_blocks]
ArchiveAll == [kind |-> "ArchiveAll"]
ArchiveCanonical == [kind |-> "ArchiveCanonical"]

(* StateDbSync::new *)
NewStateDb(mode, meta) ==
  LET unfinalized == ReadUnfinalized(meta)
      st == [mode |-> mode,
             last_finalized |-> unfinalized.last_finalized,
             levels |-> unfinalized.levels,
             parents |-> unfinalized.parents,
             death_rows |-> <<>>,
             death_index |-> [k \in Keys |-> None],
             pending_number |-> 1,
             pinned |-> {}]
  IN  IF mode.kind = "Constrained" THEN ReadPruning(st, meta) ELSE st

(* insert_block *)
InsertBlock(st, hash, number, parent, change) ==
  IF number = 0 THEN [st |-> st, commit |-> CommitSet(change, NoMeta)]
  ELSE IF st.mode.kind = "ArchiveAll"
  THEN [st |-> st,
        commit |-> CommitSet([change EXCEPT !.deleted = {}], NoMeta)]
  ELSE InsertUnfinalized(st, hash, number, parent, change)

(* prune: the loop stops at the size of the window or at a pinned block. *)
Prune(r) ==
  LET rows == r.st.death_rows
      excess == Len(rows) - r.st.mode.max_blocks
      stop == CHOOSE n \in 0..Len(rows) :
                /\ n >= excess \/ rows[n + 1].hash \in r.st.pinned
                /\ \A m \in 0..(n - 1) :
                     m < excess /\ rows[m + 1].hash \notin r.st.pinned
      pruned[n \in 0..stop] == IF n = 0 THEN r ELSE PruneOne(pruned[n - 1])
  IN  pruned[stop]

(* finalize_block *)
FinalizeBlock(st, hash) ==
  CASE st.mode.kind = "ArchiveAll" ->
         [st |-> st, commit |-> CommitSet(ChangeSet({}, {}), NoMeta)]
    [] st.mode.kind = "ArchiveCanonical" ->
         LET r == FinalizeUnfinalized(st, hash)
         IN  [r EXCEPT !.commit.data.deleted = {}]
    [] st.mode.kind = "Constrained" ->
         LET r == FinalizeUnfinalized(st, hash)
         IN  Prune(NoteFinalized(r.st, hash, r.commit))

Pin(st, hash) == [st EXCEPT !.pinned = @ \cup {hash}]

Unpin(st, hash) == [st EXCEPT !.pinned = @ \ {hash}]

(* The keys that `get' answers. *)
Readable(st, db) == OverlayKeys(st) \cup db.data
=============================================================================
