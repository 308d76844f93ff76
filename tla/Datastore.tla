------------------------------ MODULE Datastore ------------------------------
(***************************************************************************)
(* A table of the locking_tx_datastore.  The committed rows are not        *)
(* touched by a mutable transaction: what it inserts is kept in            *)
(* insert_tables, the committed rows it deletes are marked in              *)
(* delete_tables, and merge applies both at the end.  Indexes are added to *)
(* and removed from the committed table at once, and a rollback undoes     *)
(* this.  The transaction has the write lock, so there is one at a time.   *)
(*                                                                         *)
(* A committed row stands for its RowPointer: both are unique.  What an    *)
(* index finds is computed from the rows it indexes.  A table without      *)
(* indexes has a pointer map, through which a row is found by its value.   *)
(* image is the database that replaying the commitlog would build.         *)
(***************************************************************************)
EXTENDS Integers, Sequences

CONSTANTS
  Row,              \* the rows that can be stored
  IndexId,          \* the unique indexes the table can have
  Project(_, _),    \* Project(i, row): the row's key in index i
  MaxSchemaChanges  \* bound: schema changes of a transaction

ASSUME DatastoreAssumption == MaxSchemaChanges \in Nat

VARIABLES
  committed,   \* CommittedState: the rows
  indexes,     \* CommittedState: the indexes of the table
  pointer_map, \* CommittedState: the pointer map of the table, {} or {rows}
  st_index,    \* CommittedState: the rows of the system table st_index
  tx,          \* "none", "open", "failed" (its caller rolls back), "rollback";
               \* "panicked" when an assertion of the code failed
  inserts,     \* TxState::insert_tables
  deletes,     \* TxState::delete_tables
  tx_st_index, \* st_index as the transaction sees it
  pending,     \* TxState::pending_schema_changes
  image,       \* rows, indexes: what replay makes of the commitlog
  out          \* the last operation and its result

txvars == <<inserts, deletes, tx_st_index, pending>>
statevars == <<committed, indexes, pointer_map, st_index>>
vars == <<statevars, tx, txvars, image, out>>

Change == [kind : {"added", "removed"}, index : IndexId, map : SUBSET SUBSET Row]

----------------------------------------------------------------------------
(* Tables *)

(* TableIndex::seek_point *)
Seek(R, i, row) == {q \in R : Project(i, q) = Project(i, row)}

(* Table::check_unique_constraints, and of insert_into_indices *)
Violates(R, I, row) == \E i \in I : Seek(R, i, row) # {}

(* TableIndex::build_from_rows *)
CanBuild(R, i) == \A q, r \in R : Project(i, q) = Project(i, r) => q = r

(* TableIndex::can_merge *)
CanMerge(R, i, S) == \A row \in S : Seek(R, i, row) = {}

(* Table::add_index: the pointer map, if any, is given to the caller. *)
AddIndex(i) == indexes' = indexes \cup {i} /\ pointer_map' = {}

MapNotRebuilt(i, map) == IF indexes \ {i} = {} THEN map ELSE pointer_map

MapWithout(i, map) ==
  IF indexes \ {i} # {} THEN pointer_map ELSE IF map # {} THEN map ELSE {committed}

(* Table::delete_index: after the last one there is a pointer map again. *)
DeleteIndex(i, map) == indexes' = indexes \ {i} /\ pointer_map' = MapWithout(i, map)

SameLiveRow(row) == row \in committed \ deletes

(* Table::find_same_row in the committed table, where deleted rows still are *)
SameRow(row) ==
  IF pointer_map # {} THEN row \in UNION pointer_map
                      ELSE \E i \in indexes : row \in Seek(committed, i, row)

----------------------------------------------------------------------------
(* MutTxId: rows *)

BeginMutTx ==
  /\ tx = "none" /\ tx' = "open"
  /\ inserts' = {} /\ deletes' = {} /\ tx_st_index' = st_index /\ pending' = <<>>
  /\ UNCHANGED <<statevars, image, out>>

Returns(op, res) == out' = <<op, res>> /\ UNCHANGED <<tx, statevars, tx_st_index, pending, image>>

NotUndeleted(row) == deletes

(* DeleteTable::remove *)
Undeleted(row) == deletes \ {row}

(* insert: the row is put into the insert table first, where it may be a    *)
(* duplicate or violate a constraint.  If it is a committed row it is taken *)
(* out again, and undeleted if it was deleted.                              *)
Insert(row) ==
  LET rejected == row \notin inserts /\ Violates(inserts, indexes, row)
      insert == <<"insert", row>>
      conflicts == Violates(committed \ deletes, indexes, row)
  IN /\ tx = "open"
     /\ \/ row \in inserts /\ UNCHANGED <<inserts, deletes>> /\ Returns(insert, "ok")
        \/ rejected /\ UNCHANGED <<inserts, deletes>> /\ Returns(insert, "err")
        \/ /\ row \notin inserts /\ ~rejected /\ SameRow(row)
           /\ deletes' = Undeleted(row) /\ UNCHANGED inserts /\ Returns(insert, "ok")
        \/ /\ row \notin inserts /\ ~rejected /\ ~SameRow(row) /\ conflicts
           /\ UNCHANGED <<inserts, deletes>> /\ Returns(insert, "err")
        \/ /\ row \notin inserts /\ ~rejected /\ ~SameRow(row) /\ ~conflicts
           /\ inserts' = inserts \cup {row} /\ UNCHANGED deletes /\ Returns(insert, "ok")

(* update finds the old row by the key in index i, first among the          *)
(* committed rows and then among the inserted ones.                         *)
Update(i, row) ==
  LET found == Seek(committed, i, row)
      commit_old == found \ deletes
      tx_old == Seek(inserts, i, row)
      rejected == \/ i \notin indexes
                  \/ Violates(committed \ (deletes \cup commit_old), indexes \ {i}, row)
      update == <<"update", i, row>>
      unchanged == UNCHANGED <<inserts, deletes>>
  IN /\ tx = "open"
     /\ \/ rejected /\ unchanged /\ Returns(update, "err")
        \/ /\ ~rejected /\ commit_old # {}
           /\ \/ row \in commit_old /\ unchanged /\ Returns(update, "ok")
              \/ /\ row \notin commit_old /\ Violates(inserts, indexes, row)
                 /\ unchanged /\ Returns(update, "err")
              \/ /\ row \notin commit_old /\ ~Violates(inserts, indexes, row)
                 /\ inserts' = inserts \cup {row} /\ deletes' = deletes \cup commit_old
                 /\ Returns(update, "ok")
        \/ /\ ~rejected /\ commit_old = {} /\ tx_old # {}
           /\ \/ /\ Violates(inserts \ tx_old, indexes, row)
                 /\ unchanged /\ Returns(update, "err")
              \/ /\ ~Violates(inserts \ tx_old, indexes, row)
                 /\ IF row \in found
                    THEN inserts' = inserts \ tx_old /\ deletes' = deletes \ {row}
                    ELSE inserts' = (inserts \ tx_old) \cup {row} /\ UNCHANGED deletes
                 /\ Returns(update, "ok")
        \/ ~rejected /\ commit_old = {} /\ tx_old = {} /\ unchanged /\ Returns(update, "err")

(* delete_by_row_value: looks for the row among the committed ones first,   *)
(* deleted or not.                                                          *)
DeleteByRowValue(row) ==
  /\ tx = "open"
  /\ IF SameRow(row)
     THEN /\ deletes' = deletes \cup {row} /\ UNCHANGED inserts
          /\ Returns(<<"delete", row>>, IF row \in deletes THEN "absent" ELSE "ok")
     ELSE /\ inserts' = inserts \ {row} /\ UNCHANGED deletes
          /\ Returns(<<"delete", row>>, IF row \in inserts THEN "ok" ELSE "absent")

----------------------------------------------------------------------------
(* MutTxId: indexes *)

BuildableApart(i) == CanBuild(inserts, i) /\ CanBuild(committed, i)

(* Rows that the transaction deleted are indexed, too. *)
Buildable(i) ==
  /\ CanBuild(inserts, i) /\ CanBuild(committed, i)
  /\ CanMerge(committed \ deletes, i, inserts)

(* push_schema_change *)
Pushed(kind, i, map) ==
  LET change == [kind |-> kind, index |-> i, map |-> map]
  IN pending' = Append(pending, change)

(* create_index: st_index has been changed when the rows are found to       *)
(* violate the constraint.                                                  *)
CreateIndex(i) ==
  /\ tx = "open" /\ i \notin tx_st_index /\ Len(pending) < MaxSchemaChanges
  /\ tx_st_index' = tx_st_index \cup {i}
  /\ IF Buildable(i)
     THEN AddIndex(i) /\ Pushed("added", i, pointer_map) /\ UNCHANGED tx
     ELSE tx' = "failed" /\ UNCHANGED <<indexes, pointer_map, pending>>
  /\ out' = <<<<"create_index", i>>, IF Buildable(i) THEN "ok" ELSE "err">>
  /\ UNCHANGED <<committed, st_index, inserts, deletes, image>>

DropIndex(i) ==
  /\ tx = "open" /\ i \in tx_st_index /\ Len(pending) < MaxSchemaChanges
  /\ tx_st_index' = tx_st_index \ {i}
  /\ DeleteIndex(i, {}) /\ Pushed("removed", i, {}) /\ out' = <<<<"drop_index", i>>, "ok">>
  /\ UNCHANGED <<tx, committed, st_index, inserts, deletes, image>>

----------------------------------------------------------------------------
(* Commit, rollback, replay *)

(* ReplayVisitor: the inserts of a transaction, then its deletes.  An       *)
(* insert of a row that is there and a delete of one that is not are        *)
(* errors; no index has been built.                                         *)
ReplayRows(rows, ins, del) ==
  [ok |-> ins \cap rows = {} /\ del \subseteq rows \cup ins, rows |-> (rows \cup ins) \ del]

(* CommittedState::merge: the deletes, then the inserts *)
Merge(rows) == (rows \ deletes) \cup inserts

(* It expects every deleted row to be there, and every insert to succeed. *)
CanMergeTx ==
  /\ deletes \subseteq committed
  /\ inserts \cap (committed \ deletes) = {}
  /\ \A i \in indexes : CanBuild(Merge(committed), i)

CommitTx ==
  /\ tx = "open"
  /\ LET replayed == ReplayRows(image.rows, inserts, deletes)
     IN IF CanMergeTx /\ replayed.ok
        THEN /\ tx' = "none"
             /\ committed' = Merge(committed) /\ st_index' = tx_st_index
             /\ pointer_map' = {Merge(map) : map \in pointer_map}
             /\ image' = [rows |-> replayed.rows, indexes |-> tx_st_index]
        ELSE /\ tx' = "panicked"
             /\ UNCHANGED <<committed, pointer_map, st_index, image>>
  /\ inserts' = {} /\ deletes' = {} /\ pending' = <<>> /\ out' = <<>>
  /\ UNCHANGED <<indexes, tx_st_index>>

(* rollback drops the TxState ... *)
Rollback ==
  /\ tx \in {"open", "failed"} /\ tx' = "rollback"
  /\ inserts' = {} /\ deletes' = {} /\ tx_st_index' = st_index /\ out' = <<>>
  /\ UNCHANGED <<statevars, pending, image>>

FirstChange == Head(pending)

LastChange == pending[Len(pending)]

(* ... and undoes the schema changes, the last one first. *)
RollbackPendingSchemaChange ==
  /\ tx = "rollback" /\ pending # <<>>
  /\ pending' = SubSeq(pending, 1, Len(pending) - 1)
  /\ IF LastChange.kind = "added" THEN DeleteIndex(LastChange.index, LastChange.map)
                                  ELSE AddIndex(LastChange.index)
  /\ UNCHANGED <<tx, committed, st_index, inserts, deletes, tx_st_index, image, out>>

RollbackDone ==
  /\ tx = "rollback" /\ pending = <<>> /\ tx' = "none"
  /\ UNCHANGED <<statevars, txvars, image, out>>

(* A restart replays the commitlog and builds the indexes listed in         *)
(* st_index, which must not find a violation.                               *)
Restart ==
  /\ tx # "panicked"
  /\ inserts' = {} /\ deletes' = {} /\ pending' = <<>> /\ tx_st_index' = image.indexes
  /\ pointer_map' = IF image.indexes = {} THEN {image.rows} ELSE {}
  /\ committed' = image.rows /\ st_index' = image.indexes /\ indexes' = image.indexes
  /\ tx' = IF \A i \in image.indexes : CanBuild(image.rows, i) THEN "none" ELSE "panicked"
  /\ out' = <<>> /\ UNCHANGED image

----------------------------------------------------------------------------
Init ==
  /\ committed = {} /\ indexes \in SUBSET IndexId /\ st_index = indexes
  /\ pointer_map = IF indexes = {} THEN {{}} ELSE {}
  /\ tx = "none" /\ inserts = {} /\ deletes = {} /\ tx_st_index = st_index /\ pending = <<>>
  /\ image = [rows |-> {}, indexes |-> indexes] /\ out = <<>>

Next ==
  \/ BeginMutTx
  \/ \E row \in Row : Insert(row) \/ DeleteByRowValue(row)
  \/ \E i \in IndexId, row \in Row : Update(i, row)
  \/ \E i \in IndexId : CreateIndex(i) \/ DropIndex(i)
  \/ CommitTx \/ Rollback \/ RollbackPendingSchemaChange \/ RollbackDone \/ Restart

Spec == Init /\ [][Next]_vars

----------------------------------------------------------------------------
(* Properties *)

(* The variables have their types. *)
TypeOK ==
  /\ committed \subseteq Row /\ inserts \subseteq Row /\ deletes \subseteq Row
  /\ pointer_map \subseteq SUBSET Row
  /\ indexes \subseteq IndexId /\ st_index \subseteq IndexId /\ tx_st_index \subseteq IndexId
  /\ tx \in {"none", "open", "failed", "rollback", "panicked"}
  /\ pending \in Seq(Change)
  /\ image \in [rows : SUBSET Row, indexes : SUBSET IndexId]
  /\ out = <<>> \/ out[2] \in {"ok", "err", "absent"}

(* The invariants of TxState, and that inserted rows violate no unique      *)
(* constraint among themselves or with the committed rows that stay: merge  *)
(* relies on all of it and panics otherwise.                                *)
TxStateInvariant ==
  /\ inserts \cap committed = {} /\ deletes \subseteq committed
  /\ tx = "open" => \A i \in indexes : CanBuild(Merge(committed), i)

(* No assertion of merge, of replay or of the index construction at a       *)
(* restart ever fails: constraints need not be checked during replay, and   *)
(* its order, inserts before deletes, does not matter.                      *)
NeverPanics == tx # "panicked"

(* A committed row can always be found by its value: the pointer map is     *)
(* there exactly when the table has no index, and then lists its rows, also *)
(* while schema changes are being undone.                                   *)
PointerMapIsCurrent == pointer_map = IF indexes = {} THEN {committed} ELSE {}

(* Between transactions the committed state, its indexes and st_index are   *)
(* what replaying the commitlog yields, also after schema changes that were *)
(* rolled back.                                                             *)
ReplayReproduces ==
  tx = "none" => /\ image = [rows |-> committed, indexes |-> st_index]
                 /\ indexes = st_index

(* What the transaction sees, and returns to when it is rolled back *)
Table == INSTANCE SerializableTable WITH
  rows <- (committed \ deletes) \cup inserts,
  indexes <- IF tx = "rollback" THEN st_index ELSE indexes,
  saved <- [rows |-> committed, indexes |-> st_index]

(* A mutable transaction's operations have the results and effects they     *)
(* would have on a plain set of rows, and a rollback or a restart removes   *)
(* all of them.                                                             *)
ImplementsTable == Table!Spec
=============================================================================
