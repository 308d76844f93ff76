--------------------------- MODULE DatastoreProof ---------------------------
(***************************************************************************)
(* Proofs about Datastore, for every set of rows, every set of unique      *)
(* indexes, whatever they project on, and every number of schema changes:  *)
(* the table is the serializable one, and nothing in it ever panics.       *)
(***************************************************************************)
EXTENDS Datastore, TLAPS

(* The pointer map of a table with the indexes I *)
MapOf(I) == IF I = {} THEN {committed} ELSE {}

(* A pending schema change made the indexes what they were after it. *)
ChangeStep(c, before, after) ==
  \/ /\ c.kind = "added" /\ c.index \notin before
     /\ after = before \cup {c.index} /\ c.map = MapOf(before)
  \/ c.kind = "removed" /\ c.index \in before /\ after = before \ {c.index}

(* h[k]: the indexes after k pending changes.  Undoing them from the last   *)
(* one leads back to what st_index lists.                                   *)
IsTrail(h) ==
  /\ h \in [0..Len(pending) -> SUBSET IndexId]
  /\ h[0] = st_index /\ h[Len(pending)] = indexes
  /\ \A k \in 1..Len(pending) : ChangeStep(pending[k], h[k - 1], h[k])

Trail == \E h : IsTrail(h)

(* Only an open transaction, or one that failed, has changes. *)
Clean ==
  /\ tx \in {"none", "rollback"} => inserts = {} /\ deletes = {}
  /\ tx = "none" => pending = <<>>

(* The transaction's st_index lists the indexes the table has. *)
Listed == tx = "open" => tx_st_index = indexes

(* Deleted rows are still in the indexes: these can be built from all       *)
(* committed rows, not just from those that the transaction sees.           *)
CommittedUnique ==
  /\ \A i \in st_index : CanBuild(committed, i)
  /\ tx = "open" => \A i \in indexes : CanBuild(committed, i)

Inv ==
  /\ TypeOK /\ TxStateInvariant /\ NeverPanics /\ PointerMapIsCurrent
  /\ Clean /\ Listed /\ CommittedUnique /\ Trail
  /\ image = [rows |-> committed, indexes |-> st_index]

----------------------------------------------------------------------------
(* The rows an operation leaves, and the operation on the plain table *)

(* With a current pointer map find_same_row finds the committed rows. *)
LEMMA SameRowFinds ==
  ASSUME PointerMapIsCurrent, NEW row
  PROVE  SameRow(row) <=> row \in committed
BY DEF PointerMapIsCurrent, SameRow, Seek

LEMMA TrailKept ==
  ASSUME Trail, UNCHANGED <<pending, st_index, indexes, committed>>
  PROVE  Trail'
<1>1. PICK h : IsTrail(h)
  BY DEF Trail
<1>2. \A c, I, J : ChangeStep(c, I, J) => ChangeStep(c, I, J)'
  BY DEF ChangeStep, MapOf
<1>3. IsTrail(h)'
  BY <1>1, <1>2 DEF IsTrail
<1>4. QED
  BY <1>3 DEF Trail

(* An operation on rows that keeps the constraints keeps the invariant. *)
LEMMA RowStep ==
  ASSUME Inv, tx = "open", NEW op, NEW res \in {"ok", "err", "absent"}, Returns(op, res),
         inserts' \subseteq Row, deletes' \subseteq committed, inserts' \cap committed = {},
         \A i \in indexes : CanBuild((committed \ deletes') \cup inserts', i)
  PROVE  Inv'
<1> USE DEF Returns, statevars
<1>1. TypeOK'
  BY DEF Inv, TypeOK
<1>2. TxStateInvariant'
  BY DEF Inv, TxStateInvariant, Merge, CanBuild
<1>3. NeverPanics' /\ PointerMapIsCurrent' /\ Clean' /\ Listed'
  BY DEF Inv, NeverPanics, PointerMapIsCurrent, Clean, Listed
<1>4. CommittedUnique'
  BY DEF Inv, CommittedUnique, CanBuild
<1>5. Trail'
  BY TrailKept DEF Inv
<1>6. QED
  BY <1>1, <1>2, <1>3, <1>4, <1>5 DEF Inv

(* Nothing changes but the result. *)
LEMMA SameRows ==
  ASSUME Inv, tx = "open", NEW op, NEW res \in {"ok", "err", "absent"}, Returns(op, res),
         UNCHANGED <<inserts, deletes>>
  PROVE  Inv'
<1>1. inserts \subseteq Row /\ deletes \subseteq committed /\ inserts \cap committed = {}
  BY DEF Inv, TypeOK, TxStateInvariant
<1>2. \A i \in indexes : CanBuild((committed \ deletes) \cup inserts, i)
  BY DEF Inv, TxStateInvariant, Merge
<1>3. QED
  BY <1>1, <1>2, RowStep

LEMMA InsertStep ==
  ASSUME Inv, NEW row \in Row, Insert(row)
  PROVE  Inv' /\ Table!Insert(row)
<1> DEFINE op == <<"insert", row>>
           rejected == row \notin inserts /\ Violates(inserts, indexes, row)
           conflicts == Violates(committed \ deletes, indexes, row)
<1>1. tx = "open"
  BY DEF Insert
<1>2. /\ inserts \subseteq Row /\ deletes \subseteq committed /\ inserts \cap committed = {}
      /\ \A i \in indexes : CanBuild((committed \ deletes) \cup inserts, i)
      /\ \A i \in indexes : CanBuild(committed, i)
  BY <1>1, Zenon DEF Inv, TypeOK, TxStateInvariant, CommittedUnique, Merge
<1>3. SameRow(row) <=> row \in committed
  BY SameRowFinds DEF Inv
<1>4. CASE row \in inserts /\ UNCHANGED <<inserts, deletes>> /\ Returns(op, "ok")
  <2>1. Inv'
    BY <1>1, <1>4, SameRows
  <2>2. Table!Become(((committed \ deletes) \cup inserts) \cup {row}, indexes, op, "ok")
    BY <1>1, <1>2, <1>4 DEF Table!Become, Table!IsUnique, CanBuild, Returns, statevars
  <2>3. QED
    BY <1>1, <2>1, <2>2 DEF Table!Insert
<1>5. CASE rejected /\ UNCHANGED <<inserts, deletes>> /\ Returns(op, "err")
  <2>1. Inv'
    BY <1>1, <1>5, SameRows
  <2>2. ~Table!IsUnique(((committed \ deletes) \cup inserts) \cup {row}, indexes)
    BY <1>5 DEF Table!IsUnique, Violates, Seek
  <2>3. QED
    BY <1>1, <1>5, <2>1, <2>2 DEF Table!Insert, Table!Fail, Returns, statevars
<1>6. CASE /\ row \notin inserts /\ ~rejected /\ SameRow(row)
           /\ deletes' = Undeleted(row) /\ UNCHANGED inserts /\ Returns(op, "ok")
  <2>1. \A i \in indexes : CanBuild((committed \ deletes') \cup inserts, i)
    BY <1>2, <1>3, <1>6 DEF CanBuild, Undeleted, Violates, Seek
  <2>2. Inv'
    BY <1>1, <1>2, <1>6, <2>1, RowStep DEF Undeleted
  <2>3. (committed \ deletes') \cup inserts = ((committed \ deletes) \cup inserts) \cup {row}
    BY <1>3, <1>6 DEF Undeleted
  <2>4. Table!Become(((committed \ deletes) \cup inserts) \cup {row}, indexes, op, "ok")
    BY <1>1, <1>6, <2>1, <2>3 DEF Table!Become, Table!IsUnique, CanBuild, Returns, statevars
  <2>5. QED
    BY <1>1, <2>2, <2>4 DEF Table!Insert
<1>7. CASE /\ row \notin inserts /\ ~rejected /\ ~SameRow(row) /\ conflicts
           /\ UNCHANGED <<inserts, deletes>> /\ Returns(op, "err")
  <2>1. Inv'
    BY <1>1, <1>7, SameRows
  <2>2. ~Table!IsUnique(((committed \ deletes) \cup inserts) \cup {row}, indexes)
    BY <1>3, <1>7 DEF Table!IsUnique, Violates, Seek
  <2>3. QED
    BY <1>1, <1>7, <2>1, <2>2 DEF Table!Insert, Table!Fail, Returns, statevars
<1>8. CASE /\ row \notin inserts /\ ~rejected /\ ~SameRow(row) /\ ~conflicts
           /\ inserts' = inserts \cup {row} /\ UNCHANGED deletes /\ Returns(op, "ok")
  <2>1. \A i \in indexes : CanBuild((committed \ deletes) \cup inserts', i)
    BY <1>2, <1>8 DEF CanBuild, Violates, Seek
  <2>2. Inv'
    BY <1>1, <1>2, <1>3, <1>8, <2>1, RowStep
  <2>3. Table!Become(((committed \ deletes) \cup inserts) \cup {row}, indexes, op, "ok")
    BY <1>1, <1>8, <2>1 DEF Table!Become, Table!IsUnique, CanBuild, Returns, statevars
  <2>4. QED
    BY <1>1, <2>2, <2>3 DEF Table!Insert
<1>9. QED
  BY <1>4, <1>5, <1>6, <1>7, <1>8 DEF Insert

LEMMA DeleteStep ==
  ASSUME Inv, NEW row \in Row, DeleteByRowValue(row)
  PROVE  Inv' /\ Table!Delete(row)
<1> DEFINE op == <<"delete", row>>
           view == (committed \ deletes) \cup inserts
           res == IF row \in view THEN "ok" ELSE "absent"
<1>1. tx = "open"
  BY DEF DeleteByRowValue
<1>2. /\ inserts \subseteq Row /\ deletes \subseteq committed /\ inserts \cap committed = {}
      /\ \A i \in indexes : CanBuild(view, i)
  BY <1>1, Zenon DEF Inv, TypeOK, TxStateInvariant, Merge
<1>3. SameRow(row) <=> row \in committed
  BY SameRowFinds DEF Inv
<1>4. Returns(op, res)
  BY <1>2, <1>3 DEF DeleteByRowValue
<1>5. inserts' \subseteq inserts /\ deletes' \subseteq committed
  BY <1>2, <1>3 DEF DeleteByRowValue
<1>6. (committed \ deletes') \cup inserts' = view \ {row}
  BY <1>2, <1>3 DEF DeleteByRowValue
<1>7. \A i \in indexes : CanBuild(view \ {row}, i)
  BY <1>2 DEF CanBuild
<1>8. Inv'
  <2>1. res \in {"ok", "err", "absent"}
    OBVIOUS
  <2>2. QED
    BY <1>1, <1>2, <1>4, <1>5, <1>6, <1>7, <2>1, RowStep
<1>9. Table!Become(view \ {row}, indexes, op, res)
  BY <1>1, <1>4, <1>6, <1>7 DEF Table!Become, Table!IsUnique, CanBuild, Returns, statevars
<1>10. QED
  BY <1>1, <1>8, <1>9 DEF Table!Delete

(* The cases of update in which it has an effect: the row it replaces is    *)
(* the one that holds the key, wherever that one is stored.                 *)
LEMMA UpdateStep ==
  ASSUME Inv, NEW i \in IndexId, NEW row \in Row, Update(i, row)
  PROVE  Inv' /\ Table!Update(i, row)
<1> DEFINE op == <<"update", i, row>>
           view == (committed \ deletes) \cup inserts
           old == Table!Holding(view, i, row)
           new == (view \ old) \cup {row}
           found == Seek(committed, i, row)
           commit_old == found \ deletes
           tx_old == Seek(inserts, i, row)
           rejected == \/ i \notin indexes
                       \/ Violates(committed \ (deletes \cup commit_old), indexes \ {i}, row)
<1>1. tx = "open"
  BY DEF Update
<1>2. /\ inserts \subseteq Row /\ deletes \subseteq committed /\ inserts \cap committed = {}
      /\ \A j \in indexes : CanBuild(view, j)
      /\ \A j \in indexes : CanBuild(committed, j)
  BY <1>1, Zenon DEF Inv, TypeOK, TxStateInvariant, CommittedUnique, Merge
<1>3. old = commit_old \cup tx_old
  BY DEF Table!Holding, Seek
<1>fail. ASSUME UNCHANGED <<inserts, deletes>>, Returns(op, "err"),
                i \notin indexes \/ old = {} \/ ~Table!IsUnique(new, indexes)
         PROVE  Inv' /\ Table!Update(i, row)
  <2>1. Inv'
    BY <1>1, <1>fail, SameRows
  <2>2. QED
    BY <1>1, <1>fail, <2>1, Zenon DEF Table!Update, Table!Fail, Returns, statevars
<1>done. ASSUME Returns(op, "ok"), i \in indexes, old # {},
                inserts' \subseteq Row, deletes' \subseteq committed, inserts' \cap committed = {},
                (committed \ deletes') \cup inserts' = new,
                \A j \in indexes : CanBuild(new, j)
         PROVE  Inv' /\ Table!Update(i, row)
  <2>1. Inv'
    BY <1>1, <1>done, RowStep, Zenon
  <2>2. Table!Become(new, indexes, op, "ok")
    BY <1>1, <1>done, Zenon DEF Table!Become, Table!IsUnique, CanBuild, Returns, statevars
  <2>3. QED
    BY <1>1, <1>done, <2>1, <2>2, Zenon DEF Table!Update
<1>4. CASE rejected /\ UNCHANGED <<inserts, deletes>> /\ Returns(op, "err")
  <2>1. i \notin indexes \/ ~Table!IsUnique(new, indexes)
    BY <1>3, <1>4, Zenon DEF Table!IsUnique, Violates, Seek
  <2>2. QED
    BY <1>4, <1>fail, <2>1
<1>5. CASE ~rejected /\ commit_old # {}
  <2>1. i \in indexes /\ tx_old = {}
    BY <1>2, <1>5 DEF CanBuild, Seek
  <2>2. CASE row \in commit_old /\ UNCHANGED <<inserts, deletes>> /\ Returns(op, "ok")
    <3>1. new = view
      BY <1>2, <1>3, <2>1, <2>2, Zenon DEF CanBuild, Seek
    <3>2. QED
      BY <1>2, <1>3, <1>5, <1>done, <2>1, <2>2, <3>1
  <2>3. CASE /\ row \notin commit_old /\ Violates(inserts, indexes, row)
             /\ UNCHANGED <<inserts, deletes>> /\ Returns(op, "err")
    <3>1. row \notin inserts
      BY <2>1 DEF Seek
    <3>2. ~Table!IsUnique(new, indexes)
      BY <1>3, <2>1, <2>3, <3>1, Zenon DEF Table!IsUnique, Violates, Seek
    <3>3. QED
      BY <1>fail, <2>3, <3>2
  <2>4. CASE /\ row \notin commit_old /\ ~Violates(inserts, indexes, row)
             /\ inserts' = inserts \cup {row} /\ deletes' = deletes \cup commit_old
             /\ Returns(op, "ok")
    <3>1. row \notin committed
      BY <1>2, <1>5, <2>1, <2>4 DEF CanBuild, Seek
    <3>2. (committed \ deletes') \cup inserts' = new
      BY <1>2, <1>3, <2>1, <2>4, Zenon DEF Seek
    <3>3. \A j \in indexes : CanBuild(new, j)
      BY <1>2, <1>3, <1>5, <2>1, <2>4 DEF CanBuild, Violates, Seek
    <3>4. inserts' \subseteq Row /\ deletes' \subseteq committed /\ inserts' \cap committed = {}
      BY <1>2, <2>4, <3>1 DEF Seek
    <3>5. QED
      BY <1>3, <1>5, <1>done, <2>1, <2>4, <3>2, <3>3, <3>4, Zenon
  <2>5. QED
    BY <1>5, <2>2, <2>3, <2>4 DEF Update
<1>6. CASE ~rejected /\ commit_old = {} /\ tx_old # {}
  <2>1. i \in indexes
    BY <1>6
  <2>2. CASE /\ Violates(inserts \ tx_old, indexes, row)
             /\ UNCHANGED <<inserts, deletes>> /\ Returns(op, "err")
    <3>1. ~Table!IsUnique(new, indexes)
      BY <1>3, <1>6, <2>2 DEF Table!IsUnique, Violates, Seek
    <3>2. QED
      BY <1>fail, <2>2, <3>1
  <2>3. CASE /\ ~Violates(inserts \ tx_old, indexes, row)
             /\ IF row \in found
                THEN inserts' = inserts \ tx_old /\ deletes' = deletes \ {row}
                ELSE inserts' = (inserts \ tx_old) \cup {row} /\ UNCHANGED deletes
             /\ Returns(op, "ok")
    <3>1. \A j \in indexes : CanBuild(new, j)
      BY <1>2, <1>3, <1>6, <2>1, <2>3 DEF CanBuild, Violates, Seek
    <3>2. CASE row \in found /\ inserts' = inserts \ tx_old /\ deletes' = deletes \ {row}
      <4>1. (committed \ deletes') \cup inserts' = new
        BY <1>2, <1>3, <1>6, <3>2 DEF Seek
      <4>2. QED
        BY <1>2, <1>3, <1>6, <1>done, <2>1, <2>3, <3>1, <3>2, <4>1, Zenon
    <3>3. CASE row \notin found /\ inserts' = (inserts \ tx_old) \cup {row} /\ UNCHANGED deletes
      <4>1. row \notin committed
        BY <3>3 DEF Seek
      <4>2. (committed \ deletes') \cup inserts' = new
        BY <1>2, <1>3, <1>6, <3>3 DEF Seek
      <4>3. QED
        BY <1>2, <1>3, <1>6, <1>done, <2>1, <2>3, <3>1, <3>3, <4>1, <4>2, Zenon
    <3>4. QED
      BY <2>3, <3>2, <3>3
  <2>4. QED
    BY <1>6, <2>2, <2>3 DEF Update
<1>7. CASE /\ ~rejected /\ commit_old = {} /\ tx_old = {}
           /\ UNCHANGED <<inserts, deletes>> /\ Returns(op, "err")
  BY <1>3, <1>7, <1>fail, Zenon
<1>8. QED
  BY <1>4, <1>5, <1>6, <1>7 DEF Update

----------------------------------------------------------------------------
(* Schema changes *)

(* A change that was pushed lengthens the trail. *)
LEMMA TrailPushed ==
  ASSUME TypeOK, Trail, NEW c \in Change, pending' = Append(pending, c),
         indexes' \subseteq IndexId, ChangeStep(c, indexes, indexes'),
         UNCHANGED <<st_index, committed>>
  PROVE  Trail'
<1>1. PICK h : IsTrail(h)
  BY DEF Trail
<1>n. PICK n : n = Len(pending)
  OBVIOUS
<1>g. PICK g : g = [k \in 0..n + 1 |-> IF k = n + 1 THEN indexes' ELSE h[k]]
  BY Zenon
<1>2. n \in Nat /\ Len(pending') = n + 1 /\ pending'[n + 1] = c
  BY <1>n DEF TypeOK
<1>3. \A k \in 1..n : pending'[k] = pending[k]
  BY <1>n DEF TypeOK
<1>4. g \in [0..Len(pending') -> SUBSET IndexId]
  BY <1>1, <1>2, <1>n, <1>g DEF IsTrail
<1>5. g[0] = st_index /\ g[n + 1] = indexes' /\ g[n] = indexes
  BY <1>1, <1>2, <1>n, <1>g DEF IsTrail
<1>6. \A d, I, J : ChangeStep(d, I, J) => ChangeStep(d, I, J)'
  BY DEF ChangeStep, MapOf
<1>7. ASSUME NEW k \in 1..n + 1
      PROVE  ChangeStep(pending[k], g[k - 1], g[k])'
  <2>1. CASE k = n + 1
    BY <1>2, <1>5, <1>6, <2>1
  <2>2. CASE k \in 1..n
    <3>1. ChangeStep(pending[k], h[k - 1], h[k])
      BY <1>1, <1>n, <2>2 DEF IsTrail
    <3>2. g[k] = h[k] /\ g[k - 1] = h[k - 1]
      BY <1>2, <1>g, <2>2
    <3>3. QED
      BY <1>3, <1>6, <2>2, <3>1, <3>2, Zenon
  <2>3. QED
    BY <1>2, <2>1, <2>2
<1>8. IsTrail(g)'
  BY <1>2, <1>4, <1>5, <1>7 DEF IsTrail
<1>9. QED
  BY <1>8 DEF Trail

(* Undoing the last change shortens it. *)
LEMMA TrailPopped ==
  ASSUME TypeOK, Trail, pending # <<>>, pending' = SubSeq(pending, 1, Len(pending) - 1),
         UNCHANGED <<st_index, committed>>,
         \A I : ChangeStep(LastChange, I, indexes) => indexes' = I
  PROVE  Trail'
<1>1. PICK h : IsTrail(h)
  BY DEF Trail
<1>n. PICK n : n = Len(pending) - 1
  OBVIOUS
<1>g. PICK g : g = [k \in 0..n |-> h[k]]
  BY Zenon
<1>2. n \in Nat /\ Len(pending) = n + 1 /\ Len(pending') = n
  BY <1>n DEF TypeOK
<1>3. \A k \in 1..n : pending'[k] = pending[k]
  BY <1>n, <1>2 DEF TypeOK
<1>4. g \in [0..n -> SUBSET IndexId] /\ g[0] = st_index
  BY <1>1, <1>2, <1>g DEF IsTrail
<1>5. g[n] = indexes'
  <2>1. ChangeStep(pending[n + 1], h[n], h[n + 1])
    BY <1>1, <1>2 DEF IsTrail
  <2>2. h[n + 1] = indexes
    BY <1>1, <1>2 DEF IsTrail
  <2>3. QED
    BY <1>2, <1>g, <2>1, <2>2 DEF LastChange
<1>6. \A d, I, J : ChangeStep(d, I, J) => ChangeStep(d, I, J)'
  BY DEF ChangeStep, MapOf
<1>7. ASSUME NEW k \in 1..n
      PROVE  ChangeStep(pending[k], g[k - 1], g[k])'
  <2>1. ChangeStep(pending[k], h[k - 1], h[k])
    BY <1>1, <1>2 DEF IsTrail
  <2>2. g[k] = h[k] /\ g[k - 1] = h[k - 1]
    BY <1>2, <1>g
  <2>3. QED
    BY <1>3, <1>6, <2>1, <2>2, Zenon
<1>8. IsTrail(g)'
  BY <1>2, <1>4, <1>5, <1>7 DEF IsTrail
<1>9. QED
  BY <1>8 DEF Trail

(* Without pending changes the table has the indexes st_index lists. *)
LEMMA TrailEmpty ==
  /\ pending = <<>> /\ indexes \subseteq IndexId /\ st_index = indexes => Trail
  /\ pending = <<>> /\ Trail => st_index = indexes
<1>1. ASSUME pending = <<>>, indexes \subseteq IndexId, st_index = indexes
      PROVE  Trail
  <2>1. IsTrail([k \in 0..0 |-> indexes])
    BY <1>1 DEF IsTrail
  <2>2. QED
    BY <2>1 DEF Trail
<1>2. ASSUME pending = <<>>, Trail
      PROVE  st_index = indexes
  BY <1>2 DEF Trail, IsTrail
<1>3. QED
  BY <1>1, <1>2

LEMMA TrailReset ==
  ASSUME pending' = <<>>, indexes' \subseteq IndexId, st_index' = indexes'
  PROVE  Trail'
<1>1. PICK h : h = [k \in 0..0 |-> indexes']
  BY Zenon
<1>2. IsTrail(h)'
  BY <1>1 DEF IsTrail
<1>3. QED
  BY <1>2 DEF Trail

LEMMA CreateIndexStep ==
  ASSUME Inv, NEW i \in IndexId, CreateIndex(i)
  PROVE  Inv' /\ Table!CreateIndex(i)
<1> DEFINE view == (committed \ deletes) \cup inserts
           op == <<"create_index", i>>
<1>1. /\ tx = "open" /\ i \notin indexes /\ tx_st_index = indexes
      /\ UNCHANGED <<committed, st_index, inserts, deletes, image>>
  BY DEF CreateIndex, Inv, Listed
<1>2. CASE Buildable(i)
  <2>1. /\ indexes' = indexes \cup {i} /\ pointer_map' = {} /\ tx' = tx
        /\ tx_st_index' = tx_st_index \cup {i} /\ out' = <<op, "ok">>
        /\ pending' = Append(pending, [kind |-> "added", index |-> i, map |-> pointer_map])
    BY <1>2 DEF CreateIndex, AddIndex, Pushed
  <2>2. CanBuild(committed, i) /\ CanBuild(view, i)
    BY <1>2 DEF Buildable, CanBuild, CanMerge, Seek
  <2>3. \A j \in indexes' : CanBuild(committed, j) /\ CanBuild(view, j)
    BY <1>1, <2>1, <2>2, Zenon DEF Inv, TxStateInvariant, CommittedUnique, Merge
  <2>4. [kind |-> "added", index |-> i, map |-> pointer_map] \in Change
    BY DEF Inv, TypeOK, Change
  <2>5. TypeOK'
    BY <1>1, <2>1, <2>4 DEF Inv, TypeOK
  <2>6. TxStateInvariant'
    BY <1>1, <2>1, <2>3 DEF Inv, TxStateInvariant, Merge, CanBuild
  <2>7. NeverPanics' /\ PointerMapIsCurrent' /\ Clean' /\ Listed'
    BY <1>1, <2>1 DEF Inv, NeverPanics, PointerMapIsCurrent, Clean, Listed
  <2>8. CommittedUnique'
    BY <1>1, <2>1, <2>3 DEF Inv, CommittedUnique, CanBuild
  <2>9. Trail'
    <3>1. ChangeStep([kind |-> "added", index |-> i, map |-> pointer_map], indexes, indexes')
      BY <1>1, <2>1 DEF ChangeStep, MapOf, Inv, PointerMapIsCurrent
    <3>2. QED
      BY <1>1, <2>1, <2>4, <2>5, <3>1, TrailPushed, Zenon DEF Inv, TypeOK
  <2>10. Table!Become(view, indexes \cup {i}, op, "ok")
    BY <1>1, <2>1, <2>3 DEF Table!Become, Table!IsUnique, CanBuild
  <2>11. QED
    BY <1>1, <2>5, <2>6, <2>7, <2>8, <2>9, <2>10 DEF Inv, Table!CreateIndex
<1>3. CASE ~Buildable(i)
  <2>1. /\ tx' = "failed" /\ UNCHANGED <<indexes, pointer_map, pending>>
        /\ tx_st_index' = tx_st_index \cup {i} /\ out' = <<op, "err">>
    BY <1>3 DEF CreateIndex
  <2>2. TypeOK'
    BY <1>1, <2>1 DEF Inv, TypeOK
  <2>3. TxStateInvariant' /\ NeverPanics' /\ PointerMapIsCurrent' /\ Clean' /\ Listed'
    BY <1>1, <2>1
       DEF Inv, TxStateInvariant, NeverPanics, PointerMapIsCurrent, Clean, Listed
  <2>4. CommittedUnique' /\ Trail'
    BY <1>1, <2>1, TrailKept DEF Inv, CommittedUnique, CanBuild
  <2>5. QED
    BY <1>1, <2>1, <2>2, <2>3, <2>4 DEF Inv, Table!CreateIndex, Table!Fail
<1>4. QED
  BY <1>2, <1>3

LEMMA DropIndexStep ==
  ASSUME Inv, NEW i \in IndexId, DropIndex(i)
  PROVE  Inv' /\ Table!DropIndex(i)
<1> DEFINE c == [kind |-> "removed", index |-> i, map |-> {}]
<1>1. /\ tx = "open" /\ i \in indexes /\ tx_st_index = indexes
      /\ UNCHANGED <<tx, committed, st_index, inserts, deletes, image>>
      /\ tx_st_index' = indexes \ {i} /\ indexes' = indexes \ {i}
      /\ pointer_map' = MapWithout(i, {}) /\ out' = <<<<"drop_index", i>>, "ok">>
      /\ pending' = Append(pending, c)
  BY DEF DropIndex, DeleteIndex, Pushed, Inv, Listed
<1>2. c \in Change
  BY DEF Change
<1>3. PointerMapIsCurrent'
  BY <1>1, Zenon DEF Inv, PointerMapIsCurrent, MapWithout
<1>4. TypeOK'
  BY <1>1, <1>2, <1>3 DEF Inv, TypeOK, PointerMapIsCurrent
<1>5. TxStateInvariant'
  BY <1>1 DEF Inv, TxStateInvariant, Merge, CanBuild
<1>6. NeverPanics' /\ Clean' /\ Listed' /\ CommittedUnique'
  BY <1>1 DEF Inv, NeverPanics, Clean, Listed, CommittedUnique, CanBuild
<1>7. Trail'
  <2>1. ChangeStep(c, indexes, indexes')
    BY <1>1 DEF ChangeStep
  <2>2. QED
    BY <1>1, <1>2, <2>1, TrailPushed, Zenon DEF Inv, TypeOK
<1>8. Table!DropIndex(i)
  BY <1>1 DEF Table!DropIndex, Table!Become, Table!IsUnique, Inv, TxStateInvariant, Merge, CanBuild
<1>9. QED
  BY <1>1, <1>3, <1>4, <1>5, <1>6, <1>7, <1>8 DEF Inv

----------------------------------------------------------------------------
(* Transactions *)

LEMMA BeginStep ==
  ASSUME Inv, BeginMutTx
  PROVE  Inv' /\ UNCHANGED Table!vars
<1>1. /\ tx = "none" /\ tx' = "open" /\ UNCHANGED <<statevars, image, out>>
      /\ inserts' = {} /\ deletes' = {} /\ tx_st_index' = st_index /\ pending' = <<>>
  BY DEF BeginMutTx
<1>2. inserts = {} /\ deletes = {} /\ pending = <<>> /\ st_index = indexes
  BY <1>1, TrailEmpty DEF Inv, Clean
<1>3. TypeOK'
  BY <1>1 DEF Inv, TypeOK, statevars
<1>4. NeverPanics' /\ PointerMapIsCurrent' /\ Clean' /\ Listed'
  BY <1>1, <1>2, Zenon DEF Inv, NeverPanics, PointerMapIsCurrent, Clean, Listed, statevars
<1>5. CommittedUnique' /\ TxStateInvariant'
  BY <1>1, <1>2 DEF Inv, CommittedUnique, TxStateInvariant, Merge, CanBuild, statevars
<1>6. Trail'
  BY <1>1, <1>2, TrailKept DEF Inv, statevars
<1>7. QED
  BY <1>1, <1>2, <1>3, <1>4, <1>5, <1>6 DEF Inv, Table!vars, statevars

(* merge and replay find what they expect, and come to the same rows. *)
LEMMA CommitStep ==
  ASSUME Inv, CommitTx
  PROVE  Inv' /\ Table!Commit
<1>1. /\ tx = "open" /\ tx_st_index = indexes
      /\ inserts' = {} /\ deletes' = {} /\ pending' = <<>> /\ out' = <<>>
      /\ UNCHANGED <<indexes, tx_st_index>>
  BY DEF CommitTx, Inv, Listed
<1>2. inserts \cap committed = {} /\ deletes \subseteq committed
  BY DEF Inv, TxStateInvariant
<1>3. image.rows = committed
  BY DEF Inv
<1>4. CanMergeTx
  BY <1>1, <1>2 DEF Inv, TxStateInvariant, CanMergeTx
<1>5. /\ ReplayRows(image.rows, inserts, deletes).ok
      /\ ReplayRows(image.rows, inserts, deletes).rows = Merge(committed)
  BY <1>2, <1>3, Zenon DEF ReplayRows, Merge
<1>6. /\ tx' = "none" /\ committed' = Merge(committed) /\ st_index' = indexes
      /\ pointer_map' = {Merge(map) : map \in pointer_map}
      /\ image' = [rows |-> Merge(committed), indexes |-> indexes]
  BY <1>1, <1>4, <1>5 DEF CommitTx
<1>7. PointerMapIsCurrent'
  BY <1>1, <1>6 DEF Inv, PointerMapIsCurrent
<1>8. TypeOK'
  <2>1. Merge(committed) \subseteq Row
    BY DEF Inv, TypeOK, Merge
  <2>2. pointer_map' \subseteq SUBSET Row
    BY <1>6, <1>7, <2>1 DEF PointerMapIsCurrent
  <2>3. QED
    BY <1>1, <1>6, <2>1, <2>2 DEF Inv, TypeOK
<1>9. NeverPanics' /\ Clean' /\ Listed'
  BY <1>1, <1>6 DEF NeverPanics, Clean, Listed
<1>10. CommittedUnique' /\ TxStateInvariant'
  BY <1>1, <1>6 DEF Inv, CommittedUnique, TxStateInvariant, Merge, CanBuild
<1>11. Trail'
  <2>1. st_index' = indexes' /\ indexes' \subseteq IndexId
    BY <1>1, <1>6 DEF Inv, TypeOK
  <2>2. QED
    BY <1>1, <2>1, TrailReset
<1>12. Table!Commit
  BY <1>1, <1>6 DEF Table!Commit, Merge
<1>13. QED
  BY <1>1, <1>6, <1>7, <1>8, <1>9, <1>10, <1>11, <1>12, Zenon DEF Inv

LEMMA RollbackStep ==
  ASSUME Inv, Rollback
  PROVE  Inv' /\ Table!Rollback
<1>1. /\ tx \in {"open", "failed"} /\ tx' = "rollback"
      /\ inserts' = {} /\ deletes' = {} /\ tx_st_index' = st_index /\ out' = <<>>
      /\ UNCHANGED <<committed, indexes, pointer_map, st_index, pending, image>>
  BY DEF Rollback, statevars
<1>2. TypeOK'
  BY <1>1 DEF Inv, TypeOK
<1>3. NeverPanics' /\ PointerMapIsCurrent' /\ Clean' /\ Listed'
  BY <1>1 DEF Inv, NeverPanics, PointerMapIsCurrent, Clean, Listed
<1>4. CommittedUnique' /\ TxStateInvariant'
  BY <1>1 DEF Inv, CommittedUnique, TxStateInvariant, CanBuild
<1>5. Trail'
  BY <1>1, TrailKept DEF Inv
<1>6. Table!Rollback
  BY <1>1, Zenon DEF Table!Rollback
<1>7. QED
  BY <1>1, <1>2, <1>3, <1>4, <1>5, <1>6 DEF Inv

(* The trail says what the indexes and the pointer map were before the last *)
(* change: undoing it restores both.                                        *)
LEMMA RollbackPendingStep ==
  ASSUME Inv, RollbackPendingSchemaChange
  PROVE  Inv' /\ UNCHANGED Table!vars
<1>1. /\ tx = "rollback" /\ pending # <<>>
      /\ pending' = SubSeq(pending, 1, Len(pending) - 1)
      /\ UNCHANGED <<tx, committed, st_index, inserts, deletes, tx_st_index, image, out>>
  BY DEF RollbackPendingSchemaChange
<1>2. PICK before : before \in SUBSET IndexId /\ ChangeStep(LastChange, before, indexes)
  <2>1. PICK h : IsTrail(h)
    BY DEF Inv, Trail
  <2>2. Len(pending) \in Nat \ {0}
    BY <1>1 DEF Inv, TypeOK
  <2>3. QED
    BY <2>1, <2>2 DEF IsTrail, LastChange
<1>3. \A I : ChangeStep(LastChange, I, indexes) => indexes' = I
  BY Zenon DEF RollbackPendingSchemaChange, AddIndex, DeleteIndex, ChangeStep
<1>4. indexes' = before
  BY <1>2, <1>3
<1>5. PointerMapIsCurrent'
  <2>1. CASE LastChange.kind = "added"
    <3>1. pointer_map' = MapWithout(LastChange.index, LastChange.map)
      BY <2>1 DEF RollbackPendingSchemaChange, DeleteIndex
    <3>2. before = indexes \ {LastChange.index} /\ indexes # {} /\ LastChange.map = MapOf(before)
      BY <1>2, <2>1 DEF ChangeStep
    <3>3. QED
      BY <1>1, <1>4, <3>1, <3>2 DEF Inv, PointerMapIsCurrent, MapWithout, MapOf
  <2>2. CASE LastChange.kind # "added"
    BY <1>1, <1>2, <1>4, <2>2
       DEF RollbackPendingSchemaChange, AddIndex, PointerMapIsCurrent, ChangeStep
  <2>3. QED
    BY <2>1, <2>2
<1>6. TypeOK'
  <2>1. pending' \in Seq(Change)
    BY <1>1 DEF Inv, TypeOK
  <2>2. pointer_map' \subseteq SUBSET Row
    BY <1>1, <1>5 DEF PointerMapIsCurrent, Inv, TypeOK
  <2>3. QED
    BY <1>1, <1>2, <1>4, <2>1, <2>2 DEF Inv, TypeOK
<1>7. NeverPanics' /\ Clean' /\ Listed'
  BY <1>1, Zenon DEF Inv, NeverPanics, Clean, Listed
<1>8. CommittedUnique' /\ TxStateInvariant'
  BY <1>1 DEF Inv, CommittedUnique, TxStateInvariant, CanBuild
<1>9. Trail'
  BY <1>1, <1>3, TrailPopped, Zenon DEF Inv
<1>10. QED
  BY <1>1, <1>5, <1>6, <1>7, <1>8, <1>9 DEF Inv, Table!vars

LEMMA RollbackDoneStep ==
  ASSUME Inv, RollbackDone
  PROVE  Inv' /\ UNCHANGED Table!vars
<1>1. /\ tx = "rollback" /\ tx' = "none" /\ pending = <<>>
      /\ UNCHANGED <<statevars, txvars, image, out>>
  BY DEF RollbackDone
<1>2. st_index = indexes
  BY <1>1, TrailEmpty DEF Inv
<1> USE DEF statevars, txvars
<1>3. TypeOK'
  BY <1>1 DEF Inv, TypeOK
<1>4. NeverPanics' /\ PointerMapIsCurrent' /\ Clean' /\ Listed'
  BY <1>1, Zenon DEF Inv, NeverPanics, PointerMapIsCurrent, Clean, Listed
<1>5. CommittedUnique' /\ TxStateInvariant' /\ Trail'
  BY <1>1, TrailKept DEF Inv, CommittedUnique, TxStateInvariant, CanBuild
<1>6. QED
  BY <1>1, <1>2, <1>3, <1>4, <1>5 DEF Inv, Table!vars

LEMMA RestartStep ==
  ASSUME Inv, Restart
  PROVE  Inv' /\ Table!Rollback
<1>1. image.rows = committed /\ image.indexes = st_index
  BY Zenon DEF Inv
<1>2. /\ inserts' = {} /\ deletes' = {} /\ pending' = <<>> /\ tx_st_index' = st_index
      /\ pointer_map' = IF st_index = {} THEN {committed} ELSE {}
      /\ committed' = committed /\ st_index' = st_index /\ indexes' = st_index
      /\ out' = <<>> /\ image' = image
  BY <1>1 DEF Restart
<1>3. tx' = "none"
  BY <1>1 DEF Restart, Inv, CommittedUnique
<1>4. TypeOK'
  BY <1>2, <1>3 DEF Inv, TypeOK
<1>5. NeverPanics' /\ PointerMapIsCurrent' /\ Clean' /\ Listed'
  BY <1>2, <1>3 DEF NeverPanics, PointerMapIsCurrent, Clean, Listed
<1>6. CommittedUnique' /\ TxStateInvariant'
  BY <1>2, <1>3 DEF Inv, CommittedUnique, TxStateInvariant, CanBuild
<1>7. Trail'
  BY <1>2, TrailReset DEF Inv, TypeOK
<1>8. Table!Rollback
  BY <1>2, <1>3 DEF Table!Rollback
<1>9. QED
  BY <1>2, <1>4, <1>5, <1>6, <1>7, <1>8 DEF Inv

----------------------------------------------------------------------------
(* The theorems *)

LEMMA InvInit == Init => Inv /\ Table!Init
<1> SUFFICES ASSUME Init PROVE Inv /\ Table!Init
  OBVIOUS
<1>1. Trail
  BY TrailEmpty, Zenon DEF Init
<1>2. Inv
  BY <1>1 DEF Init, Inv, TypeOK, TxStateInvariant, NeverPanics, PointerMapIsCurrent, Clean,
              Listed, CommittedUnique, CanBuild
<1>3. Table!Init
  BY DEF Init, Table!Init
<1>4. QED
  BY <1>2, <1>3

LEMMA InvNext == Inv /\ [Next]_vars => Inv' /\ [Table!Next]_(Table!vars)
<1> SUFFICES ASSUME Inv, [Next]_vars PROVE Inv' /\ [Table!Next]_(Table!vars)
  OBVIOUS
<1>1. ASSUME NEW row \in Row, Insert(row)
      PROVE  Inv' /\ [Table!Next]_(Table!vars)
  BY <1>1, InsertStep DEF Table!Next
<1>2. ASSUME NEW row \in Row, DeleteByRowValue(row)
      PROVE  Inv' /\ [Table!Next]_(Table!vars)
  BY <1>2, DeleteStep DEF Table!Next
<1>3. ASSUME NEW i \in IndexId, NEW row \in Row, Update(i, row)
      PROVE  Inv' /\ [Table!Next]_(Table!vars)
  BY <1>3, UpdateStep DEF Table!Next
<1>4. ASSUME NEW i \in IndexId, CreateIndex(i)
      PROVE  Inv' /\ [Table!Next]_(Table!vars)
  BY <1>4, CreateIndexStep DEF Table!Next
<1>5. ASSUME NEW i \in IndexId, DropIndex(i)
      PROVE  Inv' /\ [Table!Next]_(Table!vars)
  BY <1>5, DropIndexStep DEF Table!Next
<1>6. CASE CommitTx
  BY <1>6, CommitStep DEF Table!Next
<1>7. CASE Rollback
  BY <1>7, RollbackStep DEF Table!Next
<1>8. CASE Restart
  BY <1>8, RestartStep DEF Table!Next
<1>9. CASE BeginMutTx
  BY <1>9, BeginStep
<1>10. CASE RollbackPendingSchemaChange
  BY <1>10, RollbackPendingStep
<1>11. CASE RollbackDone
  BY <1>11, RollbackDoneStep
<1>12. CASE UNCHANGED vars
  <2> USE <1>12 DEF vars, statevars, txvars
  <2>1. TypeOK' /\ NeverPanics' /\ PointerMapIsCurrent' /\ Clean' /\ Listed'
    BY Zenon DEF Inv, TypeOK, NeverPanics, PointerMapIsCurrent, Clean, Listed
  <2>2. CommittedUnique' /\ TxStateInvariant' /\ Trail'
    BY TrailKept DEF Inv, CommittedUnique, TxStateInvariant, Merge, CanBuild
  <2>3. UNCHANGED Table!vars
    BY DEF Table!vars
  <2>4. QED
    BY <2>1, <2>2, <2>3, Zenon DEF Inv
<1>13. QED
  BY <1>1, <1>2, <1>3, <1>4, <1>5, <1>6, <1>7, <1>8, <1>9, <1>10, <1>11, <1>12 DEF Next

(* The invariant holds in every state. *)
THEOREM Invariance == Spec => []Inv
BY InvInit, InvNext, PTL DEF Spec

(* No assertion of merge, of replay or of the construction of the indexes   *)
(* at a restart can fail: what the operations on rows and indexes check is  *)
(* enough, for every table.                                                 *)
THEOREM Panicless == Spec => []NeverPanics
<1>1. Inv => NeverPanics
  BY DEF Inv
<1>2. QED
  BY <1>1, Invariance, PTL

(* The transaction's insert and delete tables stay disjoint from, and a     *)
(* part of, the committed rows, and merge keeps every unique constraint.    *)
THEOREM TxStateIsConsistent == Spec => []TxStateInvariant
<1>1. Inv => TxStateInvariant
  BY DEF Inv
<1>2. QED
  BY <1>1, Invariance, PTL

(* The pointer map lists the committed rows exactly when there is no index, *)
(* also while a rollback undoes schema changes one by one.                  *)
THEOREM PointerMap == Spec => []PointerMapIsCurrent
<1>1. Inv => PointerMapIsCurrent
  BY DEF Inv
<1>2. QED
  BY <1>1, Invariance, PTL

(* Between transactions replaying the commitlog yields the committed state, *)
(* its indexes and st_index.                                                *)
THEOREM Replay == Spec => []ReplayReproduces
<1>1. Inv => ReplayReproduces
  BY TrailEmpty DEF Inv, ReplayReproduces, Clean
<1>2. QED
  BY <1>1, Invariance, PTL

(* A mutable transaction on the committed, inserted and deleted rows        *)
(* implements one on a plain set of rows: operations have the results and   *)
(* effects they would have there, and all or none of them remain.           *)
THEOREM Refinement == Spec => ImplementsTable
BY InvInit, InvNext, Invariance, PTL DEF Spec, ImplementsTable, Table!Spec
============================================================================
