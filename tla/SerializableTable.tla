-------------------------- MODULE SerializableTable --------------------------
(***************************************************************************)
(* What a mutable transaction promises about a table: a set of rows with   *)
(* unique indexes, changed by one transaction at a time, whose operations  *)
(* see each other's effects, and all or none of whose effects remain.      *)
(***************************************************************************)
CONSTANTS Row, IndexId, Project(_, _)

VARIABLES
  rows,      \* the rows the transaction sees
  indexes,   \* the unique indexes it sees
  saved,     \* the rows and indexes to return to
  out        \* the last operation and its result

vars == <<rows, indexes, saved, out>>

Holding(R, i, row) == {q \in R : Project(i, q) = Project(i, row)}

IsUnique(R, I) == \A i \in I, q, r \in R : Project(i, q) = Project(i, r) => q = r

Become(R, I, op, res) ==
  /\ IsUnique(R, I)
  /\ rows' = R /\ indexes' = I /\ out' = <<op, res>>
  /\ UNCHANGED saved

Fail(op) == out' = <<op, "err">> /\ UNCHANGED <<rows, indexes, saved>>

Insert(row) ==
  \/ Become(rows \cup {row}, indexes, <<"insert", row>>, "ok")
  \/ ~IsUnique(rows \cup {row}, indexes) /\ Fail(<<"insert", row>>)

(* The row that holds the key in index i makes room for the new one. *)
Update(i, row) ==
  LET old == Holding(rows, i, row)
      update == <<"update", i, row>>
      new == (rows \ old) \cup {row}
  IN \/ i \in indexes /\ old # {} /\ Become(new, indexes, update, "ok")
     \/ (i \notin indexes \/ old = {} \/ ~IsUnique(new, indexes)) /\ Fail(update)

Delete(row) ==
  Become(rows \ {row}, indexes, <<"delete", row>>, IF row \in rows THEN "ok" ELSE "absent")

(* An index may also be refused. *)
CreateIndex(i) ==
  \/ Become(rows, indexes \cup {i}, <<"create_index", i>>, "ok")
  \/ Fail(<<"create_index", i>>)

DropIndex(i) == Become(rows, indexes \ {i}, <<"drop_index", i>>, "ok")

Commit ==
  /\ saved' = [rows |-> rows, indexes |-> indexes] /\ out' = <<>>
  /\ UNCHANGED <<rows, indexes>>

Rollback ==
  /\ rows' = saved.rows /\ indexes' = saved.indexes /\ out' = <<>>
  /\ UNCHANGED saved

Init ==
  /\ rows = {} /\ indexes \in SUBSET IndexId /\ out = <<>>
  /\ saved = [rows |-> rows, indexes |-> indexes]

Next ==
  \/ \E row \in Row : Insert(row) \/ Delete(row)
  \/ \E i \in IndexId, row \in Row : Update(i, row)
  \/ \E i \in IndexId : CreateIndex(i) \/ DropIndex(i)
  \/ Commit \/ Rollback

Spec == Init /\ [][Next]_vars
=============================================================================
