---------------------------- MODULE MCDatastore ----------------------------
(* A table with two columns and a unique index on each of them. *)
EXTENDS Datastore

CONSTANTS MaxKey, MaxValue

MCRow == [key : 1..MaxKey, value : 1..MaxValue]

MCIndexId == {"key", "value"}

MCProject(i, row) == row[i]
=============================================================================
