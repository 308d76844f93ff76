--------------------------- MODULE DurableHistory ---------------------------
(***************************************************************************)
(* What crates/durability promises of a Durability and a History: the      *)
(* durable history is the sequence of transactions in the order append_tx  *)
(* was called; a reported durable offset implies that all smaller offsets  *)
(* are durable; what is not durable may be lost, from the end.             *)
(***************************************************************************)
EXTENDS Integers, Sequences

CONSTANT Tx

VARIABLES
  hist,     \* the transactions submitted, by offset (the first has offset 0)
  durable   \* durable_tx_offset, -1 while nothing is known to be durable

hvars == <<hist, durable>>

Init == hist = <<>> /\ durable = -1

Submit ==
  /\ \E tx \in Tx : hist' = Append(hist, tx)
  /\ UNCHANGED durable

Persist ==
  /\ durable' \in Int /\ durable <= durable' /\ durable' < Len(hist)
  /\ UNCHANGED hist

Lose ==
  /\ \E n \in 0..Len(hist) : durable < n /\ hist' = SubSeq(hist, 1, n)
  /\ UNCHANGED durable

Next == Submit \/ Persist \/ Lose

Spec == Init /\ [][Next]_hvars
=============================================================================
