--------------------------- MODULE SequencesState ---------------------------
(***************************************************************************)
(* The sequences behind auto-increment columns: the in-memory              *)
(* SequencesState of the locking datastore, the rows of st_sequence that   *)
(* survive a restart, and the mutable transactions that move both.         *)
(*                                                                         *)
(* A sequence hands out values below its allocation.  The allocation is    *)
(* written to st_sequence by the transaction that extends it; the value    *)
(* lives in memory alone.  There is one write transaction at a time.       *)
(***************************************************************************)
EXTENDS Integers, Sequences, SequencesExt

CONSTANTS Schemas,        \* the sequence definitions modules declare
          AllocationStep, \* SEQUENCE_ALLOCATION_STEP
          MaxSequences    \* bound on the sequences ever created

\* The parameters of a sequence are those a module definition can have.
ASSUME SchemasAssumption ==
    \A s \in Schemas : /\ DOMAIN s = {"start", "min", "max", "increment"}
                       /\ {s.start, s.min, s.max, s.increment} \subseteq Int
                       /\ s.increment # 0
                       /\ s.min <= s.start /\ s.start <= s.max

ASSUME StepAssumption == AllocationStep \in Nat \ {0}

ASSUME MaxSequencesAssumption == MaxSequences \in Nat

VARIABLES sequences,      \* SequencesState: id -> [schema, allocated, value]
          st_sequence,    \* committed rows: id -> [schema, allocated]
          tx_st_sequence, \* the rows as the open transaction sees them
          open,           \* a mutable transaction holds the locks
          pending,        \* pending_schema_changes of the open transaction
          next_id,        \* the next sequence id
          generated,      \* <<id, value>> handed out in the open transaction
          committed,      \* <<id, value>> in rows of committed transactions,
                          \* of the sequences that exist
          unsafe          \* ids that wrapped, or whose allocation was undone

vars == <<sequences, st_sequence, tx_st_sequence, open, pending, next_id,
          generated, committed, unsafe>>

Ids == 1 .. MaxSequences

\* A function without one of its arguments, and with one overwritten.
Without(f, id) == [i \in DOMAIN f \ {id} |-> f[i]]
With(f, id, x) == [i \in DOMAIN f \cup {id} |-> IF i = id THEN x ELSE f[i]]

-----------------------------------------------------------------------------
(* The arithmetic of a sequence. *)

NextNoWrap(s, value) == value + s.increment

\* Sequence::next_in_sequence.  Rust's % agrees with TLA+'s here, as the
\* dividends are natural numbers.
NextInSequence(s, value) ==
    LET next == value + s.increment
        size == s.max - s.min + 1
    IN  CASE s.increment > 0 /\ next > s.max -> s.min + ((next - s.max - 1) % size)
          [] s.increment < 0 /\ next < s.min -> s.max - ((s.min - next - 1) % size)
          [] OTHER                           -> next

\* The step from value to next passes the end of the range.
Wraps(s, value, next, n) == next # value + n * s.increment

\* Sequence::nth_value
NthValue(s, value, n) ==
    LET nth[k \in 0 .. n] == IF k = 0 THEN value ELSE NextInSequence(s, nth[k - 1])
    IN  nth[n]

\* Sequence::needs_allocation
NeedsAllocation(seq) == seq.value >= seq.allocated

-----------------------------------------------------------------------------
Init ==
    /\ sequences = <<>> /\ st_sequence = <<>> /\ tx_st_sequence = <<>>
    /\ open = FALSE
    /\ pending = <<>>
    /\ next_id = 1
    /\ generated = {} /\ committed = {} /\ unsafe = {}

BeginMutTx ==
    /\ ~open
    /\ open' = TRUE
    /\ tx_st_sequence' = st_sequence
    /\ UNCHANGED <<sequences, st_sequence, pending, next_id, generated,
                   committed, unsafe>>

\* create_sequence: the row, the in-memory sequence, the schema change.
CreateSequence(s) ==
    /\ open
    /\ next_id \in Ids
    /\ tx_st_sequence' = With(tx_st_sequence, next_id, [schema |-> s, allocated |-> 0])
    /\ sequences' = With(sequences, next_id,
                         [schema |-> s, allocated |-> 0, value |-> s.start])
    /\ pending' = Append(pending, [change |-> "SequenceAdded", id |-> next_id, seq |-> {}])
    /\ next_id' = next_id + 1
    /\ UNCHANGED <<st_sequence, open, generated, committed, unsafe>>

\* drop_sequence: the removed in-memory sequence is kept for a rollback.
DropSequence(id) ==
    /\ open
    /\ id \in DOMAIN tx_st_sequence
    /\ tx_st_sequence' = Without(tx_st_sequence, id)
    /\ sequences' = Without(sequences, id)
    /\ pending' = Append(pending, [change |-> "SequenceRemoved", id |-> id,
                                   seq |-> {sequences[id]}])
    /\ UNCHANGED <<st_sequence, open, next_id, generated, committed, unsafe>>

\* gen_next_value on a sequence that needs no allocation.
Generate(id, seq) ==
    LET next == NextInSequence(seq.schema, seq.value)
    IN  /\ sequences' = With(sequences, id, [seq EXCEPT !.value = next])
        /\ generated' = generated \cup {<<id, seq.value>>}
        /\ unsafe' = IF Wraps(seq.schema, seq.value, next, 1) THEN unsafe \cup {id} ELSE unsafe

\* get_next_sequence_value while the allocation lasts.
GetNextAllocated(id) ==
    /\ open
    /\ id \in DOMAIN sequences
    /\ ~NeedsAllocation(sequences[id])
    /\ Generate(id, sequences[id])
    /\ UNCHANGED <<st_sequence, tx_st_sequence, open, pending, next_id, committed>>

\* As GetNextAllocating, without the update of the row.
AllocateInMemory(id) ==
    LET old == sequences[id]
        seq == [old EXCEPT !.allocated = NthValue(old.schema, old.value, AllocationStep)]
    IN  /\ open /\ id \in DOMAIN sequences
        /\ NeedsAllocation(old) /\ ~NeedsAllocation(seq)
        /\ Generate(id, seq)
        /\ UNCHANGED <<st_sequence, tx_st_sequence, open, pending, next_id, committed>>

\* get_next_sequence_value with a new allocation.  When the new allocation
\* wrapped below the value, the call fails with UnableToAllocate, and what it
\* did to the sequence and to the row stays.
GetNextAllocating(id) ==
    /\ open
    /\ id \in DOMAIN sequences
    /\ NeedsAllocation(sequences[id])
    /\ LET old == sequences[id]
           seq == [old EXCEPT !.allocated = NthValue(old.schema, old.value, AllocationStep)]
       IN  /\ tx_st_sequence' = [tx_st_sequence EXCEPT ![id].allocated = seq.allocated]
           /\ \/ /\ ~NeedsAllocation(seq)
                 /\ Generate(id, seq)
              \/ /\ NeedsAllocation(seq)
                 /\ sequences' = With(sequences, id, seq)
                 /\ unsafe' = IF Wraps(old.schema, old.value, seq.allocated, AllocationStep)
                              THEN unsafe \cup {id} ELSE unsafe
                 /\ UNCHANGED generated
    /\ UNCHANGED <<st_sequence, open, pending, next_id, committed>>

CommitTx ==
    /\ open
    /\ open' = FALSE
    /\ st_sequence' = tx_st_sequence
    /\ tx_st_sequence' = <<>>
    /\ committed' = {g \in committed \cup generated : g[1] \in DOMAIN tx_st_sequence}
    /\ generated' = {}
    /\ pending' = <<>>
    /\ UNCHANGED <<sequences, next_id, unsafe>>

\* rollback_pending_schema_change for the two changes of a sequence.
UndoChange(seqs, c) ==
    IF c.change = "SequenceAdded" THEN Without(seqs, c.id)
    ELSE With(seqs, c.id, CHOOSE seq \in c.seq : TRUE)

\* The pending changes undone oldest first.
UndoForward(seqs, changes) == FoldLeft(UndoChange, seqs, changes)

\* The pending changes are undone newest first.
UndoAll(seqs, changes) == FoldLeft(UndoChange, seqs, Reverse(changes))

\* CommittedState::rollback.  The rows of the transaction are dropped; values
\* and allocations of the in-memory sequences are not touched.
Rollback ==
    /\ open
    /\ open' = FALSE
    /\ sequences' = UndoAll(sequences, pending)
    /\ tx_st_sequence' = <<>>
    /\ pending' = <<>>
    /\ generated' = {}
    /\ unsafe' = unsafe \cup {id \in DOMAIN sequences' \cap DOMAIN st_sequence :
                                 sequences'[id].allocated # st_sequence[id].allocated}
    /\ UNCHANGED <<st_sequence, next_id, committed>>

\* One sequence of build_sequence_state.
Recovered(row) ==
    [schema |-> row.schema, allocated |-> row.allocated,
     value |-> IF row.schema.start < row.allocated + 1
               THEN row.allocated + 1 ELSE row.schema.start]

\* The process ends at any point, and the datastore is rebuilt from the
\* committed rows.
Restart ==
    /\ open' = FALSE
    /\ sequences' = [id \in DOMAIN st_sequence |-> Recovered(st_sequence[id])]
    /\ tx_st_sequence' = <<>>
    /\ pending' = <<>>
    /\ generated' = {}
    /\ UNCHANGED <<st_sequence, next_id, committed, unsafe>>

Next ==
    \/ BeginMutTx
    \/ \E s \in Schemas : CreateSequence(s)
    \/ \E id \in Ids : DropSequence(id)
    \/ \E id \in Ids : GetNextAllocated(id)
    \/ \E id \in Ids : GetNextAllocating(id)
    \/ CommitTx
    \/ Rollback
    \/ Restart

Spec == Init /\ [][Next]_vars

-----------------------------------------------------------------------------
Rows == {r \in [schema : Schemas, allocated : Int] :
            r.allocated = 0 \/ (r.schema.min <= r.allocated /\ r.allocated <= r.schema.max)}

\* Types of the state: an allocation is initial or within the range of its
\* sequence, and so is a value unless a restart placed it behind an allocation.
TypeOK ==
    /\ open \in BOOLEAN
    /\ next_id \in 1 .. MaxSequences + 1
    /\ \A f \in {sequences, st_sequence, tx_st_sequence} : DOMAIN f \subseteq 1 .. next_id - 1
    /\ \A id \in DOMAIN st_sequence : st_sequence[id] \in Rows
    /\ \A id \in DOMAIN tx_st_sequence : tx_st_sequence[id] \in Rows
    /\ \A id \in DOMAIN sequences :
          LET seq == sequences[id]
          IN  /\ [schema |-> seq.schema, allocated |-> seq.allocated] \in Rows
              /\ seq.schema.min <= seq.value
              /\ seq.value <= seq.schema.max + 1 \/ seq.value = 1
    /\ unsafe \subseteq Ids

\* The in-memory sequences are the sequences that have a row in st_sequence,
\* as the open transaction sees it, after any mixture of creations, drops,
\* rollbacks and restarts: get_next_sequence_value, which unwraps the row, and
\* drop_sequence, which expects the sequence, do not panic.
SequencesMatchRows ==
    LET rows == IF open THEN tx_st_sequence ELSE st_sequence
    IN  /\ DOMAIN sequences = DOMAIN rows
        /\ \A id \in DOMAIN rows : sequences[id].schema = rows[id].schema


\* While no allocation is undone and no sequence wraps, a value that a
\* committed transaction used is never handed out again, whatever commits and
\* restarts lie between: this is what needs_allocation is for.
ValuesUniqueWhenAllocated == \A g \in generated \cap committed : g[1] \in unsafe

\* No value that a committed transaction used is handed out again.  The
\* comment of needs_allocation names this as the reason for allocations:
\* without one there is "the risk of using the same value twice in two separate
\* transactions".
ValuesUnique == generated \cap committed = {}
=============================================================================
