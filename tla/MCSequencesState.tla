------------------------- MODULE MCSequencesState -------------------------
(* SequencesState with definitions that count up by one, in larger steps,   *)
(* and down, with ranges that a few allocations exhaust; two ranges are     *)
(* smaller than an allocation, and one of these is descending from below 0, *)
(* where needs_allocation lets it hand out values.                          *)
EXTENDS SequencesState

Definition(start, min, max, increment) ==
    [start |-> start, min |-> min, max |-> max, increment |-> increment]

ByOne == {Definition(1, 1, 100, 1)}
Mixed == {Definition(1, 1, 4, 1), Definition(-1, -1, 2, 2), Definition(1, 1, 2, 1),
          Definition(1, 1, 4, -1), Definition(-1, -2, -1, -1)}
=============================================================================
