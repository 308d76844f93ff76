---------------------------- MODULE MCCommitlog ----------------------------
(* Commitlog with the plans of the MCCommitlog*.cfg configurations. *)
EXTENDS Commitlog

NoFault ==
  [max_records_in_commit |-> 1, appends |-> 4, epoch |-> 0, left |-> 0, io |-> {}, crashes |-> {},
   tears |-> {}, residue |-> {}, created |-> {}, stops |-> TRUE]

(* Any one fault but a failing creation. *)
OneOfAny ==
  [NoFault EXCEPT !.left = 1, !.io = {"write", "fsync"},
                  !.crashes = {"process", "midcreate", "power"}, !.tears = {"long", "full"},
                  !.residue = {"long", "held"}]

(* Two creations that fail, and leave no file, or one without its header. *)
Uncreated ==
  [NoFault EXCEPT !.left = 2, !.io = {"create"}, !.created = {"absent", "none", "partial"},
                  !.stops = FALSE]

(* A write error, and maybe a failing creation after it, that the caller    *)
(* ignores; the BufWriter has what the file lacks.                          *)
Retried ==
  [NoFault EXCEPT !.left = 1, !.io = {"write", "create"}, !.residue = {"held"},
                  !.created = {"absent"}, !.stops = FALSE]

(* Two faults, with batches and epochs. *)
TwoFaults ==
  [NoFault EXCEPT !.max_records_in_commit = 2, !.appends = 3, !.epoch = 1, !.left = 2,
                  !.io = {"write"}, !.crashes = {"process", "midcreate"}, !.tears = {"long", "full"}, !.residue = {"long"}]

AllPlans == {OneOfAny, Uncreated, Retried, TwoFaults}

(* A process crash that leaves less than a header of the commit. *)
ShortTear == {[NoFault EXCEPT !.appends = 3, !.left = 1, !.crashes = {"process"}, !.tears = {"short"}]}

(* A write error, and later a power loss. *)
Unsynced == {[NoFault EXCEPT !.appends = 3, !.left = 2, !.io = {"write"}, !.crashes = {"power"},
                             !.residue = {"long"}]}
=============================================================================
