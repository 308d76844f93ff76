----------------------------- MODULE Commitlog -----------------------------
(***************************************************************************)
(* The write-ahead log of crates/commitlog: a directory of append-only     *)
(* segment files, written by one process through commitlog::Generic and    *)
(* its segment::Writer, read back by commitlog::Commits.                   *)
(*                                                                         *)
(* A file is the sequence of commits that decode from its start, followed  *)
(* by bytes that do not (its tail):                                        *)
(*    "clean"  nothing follows the last commit                             *)
(*    "short"  fewer bytes than a commit header follow: decode_v1 takes    *)
(*             this for the end of the file                                *)
(*    "long"   a header or more follows that does not decode: an error     *)
(* The file system keeps what was fsynced; `synced' counts the commits of  *)
(* a file which are.  A process crash keeps the page cache, a power loss   *)
(* does not.  The offset index only accelerates seeks and is left out.     *)
(***************************************************************************)
EXTENDS Integers, Sequences, FiniteSets, SequencesExt

CONSTANTS
  MaxSegmentSize,      \* Options::max_segment_size, in the units of CommitLen
  MaxAppends,          \* bound: how many records the caller appends
  Plans                \* bound: which faults happen together, and how many

(* A plan:                                                                  *)
(*   max_records_in_commit, appends, epoch   the option, how many records   *)
(*             are appended, and the largest epoch that is set              *)
(*   left      how many I/O errors and crashes there are                    *)
(*   io        the calls that fail; one error can fail a write and, right   *)
(*             after it, the creation of the next segment                   *)
(*   crashes   the crashes that happen                                      *)
(*   tears     what a crash leaves of a commit                              *)
(*   residue   what a failed write leaves of it: a fragment, or a fragment  *)
(*             of which the BufWriter holds the rest                        *)
(*   created   the file that a failed creation leaves: none, or how much of *)
(*             its header                                                   *)
(*   stops     the caller stops writing when it is told AlreadyExists       *)
Plan ==
  [max_records_in_commit : Nat \ {0}, appends : 0..MaxAppends, epoch : Nat, left : Nat,
   io : SUBSET {"write", "create", "fsync"}, crashes : SUBSET {"process", "midcreate", "power"},
   tears : SUBSET {"short", "long", "full"}, residue : SUBSET {"short", "long", "held"},
   created : SUBSET {"absent", "none", "partial", "full"}, stops : BOOLEAN]

ASSUME CommitlogAssumption ==
  /\ MaxSegmentSize \in Nat \ {0}
  /\ MaxAppends \in Nat
  /\ Plans \subseteq Plan

VARIABLES
  files,     \* the directory: segment offset -> segment file
  status,    \* "down", "open", "poisoned" (a panic under the lock), "unwritable"
             \* (AlreadyExists, and the caller stops), "failed" (open returned Err)
  w,         \* Generic and its head Writer, while the log is open
  appends,   \* how many records were appended: record i is the number i
  faults,    \* the plan, with the faults that are left
  acked,     \* ghost: the records in the log by the successful commits, by offset
  promised   \* ghost: Commitlog::sync has returned this offset (plus one)

vars == <<files, status, w, appends, faults, acked, promised>>

Record == 1..MaxAppends
CommitType == [min: Nat, txs: Seq(Record), epoch: Nat]
Segment == [hdr: {"none", "partial", "full"}, commits: Seq(CommitType),
            synced: Nat, tail: {"clean", "short", "long"}]
Writer == [head: Nat, inner: Seq(CommitType), buf: Seq(Record), next: Nat,
           epoch: Nat, len: Nat, panicked: BOOLEAN]

----------------------------------------------------------------------------
(* Segment files *)

NewSegment == [hdr |-> "full", commits |-> <<>>, synced |-> 0, tail |-> "clean"]

PutSegment(fs, off, seg) ==
  [o \in DOMAIN fs \cup {off} |-> IF o = off THEN seg ELSE fs[o]]

(* The commit the Writer encodes from its buffer.  `encoded_len' counts a   *)
(* fixed part for the header and the checksum, also when there is nothing   *)
(* to commit.                                                               *)
Buffered(v) == [min |-> v.next, txs |-> v.buf, epoch |-> v.epoch]

CommitLen(txs) == 1 + Len(txs)

CommitEnd(c) == c.min + Len(c.txs)

SegmentLen(seg) ==
  FoldLeft(LAMBDA n, c : n + CommitLen(c.txs), 0, seg.commits)

SegmentEnd(off, seg) ==
  IF seg.commits = <<>> THEN off ELSE CommitEnd(Last(seg.commits))

(* The BufWriter writes what it still holds, then the commits cs.  Files    *)
(* are opened in append mode: bytes written behind a torn commit are not    *)
(* reachable, and turn a short tail into a long one.                        *)
WriteCommits(seg, inner, cs) ==
  CASE inner # <<>> -> [seg EXCEPT !.commits = @ \o inner \o cs, !.tail = "clean"]
    [] inner = <<>> /\ seg.tail = "clean" -> [seg EXCEPT !.commits = @ \o cs]
    [] OTHER -> [seg EXCEPT !.tail = "long"]

(* A write that does not return: nothing, a part, or all of it is there. *)
TornWrites(seg, c, kinds) ==
  {seg} \cup {WriteCommits(seg, <<>>, <<c>>) : k \in kinds \cap {"full"}}
    \cup {[seg EXCEPT !.tail = IF @ = "clean" THEN k ELSE "long"] : k \in kinds \ {"full"}}

Fsync(fs, off) == [fs EXCEPT ![off].synced = Len(fs[off].commits)]

----------------------------------------------------------------------------
(* Outcomes of the calls made under the lock: the files, the writer, and    *)
(* the result: "ok", "err" (retry), "exists" (AlreadyExists), "panic".      *)

Outcome(fs, v, res) == [fs |-> fs, w |-> v, res |-> res]

OneLess == [faults EXCEPT !.left = @ - 1]

Failing(fault) == faults.left > 0 /\ fault \in faults.io

CanCreate(fs, off) == off \in DOMAIN fs => fs[off].hdr = "none"

AbandonedSegment(fs, off, h) ==
  IF h = "absent" THEN fs ELSE PutSegment(fs, off, [NewSegment EXCEPT !.hdr = h])

(* The files when a Writer is dropped: its BufWriter flushes what it holds, *)
(* and ignores an error.                                                    *)
DropWriter(fs, v) ==
  {fs} \cup IF v.inner = <<>> THEN {}
            ELSE {[fs EXCEPT ![v.head] = WriteCommits(@, v.inner, <<>>)]}

(* When the segment cannot be created, the head stays. *)
StartNewSegment(fs, v) ==
  IF ~CanCreate(fs, v.next)
  THEN {Outcome(fs, v, "exists")}
  ELSE {Outcome(PutSegment(g, v.next, NewSegment),
                [v EXCEPT !.head = v.next, !.inner = <<>>, !.len = 0], "ok") : g \in DropWriter(fs, v)}
       \cup IF Failing("create")
            THEN {Outcome(AbandonedSegment(fs, v.next, h), v, "err") : h \in faults.created}
            ELSE {}

(* Writer::commit fails: the file has none or a part of what was written,   *)
(* and the BufWriter holds the rest unless the commit did not fit into it.  *)
FailedWrites(fs, v) ==
  LET c == Buffered(v)
      put(seg) == [fs EXCEPT ![v.head] = seg]
      full == WriteCommits(fs[v.head], v.inner, <<>>)
  IN {Outcome(put(seg), [v EXCEPT !.inner = <<>>], "err") :
        seg \in TornWrites(full, c, faults.residue \ {"held"}) \ {full}}
     \cup IF "held" \in faults.residue /\ (fs[v.head].tail = "clean" \/ v.inner # <<>>)
          THEN {Outcome(put(seg), [v EXCEPT !.inner = Append(@, c)], "err") :
                  seg \in {fs[v.head], [fs[v.head] EXCEPT !.tail = "long"]}}
          ELSE {}

(* Writer::commit and what Generic::commit does when it fails: the buffer   *)
(* moves to a new segment.                                                  *)
WriterCommit(fs, v) ==
  IF v.buf = <<>>
  THEN {Outcome(fs, [v EXCEPT !.panicked = FALSE], "ok")}
  ELSE {Outcome([fs EXCEPT ![v.head] = WriteCommits(@, v.inner, <<Buffered(v)>>)],
                [v EXCEPT !.inner = <<>>, !.buf = <<>>, !.next = @ + Len(v.buf),
                          !.len = @ + CommitLen(v.buf), !.panicked = FALSE], "ok")}
       \cup IF Failing("write")
            THEN {[o EXCEPT !.res = IF @ = "ok" THEN "err" ELSE @, !.w.panicked = FALSE] :
                    o \in UNION {StartNewSegment(f.fs, f.w) : f \in FailedWrites(fs, v)}}
            ELSE {}

(* What is left of a file whose unsynced part is lost. *)
Survivals(seg, inFlight) ==
  LET cut(k) == [seg EXCEPT !.commits = SubSeq(@, 1, k)]
      torn(k) == IF k < Len(seg.commits) \/ inFlight THEN {"clean"} \cup (faults.tears \ {"full"})
                                                     ELSE {"clean", seg.tail}
  IN UNION {{[cut(k) EXCEPT !.synced = k, !.tail = t] : t \in torn(k)} :
              k \in seg.synced..Len(seg.commits)}

SyncFailure(fs, v) ==
  IF Failing("fsync")
  THEN {Outcome([fs EXCEPT ![v.head] = seg], [v EXCEPT !.panicked = TRUE], "panic") :
          seg \in Survivals(fs[v.head], FALSE)}
  ELSE {}

Rotate(fs, v) == StartNewSegment(Fsync(fs, v.head), v)

(* Generic::commit.  A rotation syncs the old head first, and that clears   *)
(* `panicked' also when the new segment cannot be created.                  *)
CommitOutcomes(fs, v) ==
  IF v.len > 0 /\ v.len + CommitLen(v.buf) > MaxSegmentSize
  THEN SyncFailure(fs, v)
       \cup UNION {IF o.res = "ok" THEN WriterCommit(o.fs, o.w)
                                   ELSE {[o EXCEPT !.w.panicked = FALSE]} :
                     o \in Rotate(fs, v)}
  ELSE WriterCommit(fs, v)

----------------------------------------------------------------------------
(* Reading: Commits::next over the segments at offsets `offs', from the     *)
(* transaction offset `from' (which falls inside a commit or at its start). *)

SegmentsFromNext(offs, from) ==
  SetToSortSeq({o \in offs : o >= from}, <)

SegmentsFrom(offs, from) ==
  LET below == {o \in offs : o <= from}
  IN SetToSortSeq(IF below = {} THEN offs ELSE {o \in offs : o >= Max(below)}, <)

Decode(seg) ==
  IF seg.hdr # "full"
  THEN <<[kind |-> "noheader"]>>
  ELSE [i \in 1..Len(seg.commits) |-> [kind |-> "commit", commit |-> seg.commits[i]]]
       \o IF seg.tail = "long" THEN <<[kind |-> "garbage"]>> ELSE <<>>

Yield(t, res, c) == [t EXCEPT !.items = Append(@, [res |-> res, commit |-> c]), !.pending = FALSE]

NoCommit == [min |-> 0, txs |-> <<>>, epoch |-> 0]

IsDuplicate(t, c) == t.last = c

(* One iteration of next_commit.  A decode error ends the segment and is    *)
(* kept until a later commit shows that the log goes on; equal offsets with *)
(* equal checksums are duplicates.                                          *)
NextCommit(t, from, d) ==
  CASE d.kind = "noheader" -> [Yield(t, "header", NoCommit) EXCEPT !.pending = t.pending]
    [] d.kind = "garbage"  -> [t EXCEPT !.pending = TRUE]
    [] d.kind = "commit"   ->
         LET c == d.commit
             popped == [t EXCEPT !.pending = FALSE]
         IN CASE t.last = NoCommit /\ from >= CommitEnd(c) -> popped
              [] t.last # NoCommit /\ t.last.min = c.min ->
                   IF IsDuplicate(t, c) THEN popped ELSE Yield(t, "forked", c)
              [] t.last # NoCommit /\ t.last.min # c.min /\ CommitEnd(t.last) # c.min ->
                   Yield(t, "outoforder", c)
              [] OTHER -> [Yield(t, "ok", c) EXCEPT !.last = c]

Commits(fs, offs, from) ==
  LET order == SegmentsFrom(offs, from)
      decoded == FlattenSeq([i \in 1..Len(order) |-> Decode(fs[order[i]])])
      t == FoldLeft(LAMBDA acc, d : NextCommit(acc, from, d),
                    [items |-> <<>>, last |-> NoCommit, pending |-> FALSE], decoded)
  IN t.items \o IF t.pending THEN <<[res |-> "baddata", commit |-> NoCommit]>> ELSE <<>>

(* fold_transactions_internal: an error is ignored when it is the last item *)
FoldTransactions(fs, offs, from) ==
  LET items == Commits(fs, offs, from)
      errs == {i \in 1..Len(items) : items[i].res # "ok"}
      n == IF errs = {} THEN Len(items) ELSE Min(errs) - 1
      since(c) == SubSeq(c.txs, 1 + IF from > c.min THEN from - c.min ELSE 0, Len(c.txs))
  IN [ok |-> errs \subseteq {Len(items)},
      txs |-> FlattenSeq([i \in 1..n |-> since(items[i].commit)])]

(* The segments an open Generic knows of, `tail' and `head'; a file behind  *)
(* its head is one that start_new_segment failed to create.                 *)
Offsets == IF status = "open" THEN {o \in DOMAIN files : o <= w.head} ELSE DOMAIN files

Content == FoldTransactions(files, Offsets, 0)

----------------------------------------------------------------------------
(* Opening and resetting *)

FreshWriter(head, next, epoch, len) ==
  [head |-> head, inner |-> <<>>, buf |-> <<>>, next |-> next, epoch |-> epoch, len |-> len, panicked |-> FALSE]

NextEpochOf(seg) == 1 + Max({0} \cup {seg.commits[i].epoch : i \in 1..Len(seg.commits)})

MaxEpochOf(seg) == Max({0} \cup {seg.commits[i].epoch : i \in 1..Len(seg.commits)})

InOrder(off, seg) ==
  \A i \in 1..Len(seg.commits) :
    seg.commits[i].min = IF i = 1 THEN off ELSE CommitEnd(seg.commits[i - 1])

Resumable(seg) == seg.tail # "long"

(* create_segment_writer, when nothing fails *)
NewHead(fs, v) ==
  IF CanCreate(fs, v.next)
  THEN Outcome(PutSegment(fs, v.next, NewSegment), [v EXCEPT !.head = v.next, !.len = 0], "ok")
  ELSE Outcome(fs, v, "exists")

(* Generic::open: resume the last segment, start a new one behind it if it  *)
(* ends in an invalid commit, or start the log.                             *)
Open(fs) ==
  IF DOMAIN fs = {}
  THEN Outcome(PutSegment(fs, 0, NewSegment), FreshWriter(0, 0, 0, 0), "ok")
  ELSE LET last == Max(DOMAIN fs)
           seg == fs[last]
           end == SegmentEnd(last, seg)
           v == FreshWriter(last, end, MaxEpochOf(seg), SegmentLen(seg))
       IN CASE seg.hdr # "full" \/ ~InOrder(last, seg) -> Outcome(fs, v, "err")
            [] seg.hdr = "full" /\ InOrder(last, seg) /\ Resumable(seg) -> Outcome(fs, v, "ok")
            [] OTHER -> NewHead(fs, v)

Without(fs, offs) == [o \in DOMAIN fs \ offs |-> fs[o]]

RetainedBefore(seg, offset) == Cardinality({i \in 1..Len(seg.commits) : seg.commits[i].min < offset})

Retained(seg, offset) == Cardinality({i \in 1..Len(seg.commits) : seg.commits[i].min <= offset})

(* One iteration of reset_to_internal, newest segment first. *)
ResetSegment(r, off, offset) ==
  LET seg == r.fs[off]
      n == Retained(seg, offset)
  IN CASE r.res # "ok" -> r
       [] r.res = "ok" /\ off > offset -> [r EXCEPT !.fs = Without(@, {off})]
       [] r.res = "ok" /\ off <= offset /\ ( \/ seg.hdr # "full"
                                             \/ n = Len(seg.commits) /\ seg.tail = "long") ->
            [r EXCEPT !.res = "err"]
       [] OTHER ->
            IF n = 0 THEN [r EXCEPT !.fs = Without(@, {off})]
            ELSE [r EXCEPT !.res = "done",
                           !.fs[off] = [@ EXCEPT !.commits = SubSeq(@, 1, n), !.synced = n,
                                                 !.tail = "clean"]]

ResetToInternal(fs, offs, offset) ==
  FoldLeft(LAMBDA r, off : ResetSegment(r, off, offset), [fs |-> fs, res |-> "ok"],
           SetToSortSeq(offs, >))

----------------------------------------------------------------------------
(* The operations of Commitlog<T>, each under the write lock on `inner'. *)

StatusOf(res) ==
  CASE res = "panic" -> "poisoned"
    [] res = "exists" /\ faults.stops -> "unwritable"
    [] OTHER -> "open"

SpendFault(res) == faults' = IF res = "ok" \/ faults.left = 0 THEN faults ELSE OneLess

(* The effect of a call with outcome o; a failed fsync leaves the file in an *)
(* undefined state, from then on only what was promised counts.              *)
Complete(o) ==
  /\ files' = o.fs /\ w' = o.w /\ status' = StatusOf(o.res)
  /\ SpendFault(o.res)
  /\ acked' = IF o.res = "panic" THEN SubSeq(acked, 1, promised)
              ELSE IF o.w.next > w.next THEN acked \o w.buf ELSE acked

HasRoom(v) == Len(v.buf) < faults.max_records_in_commit

AppendTo(v) == [v EXCEPT !.buf = Append(@, appends + 1)]

(* append: buffer a record, or hand it back if the commit is full. *)
DoAppend ==
  /\ status = "open" /\ appends < faults.appends /\ HasRoom(w)
  /\ w' = AppendTo(w) /\ appends' = appends + 1
  /\ UNCHANGED <<files, status, faults, acked, promised>>

(* append_maybe_flush, when the commit is full: commit it first. *)
AppendMaybeFlush ==
  /\ status = "open" /\ appends < faults.appends /\ ~HasRoom(w)
  /\ \E o \in CommitOutcomes(files, w) :
       /\ Complete(IF o.res = "ok" THEN [o EXCEPT !.w = AppendTo(@)] ELSE o)
       /\ appends' = IF o.res = "ok" THEN appends + 1 ELSE appends
  /\ UNCHANGED promised

Flush ==
  /\ status = "open"
  /\ \E o \in CommitOutcomes(files, w) : Complete(o)
  /\ UNCHANGED <<appends, promised>>

SyncOutcomesFlushed(fs, v) == {Outcome(fs, [v EXCEPT !.panicked = FALSE], "ok")}

(* sync: fsync the head, and report max_committed_offset as durable. *)
SyncOutcomes(fs, v) ==
  {Outcome(Fsync(fs, v.head), [v EXCEPT !.panicked = FALSE], "ok")} \cup SyncFailure(fs, v)

Sync ==
  /\ status = "open"
  /\ \E o \in SyncOutcomes(files, w) :
       /\ Complete(o)
       /\ promised' = IF o.res = "ok" THEN o.w.next ELSE promised
  /\ UNCHANGED appends

FlushAndSync ==
  /\ status = "open"
  /\ \E c \in CommitOutcomes(files, w) :
       \E o \in IF c.res = "ok" THEN SyncOutcomes(c.fs, c.w) ELSE {c} :
         /\ Complete(o)
         /\ promised' = IF o.res = "ok" THEN o.w.next ELSE promised
  /\ UNCHANGED appends

(* set_epoch, for a larger epoch: flush, then write with the new one. *)
SetEpoch(e) ==
  /\ status = "open" /\ e > w.epoch
  /\ \E o \in CommitOutcomes(files, w) :
       Complete(IF o.res = "ok" THEN [o EXCEPT !.w.epoch = e] ELSE o)
  /\ UNCHANGED <<appends, promised>>

(* drop: commit what is buffered, without rotating, unless a call panicked, *)
(* and tell nobody; then the BufWriter is dropped.                          *)
Close ==
  /\ status \in {"open", "unwritable"}
  /\ \/ /\ w.panicked \/ w.buf = <<>>
        /\ files' \in DropWriter(files, w)
        /\ UNCHANGED faults
     \/ /\ ~w.panicked /\ w.buf # <<>>
        /\ files' = [files EXCEPT ![w.head] = WriteCommits(@, w.inner, <<Buffered(w)>>)]
        /\ UNCHANGED faults
     \/ /\ ~w.panicked /\ w.buf # <<>> /\ Failing("write")
        /\ \E f \in FailedWrites(files, w) : files' \in DropWriter(f.fs, f.w)
        /\ faults' = OneLess
  /\ status' = "down" /\ w' = FreshWriter(0, 0, 0, 0)
  /\ UNCHANGED <<appends, acked, promised>>

(* Opening the log on what the disk holds; the log then is what reads back. *)
OpenLog ==
  /\ status = "down"
  /\ LET o == Open(files)
     IN /\ files' = o.fs /\ w' = o.w
        /\ status' = IF o.res = "ok" THEN "open" ELSE "failed"
        /\ acked' = IF o.res = "ok" THEN FoldTransactions(o.fs, DOMAIN o.fs, 0).txs ELSE acked
  /\ UNCHANGED <<appends, faults, promised>>

(* What is left of the log after segments were removed or truncated. *)
Recount(fs) ==
  LET left == Len(FoldTransactions(fs, DOMAIN fs, 0).txs)
  IN /\ acked' = SubSeq(acked, 1, Min({Len(acked), left}))
     /\ promised' = Min({promised, left})

(* reset_to, reset: discard the log behind an offset, or all of it; the log *)
(* is opened again with the next step.  (Not when the BufWriter of the old  *)
(* head holds bytes, which it would write after that.)                      *)
ResetTo(offset) ==
  /\ status \in {"open", "down", "failed"}
  /\ w.inner = <<>>
  /\ status' = "down" /\ w' = FreshWriter(0, 0, 0, 0)
  /\ UNCHANGED <<appends, faults>>
  /\ files' = ResetToInternal(files, Offsets, offset).fs
  /\ Recount(files')

(* reset removes the newest segment first; a crash can leave the oldest. *)
Reset ==
  /\ status = "open" /\ w.inner = <<>>
  /\ \E keep \in {{}} \cup IF faults.left > 0 /\ "process" \in faults.crashes
                          THEN {{o \in Offsets : o < n} : n \in Offsets} ELSE {} :
       /\ files' = Without(files, Offsets \ keep)
       /\ faults' = IF keep = {} THEN faults ELSE OneLess
  /\ Recount(files')
  /\ status' = "down" /\ w' = FreshWriter(0, 0, 0, 0)
  /\ UNCHANGED appends

----------------------------------------------------------------------------
(* Crashes *)

Running == status \in {"open", "unwritable", "poisoned"}

GoDown ==
  /\ faults.left > 0 /\ faults' = OneLess
  /\ status' = "down" /\ w' = FreshWriter(0, 0, 0, 0)
  /\ UNCHANGED <<appends, promised>>

(* The process dies, possibly in the middle of writing a commit. *)
ProcessCrash ==
  /\ "process" \in faults.crashes /\ Running /\ GoDown
  /\ \E seg \in IF status = "open" /\ w.buf # <<>>
                 THEN TornWrites(files[w.head], Buffered(w), faults.tears) ELSE {files[w.head]} :
       files' = [files EXCEPT ![w.head] = seg]
  /\ UNCHANGED acked

(* The process dies while a new segment is created. *)
CrashInCreate ==
  /\ "midcreate" \in faults.crashes /\ status = "open" /\ w.len > 0 /\ GoDown
  /\ CanCreate(files, w.next)
  /\ \E h \in {"none", "partial", "full"} :
       files' = AbandonedSegment(Fsync(files, w.head), w.next, h)
  /\ UNCHANGED acked

(* The machine loses power: what was not fsynced may be lost. *)
PowerLoss ==
  /\ "power" \in faults.crashes /\ (Running \/ status = "down") /\ GoDown
  /\ files' \in {f \in [DOMAIN files -> UNION {Survivals(files[o], TRUE) : o \in DOMAIN files}] :
                  \A o \in DOMAIN files :
                    f[o] \in Survivals(files[o], status = "open" /\ o = w.head /\ w.buf # <<>>)}
  /\ acked' = SubSeq(acked, 1, promised)

----------------------------------------------------------------------------
Init ==
  /\ files = [o \in {} |-> NewSegment] /\ status = "down" /\ w = FreshWriter(0, 0, 0, 0)
  /\ appends = 0 /\ faults \in Plans /\ acked = <<>> /\ promised = 0

Next ==
  \/ OpenLog \/ DoAppend \/ AppendMaybeFlush \/ Flush \/ Sync \/ FlushAndSync \/ Close
  \/ \E e \in 1..faults.epoch : SetEpoch(e)
  \/ \E offset \in 0..MaxAppends : ResetTo(offset)
  \/ Reset
  \/ ProcessCrash \/ CrashInCreate \/ PowerLoss

Spec == Init /\ [][Next]_vars

----------------------------------------------------------------------------
(* Properties *)

(* The variables have their types, and no epoch is written that the caller  *)
(* did not set, also when a log is opened that was written in another one.  *)
TypeOK ==
  /\ DOMAIN files \subseteq Nat /\ files \in [DOMAIN files -> Segment]
  /\ w.epoch <= faults.epoch
  /\ status \in {"down", "open", "poisoned", "unwritable", "failed"}
  /\ w \in Writer
  /\ appends \in 0..MaxAppends /\ faults \in Plan
  /\ acked \in Seq(Record) /\ promised \in Nat

(* Whatever write errors, failed segment creations and process crashes     *)
(* happened, replaying the log from any offset (fold_transactions_from, as  *)
(* a restore from a snapshot does) succeeds and yields at least the records *)
(* from there on of every commit that returned Ok, in order and each once:  *)
(* a retried commit is not read twice, a torn one does not hide what        *)
(* follows it, and the offset may be inside a commit, at a segment boundary *)
(* or next to the residue of a failed write.  An open log goes on at the    *)
(* offset behind those records.                                             *)
CommittedIsReadBack ==
  /\ \A k \in 0..Len(acked) :
       LET suffix == FoldTransactions(files, Offsets, k)
       IN suffix.ok /\ IsPrefix(SubSeq(acked, k + 1, Len(acked)), suffix.txs)
  /\ status = "open" => w.next = Len(acked)

(* After a power loss at any point, replaying the log yields at least the   *)
(* records up to the offset that sync or flush_and_sync last returned.      *)
DurableIsReadBack ==
  /\ Content.ok /\ promised <= Len(acked)
  /\ IsPrefix(SubSeq(acked, 1, promised), Content.txs)

(* In every state of the log, a reset_to(offset) that succeeds keeps a      *)
(* prefix of it that ends with the commit containing `offset', and what it  *)
(* keeps is readable.                                                       *)
ResetToContract ==
  LET before == FoldTransactions(files, Offsets, 0)
  IN status \in {"open", "down", "failed"} =>
       \A offset \in 0..MaxAppends :
         LET r == ResetToInternal(files, Offsets, offset)
             after == FoldTransactions(r.fs, DOMAIN r.fs, 0)
             kept == SelectSeq(Commits(r.fs, DOMAIN r.fs, 0), LAMBDA i : i.res = "ok")
         IN r.res # "err" =>
              /\ after.ok /\ IsPrefix(after.txs, before.txs)
              /\ offset < Len(before.txs) =>
                   /\ kept # <<>>
                   /\ Last(kept).commit.min <= offset /\ offset < CommitEnd(Last(kept).commit)
=============================================================================
