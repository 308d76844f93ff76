-------------------------- MODULE LocalDurability --------------------------
(***************************************************************************)
(* durability::Local: append_tx puts transactions into an unbounded queue, *)
(* the PersisterTask moves them into the commitlog, the FlushAndSyncTask   *)
(* periodically flushes and syncs the log and publishes the durable        *)
(* offset.  The tasks share the Commitlog, whose calls hold its lock and   *)
(* are atomic here; between two calls the tasks interleave.                *)
(*                                                                         *)
(* The log is the interface of module Commitlog: a buffer, the committed   *)
(* records, and how many of these can be read back and are on stable       *)
(* storage.  A commit can fail ("err", retried by its caller), find the    *)
(* log unwritable ("exists") and a sync can panic, which poisons the lock. *)
(* What a failed commit leaves behind is part of the log's state: records  *)
(* in a segment nobody will sync (`gap'), a fragment in the segment the    *)
(* retry goes to (`torn'), or the commit itself (`left').                  *)
(***************************************************************************)
EXTENDS Integers, Sequences

CONSTANTS
  MaxTxs,        \* bound: transactions submitted
  RecordLimits,  \* the values Options::max_records_in_commit can be set to
  MaxFaults,     \* bound: I/O errors and crashes
  IoFaults,      \* subset of {"err", "exists", "panic"}
  Crashes,       \* subset of {"process", "power"}
  DepthMod       \* queue_depth is an AtomicU64: its values wrap at DepthMod

ASSUME LocalDurabilityAssumption ==
  /\ MaxTxs \in Nat /\ RecordLimits \subseteq Nat \ {0} /\ MaxFaults \in Nat
  /\ IoFaults \subseteq {"err", "exists", "panic"}
  /\ Crashes \subseteq {"process", "power"}
  /\ DepthMod \in Nat \ {0}

VARIABLES
  queue,       \* Local::queue
  depth,       \* Local::queue_depth
  uncounted,   \* calls of append_tx between their `send' and their `fetch_add'
  inflight,    \* the transaction the persister has received, if any
  persister,   \* where PersisterTask::run is; "gone" after a panic or an abort
  syncer,      \* where FlushAndSyncTask::run is
  synced_to,   \* the offset its last flush_and_sync returned
  durable,     \* Local::durable_offset
  max_records, \* Options::max_records_in_commit
  buf,         \* the records buffered in the Commitlog
  committed,   \* the records its commits reported written, by offset
  readable,    \* how many of these a traversal of the log returns
  stable,      \* how many of these are on stable storage
  gap,         \* some of the others are in a segment that was left unsynced
  torn,        \* the head segment ends in a fragment of a commit
  left,        \* the sizes of the failed commits of `buf' that are in the log
  log,         \* "ok", "broken" (rotations find AlreadyExists) or "poisoned"
  mode,        \* "open", "closing", "closed" (close returned Ok), "close_failed", "down"
  next,        \* the next transaction submitted
  faults,      \* faults left
  opened,      \* ghost: how many records the log held when it was opened
  expected     \* ghost: these, and every transaction submitted since

logvars == <<buf, committed, readable, stable, gap, torn, left, log>>
taskvars == <<inflight, persister, syncer, synced_to>>
fixed == <<max_records, opened>>
vars == <<queue, depth, uncounted, logvars, taskvars, durable, mode, next, faults, expected,
          fixed>>

Tx == 1..MaxTxs

(* The arithmetic of an AtomicU64. *)
Wrap(n) == n % DepthMod

----------------------------------------------------------------------------
(* Commitlog calls *)

MayFail(f) == faults > 0 /\ f \in IoFaults

(* The results Generic::commit can have now.  A retry of a rotation that    *)
(* found the file of the new segment finds it again.                        *)
CommitResults ==
  CASE log = "poisoned" -> {"panic"}
    [] log = "broken" -> {"exists"} \cup {f \in IoFaults : f = "panic" /\ MayFail(f)}
    [] OTHER -> {"ok"} \cup {f \in IoFaults : MayFail(f)}

Spend(res) ==
  faults' = IF res \notin {"ok"} \cup (CASE log = "ok" -> {} [] log = "broken" -> {"exists"}
                                           [] OTHER -> {"panic"})
            THEN faults - 1 ELSE faults

SyncedAll(n) == n

(* What is stable after an fsync of the head: everything readable, unless   *)
(* an earlier segment was never synced.                                     *)
SyncedTo(n) == IF gap THEN stable ELSE n

(* The records are written, to a new segment if the commit rotates.  They   *)
(* cannot be read back behind a fragment, nor next to a smaller commit with *)
(* the same offset; `then' is what is put in the empty buffer.              *)
Write(then, rotates) ==
  /\ committed' = committed \o buf /\ buf' = then
  /\ torn' = (torn /\ ~rotates) /\ left' = {}
  /\ readable' = IF readable = Len(committed) /\ ~torn' /\ left \subseteq {Len(buf)}
                 THEN Len(committed') ELSE readable
  /\ UNCHANGED gap

(* The new segment of a rotation, which has synced the old one, could not   *)
(* be created; its file may be there now.                                   *)
NotRotated(res) ==
  /\ stable' = SyncedTo(readable)
  /\ log' \in IF res = "exists" THEN {"broken"} ELSE {log, "broken"}
  /\ UNCHANGED <<gap, torn, left>>

(* A write failed.  The commit may be in the log as a whole, then or later. *)
(* The retry goes to a new segment without the old one being synced, or, if *)
(* none could be created, to the same one again.                            *)
NotWritten(res) ==
  /\ buf # <<>> /\ log = "ok"
  /\ left' \in {left, left \cup {Len(buf)}}
  /\ \/ res = "err" /\ torn' = FALSE /\ gap' = (gap \/ stable < Len(committed))
     \/ torn' \in {torn, TRUE} /\ UNCHANGED gap
  /\ UNCHANGED <<stable, log>>

(* Commitlog::flush.  It panics when the sync of a rotation does. *)
Commit(res, then) ==
  /\ res \in CommitResults /\ Spend(res)
  /\ CASE res = "ok" -> \E rotates \in BOOLEAN :
                          /\ Write(then, rotates)
                          /\ stable' = IF rotates THEN SyncedTo(readable) ELSE stable
                          /\ UNCHANGED log
       [] res = "panic" -> /\ log' = "poisoned"
                           /\ UNCHANGED <<buf, committed, readable, stable, gap, torn, left>>
       [] OTHER -> /\ NotRotated(res) \/ NotWritten(res)
                   /\ UNCHANGED <<buf, committed, readable>>

SyncedBeforeFlush(res, rotates) ==
  stable' = IF res = "ok" \/ rotates THEN SyncedTo(readable) ELSE stable

Synced(res, rotates) ==
  stable' = IF res = "ok" THEN SyncedTo(readable')
            ELSE IF rotates THEN SyncedTo(readable) ELSE stable

(* Commitlog::flush_and_sync; when its own fsync panics the records have    *)
(* been written.                                                            *)
FlushAndSync(res) ==
  \/ /\ log = "ok" /\ res \in CommitResults \cap {"ok", "panic"} /\ Spend(res)
     /\ \E rotates \in BOOLEAN : Write(<<>>, rotates) /\ Synced(res, rotates)
     /\ log' = IF res = "panic" THEN "poisoned" ELSE log
  \/ res # "ok" /\ Commit(res, <<>>)

----------------------------------------------------------------------------
(* append_tx: send, which panics when the receiver is gone; then fetch_add *)

AppendTx ==
  /\ mode = "open" /\ persister # "gone" /\ next <= MaxTxs
  /\ queue' = Append(queue, next) /\ next' = next + 1
  /\ uncounted' = uncounted + 1 /\ expected' = Append(expected, next)
  /\ UNCHANGED <<depth, logvars, taskvars, durable, mode, faults, fixed>>

CountTx ==
  /\ uncounted > 0 /\ uncounted' = uncounted - 1
  /\ depth' = Wrap(depth + 1)
  /\ UNCHANGED <<queue, logvars, taskvars, durable, mode, next, faults, expected, fixed>>

----------------------------------------------------------------------------
(* PersisterTask *)

(* recv *)
PersisterRecv ==
  /\ persister = "recv" /\ queue # <<>>
  /\ inflight' = <<Head(queue)>> /\ queue' = Tail(queue)
  /\ persister' = "received"
  /\ UNCHANGED <<depth, uncounted, logvars, syncer, synced_to, durable, mode, next, faults,
                 expected, fixed>>

DecrementStuck(d) == IF d = 0 THEN 0 ELSE d - 1

Decrement(d) == Wrap(d - 1)

(* fetch_sub, and the choice of the fast path *)
PersisterCount ==
  /\ persister = "received"
  /\ depth' = Decrement(depth)
  /\ persister' = IF max_records = 1 THEN "flush_append" ELSE "append"
  /\ UNCHANGED <<queue, uncounted, logvars, inflight, syncer, synced_to, durable, mode, next,
                 faults, expected, fixed>>

DrainedAfterClose == queue = <<>> /\ mode = "closed"

(* The channel is closed and drained. *)
Drained == queue = <<>> /\ mode = "closing"

PersisterExit ==
  /\ persister = "recv" /\ Drained
  /\ persister' = "exited"
  /\ UNCHANGED <<queue, depth, uncounted, logvars, inflight, syncer, synced_to, durable, mode,
                 next, faults, expected, fixed>>

BufferOverwritten == buf' = inflight /\ inflight' = <<>>

Buffer == buf' = buf \o inflight /\ inflight' = <<>>

(* A panic in the task drops what it holds, and the receiver. *)
PersisterGone ==
  /\ persister' = "gone" /\ inflight' = <<>> /\ queue' = <<>>

(* Commitlog::append as a fast path *)
PersisterAppend ==
  /\ persister = "append" /\ log # "poisoned"
  /\ IF Len(buf) < max_records
     THEN Buffer /\ persister' = "recv" /\ UNCHANGED queue
     ELSE persister' = "flush_append" /\ UNCHANGED <<buf, inflight, queue>>
  /\ UNCHANGED <<depth, uncounted, committed, readable, stable, gap, torn, left, log, syncer,
                 synced_to, durable, mode, next, faults, expected, fixed>>

AfterAppend == persister' = IF max_records = 1 THEN "flush" ELSE "recv"

(* append_maybe_flush, until it succeeds *)
PersisterFlushAppend ==
  /\ persister = "flush_append" /\ log # "poisoned"
  /\ \/ /\ Len(buf) < max_records
        /\ Buffer /\ AfterAppend
        /\ UNCHANGED <<queue, committed, readable, stable, gap, torn, left, log, faults>>
     \/ /\ Len(buf) >= max_records
        /\ \E res \in CommitResults :
             /\ Commit(res, inflight)
             /\ CASE res = "ok" -> inflight' = <<>> /\ AfterAppend /\ UNCHANGED queue
                  [] res = "err" -> UNCHANGED <<inflight, persister, queue>>
                  [] OTHER -> PersisterGone
  /\ UNCHANGED <<depth, uncounted, syncer, synced_to, durable, mode, next, expected, fixed>>

(* flush_after: an error is logged and the record stays in the buffer *)
PersisterFlush ==
  /\ persister = "flush" /\ log # "poisoned"
  /\ \E res \in CommitResults :
       /\ Commit(res, <<>>)
       /\ IF res \in {"exists", "panic"} THEN PersisterGone
          ELSE persister' = "recv" /\ UNCHANGED <<inflight, queue>>
  /\ UNCHANGED <<depth, uncounted, syncer, synced_to, durable, mode, next, expected, fixed>>

(* A call on the poisoned lock panics. *)
PersisterPanic ==
  /\ persister \in {"append", "flush_append", "flush"} /\ log = "poisoned"
  /\ PersisterGone
  /\ UNCHANGED <<depth, uncounted, logvars, syncer, synced_to, durable, mode, next, faults,
                 expected, fixed>>

----------------------------------------------------------------------------
(* FlushAndSyncTask *)

NothingNew == committed # <<>> /\ durable > 0 /\ Len(committed) - 1 >= durable

(* tick: skip if nothing changed.  What is buffered is not looked at. *)
Unchanged == committed # <<>> /\ durable > 0 /\ Len(committed) - 1 = durable

SyncerTick ==
  /\ syncer = "tick"
  /\ syncer' = IF log = "poisoned" THEN "gone" ELSE IF Unchanged THEN "tick" ELSE "sync"
  /\ UNCHANGED <<queue, depth, uncounted, logvars, inflight, persister, synced_to, durable, mode,
                 next, faults, expected, fixed>>

(* flush_and_sync; an error is only logged *)
SyncerSync ==
  /\ syncer = "sync"
  /\ \E res \in CommitResults :
       /\ FlushAndSync(res)
       /\ syncer' = CASE res = "panic" -> "abort"
                      [] res = "ok" /\ committed' # <<>> -> "store"
                      [] OTHER -> "tick"
       /\ synced_to' = IF res = "ok" THEN Len(committed') - 1 ELSE synced_to
  /\ UNCHANGED <<queue, depth, uncounted, inflight, persister, durable, mode, next, expected,
                 fixed>>

(* A panic in it aborts the persister, and ends this task. *)
SyncerAbort ==
  /\ syncer = "abort" /\ syncer' = "gone"
  /\ IF persister # "exited" THEN PersisterGone ELSE UNCHANGED <<persister, inflight, queue>>
  /\ UNCHANGED <<depth, uncounted, logvars, synced_to, durable, mode, next, faults, expected,
                 fixed>>

SyncerStore ==
  /\ syncer = "store"
  /\ durable' = synced_to /\ syncer' = "tick"
  /\ UNCHANGED <<queue, depth, uncounted, logvars, inflight, persister, synced_to, mode, next,
                 faults, expected, fixed>>

----------------------------------------------------------------------------
(* close: drop the sender, await the persister, flush and sync *)

CloseBegin ==
  /\ mode = "open" /\ uncounted = 0
  /\ mode' = "closing"
  /\ UNCHANGED <<queue, depth, uncounted, logvars, taskvars, durable, next, faults, expected,
                 fixed>>

PersisterIgnored == TRUE

PersisterDone == persister = "exited"

CloseEnd ==
  /\ mode = "closing"
  /\ \/ /\ PersisterDone
        /\ \E res \in CommitResults :
             FlushAndSync(res) /\ mode' = IF res = "ok" THEN "closed" ELSE "close_failed"
     \/ /\ persister = "gone"
        /\ mode' = "close_failed"
        /\ UNCHANGED <<logvars, faults>>
  /\ UNCHANGED <<queue, depth, uncounted, taskvars, durable, next, expected, fixed>>

----------------------------------------------------------------------------
(* Crashes.  What can be read back survives, without a part that was not    *)
(* synced if the power fails.  If all of it survives, so may a commit of    *)
(* the buffered records that was being written or had failed.               *)

Surviving(kind) ==
  [kept : IF kind = "power" THEN stable..readable ELSE {readable}, more : {0}]
    \cup [kept : {readable} \cap {Len(committed)}, more : {Len(buf)} \cup left]

Crash ==
  /\ mode # "down" /\ faults > 0 /\ faults' = faults - 1
  /\ \E kind \in Crashes : \E s \in Surviving(kind) :
       /\ committed' = SubSeq(committed, 1, s.kept) \o SubSeq(buf, 1, s.more)
       /\ stable' = IF kind = "power" THEN Len(committed') ELSE stable
       /\ gap' = (gap /\ kind # "power")
  /\ mode' = "down" /\ readable' = Len(committed') /\ torn' = FALSE /\ left' = {} /\ log' = "ok"
  /\ buf' = <<>> /\ queue' = <<>> /\ inflight' = <<>> /\ uncounted' = 0 /\ depth' = 0
  /\ persister' = "gone" /\ syncer' = "gone"
  /\ UNCHANGED <<synced_to, durable, next, expected, fixed>>

(* open, of a log that can be replayed, starts the tasks with what it       *)
(* holds; if the last segment ends in a fragment, a new one is started and  *)
(* the last one is left unsynced.                                           *)
Restart ==
  /\ mode = "down" /\ mode' = "open" /\ persister' = "recv" /\ syncer' = "tick"
  /\ expected' = committed /\ opened' = Len(committed)
  /\ gap' \in {gap, gap \/ stable < Len(committed)}
  /\ UNCHANGED <<queue, depth, uncounted, buf, committed, readable, stable, torn, left, log,
                 inflight, synced_to, next, faults, max_records>>

ReopenUnknown == Restart /\ durable' = -1

(* What the log holds is taken for durable. *)
Reopen == Restart /\ durable' = Len(committed) - 1

----------------------------------------------------------------------------
Init ==
  /\ queue = <<>> /\ depth = 0 /\ uncounted = 0 /\ inflight = <<>>
  /\ persister = "recv" /\ syncer = "tick" /\ synced_to = -1 /\ durable = -1
  /\ buf = <<>> /\ committed = <<>> /\ readable = 0 /\ stable = 0 /\ log = "ok"
  /\ gap = FALSE /\ torn = FALSE /\ left = {}
  /\ max_records \in RecordLimits /\ opened = 0
  /\ mode = "open" /\ next = 1 /\ faults = MaxFaults /\ expected = <<>>

Persister ==
  \/ PersisterRecv \/ PersisterCount \/ PersisterExit \/ PersisterAppend \/ PersisterFlushAppend
  \/ PersisterFlush \/ PersisterPanic

Syncer == SyncerTick \/ SyncerSync \/ SyncerAbort \/ SyncerStore

Next ==
  \/ AppendTx \/ CountTx
  \/ PersisterRecv \/ PersisterCount \/ PersisterExit \/ PersisterAppend \/ PersisterFlushAppend
  \/ PersisterFlush \/ PersisterPanic
  \/ SyncerTick \/ SyncerSync \/ SyncerAbort \/ SyncerStore
  \/ CloseBegin \/ CloseEnd \/ Crash \/ Reopen

Spec == Init /\ [][Next]_vars

(* The runtime keeps polling ready tasks, the interval keeps ticking, and   *)
(* a call of close, once made, is awaited.                                  *)
Fairness ==
  /\ WF_vars(CountTx) /\ WF_vars(Persister) /\ WF_vars(CloseEnd)
  /\ WF_vars(SyncerTick) /\ WF_vars(SyncerSync) /\ WF_vars(SyncerAbort)
  /\ WF_vars(SyncerStore)

FairSpec == Spec /\ Fairness

----------------------------------------------------------------------------
(* Properties *)

(* The log: what is stable can be read, what can be read is committed, and  *)
(* what failed commits left is a part of the buffer.                        *)
LogTypeOK ==
  /\ buf \in Seq(Tx) /\ committed \in Seq(Tx)
  /\ readable \in 0..Len(committed) /\ stable \in 0..readable
  /\ gap \in BOOLEAN /\ torn \in BOOLEAN /\ left \subseteq 1..Len(buf)
  /\ log \in {"ok", "broken", "poisoned"} /\ faults \in 0..MaxFaults

(* The variables have their types. *)
TypeOK ==
  /\ LogTypeOK
  /\ queue \in Seq(Tx) /\ inflight \in Seq(Tx) /\ expected \in Seq(Tx)
  /\ depth \in 0..(DepthMod - 1) /\ uncounted \in Nat
  /\ persister \in {"recv", "received", "append", "flush_append", "flush", "exited", "gone"}
  /\ syncer \in {"tick", "sync", "abort", "store", "gone"}
  /\ synced_to \in Int /\ durable \in Int /\ max_records \in RecordLimits
  /\ mode \in {"open", "closing", "closed", "close_failed", "down"}
  /\ next \in 1..(MaxTxs + 1) /\ opened \in Nat

(* The transactions by the offset they have, or will have, in the log. *)
Hist == committed \o (buf \o (inflight \o queue))

(* As long as the persister has not panicked, the log, its buffer, the      *)
(* persister's hands and the queue hold, in this order, what the log held   *)
(* when it was opened and every transaction submitted since, in the order   *)
(* of the append_tx calls: write errors and the retries of two tasks        *)
(* neither lose, repeat nor reorder a transaction.                          *)
HistoryIsComplete == persister # "gone" => Hist = expected

(* The log can be read to its end, and a sync of its head reaches all of    *)
(* it: no write error abandoned records before they were synced             *)
(* (start_new_segment without a sync, commitlog.rs:148), and no commit went *)
(* behind a fragment, or next to a smaller commit with its offset.          *)
Sound == ~gap /\ readable = Len(committed)

(* While the log is sound, the offset the FlushAndSyncTask published, and   *)
(* the one it is about to publish, are on stable storage, whatever the      *)
(* persister did since flush_and_sync returned.  What open published need   *)
(* not be: it takes whatever it can read for durable.                       *)
DurableIsStable ==
  Sound /\ mode # "down" =>
    /\ durable >= opened => durable < stable
    /\ syncer = "store" => synced_to < stable

(* close returns Ok only when everything submitted has been committed, and, *)
(* if the log is sound, is on stable storage.                               *)
CloseIsComplete ==
  mode = "closed" => Hist = committed /\ (Sound => stable = Len(committed))

(* Every step of append_tx, of the tasks and of close is one that the       *)
(* Durability and History traits allow: the history is extended at its end, *)
(* a panic loses only what was not published, and the durable offset grows. *)
(* So are crashes and restarts as long as what was published is on stable   *)
(* storage: none of it is lost.                                             *)
History == INSTANCE DurableHistory WITH hist <- Hist

ImplementsHistory ==
  /\ History!Init
  /\ [][durable < stable \/ "down" \notin {mode, mode'} => History!Next]_(History!hvars)

(* With one record per commit, as the database configures it, and as long   *)
(* as nothing fails, every transaction submitted becomes durable and is     *)
(* reported to be.                                                          *)
EventuallyDurable ==
  \A n \in Tx :
    (max_records = 1 /\ next > n) ~> (durable >= n - 1 \/ faults < MaxFaults)

(* Every transaction submitted becomes durable, or the log fails for good,  *)
(* or the process ends.                                                     *)
DurableAfterRetry ==
  \A n \in Tx :
    (max_records = 1 /\ next > n) ~>
      (durable >= n - 1 \/ log # "ok" \/ persister = "gone" \/ mode # "open")

(* close returns. *)
CloseReturns ==
  (mode = "closing") ~> (mode \in {"closed", "close_failed", "down"})

(* queue_depth is a counter of its own, incremented after a transaction was *)
(* sent and decremented after one was received: once the calls of append_tx *)
(* and the iteration of the persister in progress have counted theirs, it   *)
(* is the length of the queue, also if it wrapped around in between.        *)
DepthIsAccurate ==
  persister # "gone" =>
    Wrap(depth + uncounted) = Wrap(Len(queue) + IF persister = "received" THEN 1 ELSE 0)

=============================================================================
