---------------------------- MODULE RelationalDB ----------------------------
(***************************************************************************)
(* RelationalDB: transactions that commit to the datastore under its lock  *)
(* and are then given to the Durability, a worker that takes snapshots of  *)
(* the committed state, and open, which restores the database from a       *)
(* snapshot and the history that follows it.                               *)
(*                                                                         *)
(* A committed state is the sequence of the transactions it consists of.   *)
(* The Durability is the one of DurableHistory.  A crash cuts off an end   *)
(* of the history that was not durable, may damage snapshots, which are    *)
(* never synced, and leaves lock files behind.  Writing a snapshot may     *)
(* fail, and leave a part of it behind.                                    *)
(***************************************************************************)
EXTENDS Integers, Sequences, FiniteSets, FiniteSetsExt, SequencesExt

CONSTANTS
  Thread,             \* threads that run transactions
  Plain,              \* those that use commit_tx; others: commit_tx_downgrade
  SNAPSHOT_FREQUENCY,
  InitialTxs,         \* transactions that are durable at the start
  MaxTx, MaxFaults    \* bounds: transactions, crashes and failed snapshots

ASSUME RelationalDBAssumption ==
  /\ Plain \subseteq Thread /\ SNAPSHOT_FREQUENCY \in Nat \ {0}
  /\ InitialTxs \in 0..MaxTx /\ MaxTx \in Nat /\ MaxFaults \in Nat

VARIABLES
  phase,          \* "up"; "down"; "failed": open returned an error
  state,          \* CommittedState; next_tx_offset is its length
  writer,         \* who has the write lock on it, "none" or "worker"
  readers,        \* threads with a read lock on it
  pc,             \* where the threads are
  txs,            \* and their transactions: number and tx_offset
  requests,       \* request_snapshot
  worker,         \* SnapshotWorkerActor: "idle", "writing", "compress", "compressing"
  target,         \* the snapshot it creates, or has created
  current,        \* the snapshot it compresses
  snapshots,      \* SnapshotRepository: directories by tx_offset
  locked,         \* offsets with a lock file
  invalid,        \* offsets with a directory renamed to .invalid_snapshot
  partial,        \* offsets with a directory without a snapshot file
  log, durable,   \* the Durability
  archived,       \* the history's first offset
  issued, faults, \* transactions committed, faults so far
  clean           \* ghost: open could read every snapshot it tried, and no later one failed

lockvars == <<writer, readers>>
threadvars == <<pc, txs, issued>>
workvars == <<worker, target, current>>
repovars == <<snapshots, locked, invalid, partial>>
logvars == <<log, durable, archived>>
ghosts == <<faults, clean>>
vars == <<phase, state, lockvars, threadvars, requests, workvars, repovars, logvars, ghosts>>

Tx == 1..MaxTx
Offset == 0..MaxTx - 1

History == INSTANCE DurableHistory WITH hist <- log

next_tx_offset == Len(state)

----------------------------------------------------------------------------
(* Transactions *)

WriteLockNoReaders == writer = "none"

WriteLock == writer = "none" /\ readers = {}

BeginMutTx(t) ==
  /\ phase = "up" /\ pc[t] = "idle" /\ WriteLock
  /\ writer' = t /\ pc' = [pc EXCEPT ![t] = "tx"]
  /\ UNCHANGED <<phase, state, readers, txs, issued, requests, workvars, repovars, logvars, ghosts>>

Unlocked(t) == {}

(* MutTxId::commit drops the lock, commit_downgrade makes it a read lock. *)
Downgraded(t) == IF t \in Plain THEN {} ELSE {t}

(* rollback_mut_tx and rollback_mut_tx_downgrade, or a commit without changes *)
EndWithoutOffset(t) ==
  /\ pc[t] = "tx" /\ pc' = [pc EXCEPT ![t] = IF t \in Plain THEN "idle" ELSE "reading"]
  /\ writer' = "none" /\ readers' = Downgraded(t)
  /\ UNCHANGED <<phase, state, txs, issued, requests, workvars, repovars, logvars, ghosts>>

(* commit_mut_tx: merge, and the transaction gets its offset *)
CommitMutTx(t) ==
  /\ pc[t] = "tx" /\ issued < MaxTx
  /\ issued' = issued + 1 /\ state' = Append(state, issued')
  /\ txs' = [txs EXCEPT ![t] = [tx |-> issued', offset |-> next_tx_offset]]
  /\ writer' = "none" /\ readers' = Downgraded(t)
  /\ pc' = [pc EXCEPT ![t] = "committed"]
  /\ UNCHANGED <<phase, requests, workvars, repovars, logvars, ghosts>>

MaybeDoSnapshot(t) ==
  /\ pc[t] = "committed" /\ pc' = [pc EXCEPT ![t] = "requested"]
  /\ requests' = requests + (IF txs[t].offset % SNAPSHOT_FREQUENCY = 0 THEN 1 ELSE 0)
  /\ UNCHANGED <<phase, state, lockvars, txs, issued, workvars, repovars, logvars, ghosts>>

DoDurability(t) ==
  /\ pc[t] = "requested"
  /\ log' = Append(log, txs[t].tx) /\ History!Submit
  /\ pc' = [pc EXCEPT ![t] = IF t \in Plain THEN "idle" ELSE "reading"]
  /\ UNCHANGED <<phase, state, lockvars, txs, issued, requests, workvars, repovars, archived, ghosts>>

(* The caller of commit_tx_downgrade evaluates its subscriptions first. *)
ReleaseTx(t) ==
  /\ pc[t] = "reading" /\ pc' = [pc EXCEPT ![t] = "idle"]
  /\ readers' = readers \ {t}
  /\ UNCHANGED <<phase, state, writer, txs, issued, requests, workvars, repovars, logvars, ghosts>>

(* The Durability reports that the log has been synced. *)
Sync ==
  /\ phase = "up" /\ durable < Len(log) - 1
  /\ durable' = Len(log) - 1 /\ History!Persist
  /\ UNCHANGED <<phase, state, lockvars, threadvars, requests, workvars, repovars, archived, ghosts>>

----------------------------------------------------------------------------
(* SnapshotRepository *)

(* all_snapshots: locked ones are ignored *)
AllSnapshots == DOMAIN snapshots \ locked

(* the snapshots invalidate_newer_snapshots is about *)
Newer(upper_bound) == {s \in AllSnapshots : s > upper_bound}

(* SnapshotDirPath::rename_invalid fails when there is such a directory. *)
CanRename(S) == S \cap invalid = {}

(* The snapshots come in any order, and the first error ends the loop. *)
Renamed(S) == IF CanRename(S) THEN {S} ELSE SUBSET (S \ invalid)

RenameInvalid(S) ==
  /\ snapshots' = [s \in DOMAIN snapshots \ S |-> snapshots[s]]
  /\ invalid' = invalid \cup S

SnapshotOffsetNext == next_tx_offset

SnapshotOffset == next_tx_offset - 1

(* What create_snapshot invalidates: up to saturating_sub(tx_offset, 1) *)
Superseded == Newer(IF SnapshotOffset = 0 THEN 0 ELSE SnapshotOffset - 1)

(* take_snapshot_internal takes the write lock for all of create_snapshot. *)
CreateSnapshot ==
  /\ phase = "up" /\ worker = "idle" /\ requests > 0 /\ WriteLock
  /\ requests' = requests - 1
  /\ \E renamed \in Renamed(Superseded) :
       /\ RenameInvalid(renamed)
       /\ IF renamed = Superseded /\ SnapshotOffset \notin locked \cup DOMAIN snapshots'
          THEN /\ worker' = "writing" /\ target' = SnapshotOffset /\ UNCHANGED current
               /\ writer' = "worker" /\ locked' = locked \cup {SnapshotOffset}
          ELSE UNCHANGED <<workvars, writer, locked>>
  /\ UNCHANGED <<phase, state, readers, threadvars, partial, logvars, ghosts>>

(* The worker has done with `target'; the locks are released. *)
SnapshotDone(then) ==
  /\ worker = "writing" /\ worker' = then
  /\ writer' = "none" /\ locked' = locked \ {target}
  /\ UNCHANGED <<phase, state, readers, threadvars, requests, target, current, invalid, logvars>>

WithSnapshot(good) ==
  snapshots' = [s \in DOMAIN snapshots \cup {target} |->
    IF s = target THEN [state |-> state, good |-> good, compressed |-> FALSE] ELSE snapshots[s]]

(* Objects are not checked when they are linked to from the latest snapshot *)
(* or found in the directory.                                               *)
SnapshotWritten ==
  /\ SnapshotDone("compress")
  /\ \E good \in BOOLEAN :
       /\ ~good => \/ target \in partial
                   \/ AllSnapshots # {} /\ ~snapshots[Max(AllSnapshots)].good
       /\ WithSnapshot(good)
  /\ partial' = partial \ {target} /\ UNCHANGED ghosts

(* An I/O error, before the snapshot file exists or while it is written. *)
SnapshotFailed ==
  /\ SnapshotDone("idle")
  /\ \/ partial' = partial \cup {target} /\ UNCHANGED snapshots
     \/ partial' = partial \ {target} /\ WithSnapshot(FALSE)
  /\ faults < MaxFaults /\ faults' = faults + 1 /\ clean' = FALSE

(* compress_older_snapshots, from the oldest one *)
CompressSnapshot ==
  LET older == {s \in AllSnapshots :
                  s < target /\ snapshots[s].good /\ ~snapshots[s].compressed}
  IN /\ worker = "compress"
     /\ IF older = {} THEN worker' = "idle" /\ UNCHANGED <<current, locked>>
        ELSE /\ worker' = "compressing" /\ current' = Min(older)
             /\ locked' = locked \cup {current'}
     /\ UNCHANGED <<phase, state, lockvars, threadvars, requests, target, snapshots, invalid, partial, logvars, ghosts>>

SnapshotCompressed ==
  /\ worker = "compressing" /\ worker' = "compress"
  /\ snapshots' = [snapshots EXCEPT ![current].compressed = TRUE]
  /\ locked' = locked \ {current}
  /\ UNCHANGED <<phase, state, lockvars, threadvars, requests, target, current, invalid, partial, logvars, ghosts>>

----------------------------------------------------------------------------
(* Restart *)

Crash ==
  /\ phase = "up" /\ faults < MaxFaults
  /\ phase' = "down" /\ faults' = faults + 1
  /\ History!Lose
  /\ \E damaged \in SUBSET DOMAIN snapshots :
       snapshots' = [s \in DOMAIN snapshots |->
         IF s \in damaged THEN [snapshots[s] EXCEPT !.good = FALSE] ELSE snapshots[s]]
  /\ state' = <<>> /\ writer' = "none" /\ readers' = {} /\ requests' = 0
  /\ pc' = [t \in Thread |-> "idle"] /\ worker' = "idle"
  /\ UNCHANGED <<txs, issued, target, current, locked, invalid, partial, archived, clean>>

(* Somebody moves the part of the history away that a snapshot covers. *)
Archive ==
  /\ phase = "up"
  /\ \E s \in AllSnapshots :
       /\ snapshots[s].good /\ s <= durable /\ archived < s + 1
       /\ archived' = s + 1
  /\ UNCHANGED <<phase, state, lockvars, threadvars, requests, workvars, repovars, log, durable, ghosts>>

NotConnected == archived > 0

Connected(s) == archived <= s + 1

DamagedKept(older, usable) == {}

(* The damaged snapshots that are met before the first usable one. *)
Damaged(older, usable) == {s \in older : \A u \in usable : u < s}

(* Those that are renamed before the first one that cannot be. *)
DamagedBefore(S) == {s \in S : \A r \in S \cap invalid : r < s}

ReplayedFromSnapshot(base) == base \o SubSeq(log, IF base = <<>> THEN 1 ELSE Len(base), Len(log))

(* apply_history: the snapshot's own transaction is not replayed. *)
Replayed(base) == base \o SubSeq(log, Len(base) + 1, Len(log))

(* open: from the snapshots no newer than the end of the history, the       *)
(* latest one that can be read, or else from nothing.  unreadable are those *)
(* with a transient error; damaged ones on the way are invalidated.  What   *)
(* the log holds is then taken for durable.                                 *)
Open ==
  LET durable_tx_offset == Len(log) - 1
      newer == IF log = <<>> THEN {} ELSE Newer(durable_tx_offset)
      older == {s \in AllSnapshots : s <= durable_tx_offset /\ Connected(s)}
  IN /\ phase # "up"
     /\ \E unreadable \in SUBSET older :
          LET usable == {s \in older \ unreadable : snapshots[s].good}
              bad == Damaged(older \ unreadable, usable)
              base == IF usable = {} THEN <<>> ELSE snapshots[Max(usable)].state
              fails == ~CanRename(newer) \/ ~CanRename(bad) \/ (usable = {} /\ NotConnected)
          IN /\ \E renamed \in Renamed(newer) :
                  RenameInvalid(renamed \cup IF CanRename(newer) THEN DamagedBefore(bad) ELSE {})
             /\ phase' = IF fails THEN "failed" ELSE "up"
             /\ state' = IF fails THEN <<>> ELSE Replayed(base)
             /\ clean' = (unreadable = {} /\ partial = {})
     /\ durable' = Len(log) - 1 /\ UNCHANGED log
     /\ UNCHANGED <<lockvars, threadvars, requests, workvars, locked, partial, archived, faults>>

----------------------------------------------------------------------------
Init ==
  /\ phase = "up" /\ state = [n \in 1..InitialTxs |-> n]
  /\ writer = "none" /\ readers = {} /\ requests = 0
  /\ pc = [t \in Thread |-> "idle"] /\ txs = [t \in Thread |-> [tx |-> 1, offset |-> 0]]
  /\ worker = "idle" /\ target = 0 /\ current = 0
  /\ snapshots = <<>> /\ locked = {} /\ invalid = {} /\ partial = {}
  /\ log = state /\ durable = InitialTxs - 1 /\ archived = 0
  /\ issued = InitialTxs /\ faults = 0 /\ clean = TRUE

Next ==
  \/ \E t \in Thread : \/ BeginMutTx(t) \/ EndWithoutOffset(t) \/ CommitMutTx(t)
                       \/ MaybeDoSnapshot(t) \/ DoDurability(t) \/ ReleaseTx(t)
  \/ Sync \/ CreateSnapshot \/ SnapshotWritten \/ SnapshotFailed
  \/ CompressSnapshot \/ SnapshotCompressed \/ Crash \/ Archive \/ Open

Spec == Init /\ [][Next]_vars

----------------------------------------------------------------------------
(* Properties *)

Snapshot == [state : Seq(Tx), good : BOOLEAN, compressed : BOOLEAN]

(* The variables have their types, and a write lock excludes other locks. *)
TypeOK ==
  /\ phase \in {"up", "down", "failed"} /\ state \in Seq(Tx)
  /\ writer \in Thread \cup {"none", "worker"} /\ readers \subseteq Thread
  /\ writer = "none" \/ readers = {}
  /\ pc \in [Thread -> {"idle", "tx", "committed", "requested", "reading"}]
  /\ txs \in [Thread -> [tx : Tx, offset : Offset]]
  /\ requests \in Nat /\ worker \in {"idle", "writing", "compress", "compressing"}
  /\ target \in Offset /\ current \in Offset
  /\ DOMAIN snapshots \subseteq Offset /\ \A s \in DOMAIN snapshots : snapshots[s] \in Snapshot
  /\ locked \subseteq Offset /\ invalid \subseteq Offset /\ partial \subseteq Offset
  /\ log \in Seq(Tx) /\ durable \in -1..Len(log) - 1 /\ archived \in 0..Len(log)
  /\ issued \in 0..MaxTx /\ faults \in 0..MaxFaults /\ clean \in BOOLEAN

(* Transactions enter the history in the order of their offsets: what has   *)
(* been appended is an initial part of the committed state.                 *)
LogIsCommitOrder == phase = "up" => IsPrefix(log, state)

(* A complete snapshot is of the transactions up to its offset in the       *)
(* history that is being continued, never in one that was lost in a crash   *)
(* (create_snapshot and open invalidate those).  This takes a history that  *)
(* was not lost as a whole, InitialTxs > 0: see StaleInvalidated.           *)
SnapshotsAgree ==
  phase = "up" => \A s \in AllSnapshots :
                    s < Len(state) /\ snapshots[s].state = SubSeq(state, 1, s + 1)

(* open restores what the history holds, whichever snapshot it begins with, *)
(* if any, and whatever crashes and failed snapshots left in the            *)
(* repository (again for InitialTxs > 0).                                   *)
RestoresHistory == [][phase # "up" /\ phase' = "up" => state' = log']_vars

(* The snapshots a database takes are intact although they share objects    *)
(* with earlier ones that a crash may have damaged: open invalidates those  *)
(* that a new one could link to.                                            *)
TakesGoodSnapshots ==
  [][worker = "writing" /\ worker' = "compress" /\ clean => snapshots'[target].good]_vars

(* When the worker turns to a request, no snapshot equal to or newer than   *)
(* the offset of the one it is about to take remains.                       *)
StaleInvalidated ==
  [][requests' < requests /\ phase' = "up" =>
       \A s \in DOMAIN snapshots' \ locked : s < SnapshotOffset]_vars

(* open fails only if the history has been archived: snapshots can always   *)
(* be invalidated, again if need be.                                        *)
OpensUnlessArchived == [][phase' = "failed" => archived > 0]_vars
=============================================================================
