---------------------------- MODULE LevelDBWrites ----------------------------
(***************************************************************************)
(* How leveldb (Pods/leveldb-library/db/db_impl.cc) keeps a write: the     *)
(* queue of writers and the group its head commits, the log, the memtable  *)
(* and its switch, the one background thread that flushes it and merges    *)
(* tables, the manifest, the files thrown away, and the recovery.          *)
(*                                                                         *)
(* A step is what a thread does between two releases of mutex_, or one     *)
(* write to a file.  A write is one entry, named by its writer; keys,      *)
(* overwriting and the levels below 1 are in LevelDBVersions.tla, the      *)
(* bytes of a log in LevelDBLog.tla.  Without keys any two tables overlap, *)
(* so that a flush always goes to level 0.                                 *)
(***************************************************************************)
EXTENDS Naturals, FiniteSets, SequencesExt

CONSTANTS
  Writer,       \* threads, each with one call to make
  Sync,         \* those whose write says sync
  Compact,      \* those whose batch is null: TEST_CompactMemTable
  Size,         \* of the batch of each writer
  SmallBatch,   \* 128 << 10 in BuildBatchGroup
  MaxGroup,     \* 1 << 20 in BuildBatchGroup
  MemLimit,     \* write_buffer_size, in entries
  L0Trigger,    \* kL0_CompactionTrigger
  L0Stop,       \* kL0_StopWritesTrigger
  MaxRestarts,  \* bound: how often the database is closed or crashes
  MaxFailures,  \* bound: how many writes to files fail
  None          \* no memtable

ASSUME WritersAssumption ==
  /\ IsFiniteSet(Writer)
  /\ Sync \subseteq Writer /\ Compact \subseteq Writer \ Sync
  /\ Size \in [Writer -> Nat]

(* No memtable is none: None stands for a null pointer. *)
ASSUME NoneAssumption == \A S \in SUBSET Writer : None \notin [S -> Nat]

ASSUME BoundsAssumption ==
  /\ {SmallBatch, MaxGroup, MemLimit, MaxRestarts, MaxFailures} \subseteq Nat
  /\ {L0Trigger, L0Stop} \subseteq Nat \ {0}
  /\ L0Trigger <= L0Stop

VARIABLES
  pc,        \* of each writer, the answer to its call included
  queue,     \* writers_
  group,     \* how far last_writer is, and the batch the head is writing
  mem,       \* mem_: the sequence number of each entry in it
  imm,       \* imm_
  logfile,   \* logfile_number_
  versions,  \* versions_: last, next, log and the tables of two levels
  bg,        \* the background thread, and bg_error_
  disk,      \* what the files hold
  phase,     \* of the database: open, closing, down, recovering, recovered or saved
  unread,    \* the logs that a recovery has yet to replay
  restarts, failures

vars == <<pc, queue, group, mem, imm, logfile, versions, bg, disk, phase, unread, restarts, failures>>

----------------------------------------------------------------------------
(* Batches, memtables and tables are functions from writers to numbers. *)

Nothing == [w \in {} |-> 0]

Entries(fs) == [w \in UNION {DOMAIN f : f \in fs} |-> (CHOOSE f \in fs : w \in DOMAIN f)[w]]

Seqs(f) == {f[w] : w \in DOMAIN f}

Content(ts) == Entries({disk.tables[t] : t \in ts})

(* A log is its records by their positions.  A record whose writing failed *)
(* has no batch: the writer counted its bytes all the same, and no reader  *)
(* is sure of what follows.                                                *)
Record(batch) == [batch |-> batch, synced |-> FALSE]

Flawed(record) == record.batch = Nothing

Sound(log) == {i \in DOMAIN log : ~Flawed(log[i])}

Intact(log) == {i \in DOMAIN log : \A j \in DOMAIN log : j <= i => j \in Sound(log)}

LogsFrom(number) == {n \in DOMAIN disk.logs : n >= number}

----------------------------------------------------------------------------
(* The background thread. *)

Edit(add0, add1, gone, log, v) ==
  [add0 |-> add0, add1 |-> add1, gone |-> gone, log |-> log, next |-> v.next, last |-> v.last]

Idle == [scheduled |-> FALSE, error |-> FALSE, flush |-> "none", merge |-> "none",
         table |-> 0, inputs |-> {}, output |-> 0, edit |-> Edit({}, {}, {}, 0, [next |-> 0, last |-> 0])]

Tables == versions.l0 \union versions.l1

(* Slip: the output of a merge is not entered in pending_outputs_. *)
PendingFlush(b) == IF b.flush = "build" THEN {b.table} ELSE {}

(* The numbers in pending_outputs_. *)
Pending(b) ==
  (IF b.flush = "build" THEN {b.table} ELSE {})
    \union (IF b.merge \in {"none", "scan"} THEN {} ELSE {b.output})

(* MaybeScheduleCompaction: there is work if a memtable waits to be        *)
(* flushed, or if Finalize counted too many tables at level 0.             *)
Scheduled(b, i, v) ==
  [b EXCEPT !.scheduled =
     @ \/ (phase # "closing" /\ ~b.error /\ (i # None \/ Cardinality(v.l0) >= L0Trigger))]

(* Slip: Signal wakes writers that wait for room only. *)
WokenWriters(p) == [w \in Writer |-> IF p[w] = "asleep" THEN "head" ELSE p[w]]

(* background_work_finished_signal_.SignalAll(). *)
Woken(p) ==
  [w \in Writer |-> IF p[w] = "asleep" THEN "head"
                    ELSE IF p[w] = "flushing" THEN "await" ELSE p[w]]

(* DeleteObsoleteFiles: not after an error, since then nobody knows what   *)
(* the manifest says.                                                      *)
Cleaned(d, v, b) ==
  IF b.error THEN d
  ELSE LET live == v.l0 \union v.l1 \union Pending(b)
       IN [d EXCEPT !.logs = [n \in {m \in DOMAIN @ : m >= v.log} |-> @[n]],
                    !.tables = [t \in DOMAIN @ \intersect live |-> @[t]]]

(* The end of BackgroundCall: another call if there is more to do. *)
CallEnds(b, i, v) ==
  /\ bg' = Scheduled([Idle EXCEPT !.error = b.error], i, v)
  /\ pc' = Woken(pc)

----------------------------------------------------------------------------
(* DBImpl::Write. *)

NoBatch(w) == w \in Compact

(* Write: a writer queues up, and waits on its own condition variable      *)
(* unless it is the first.                                                 *)
Call(w) ==
  /\ phase = "open" /\ pc[w] = "idle"
  /\ queue' = Append(queue, w)
  /\ pc' = [pc EXCEPT ![w] = IF queue = <<>> THEN "head" ELSE "parked"]
  /\ UNCHANGED <<group, mem, imm, logfile, versions, bg, disk, phase, unread, restarts, failures>>

(* The first n writers leave the queue with an answer, a compaction that   *)
(* went well to wait for its memtable, and the new head is told.           *)
Answered(p, n, answer) ==
  LET left == SubSeq(queue, n + 1, Len(queue))
  IN [w \in Writer |->
        IF \E i \in 1..n : queue[i] = w
        THEN IF w \in Compact /\ answer = "ok" THEN "await" ELSE answer
        ELSE IF left # <<>> /\ w = left[1] THEN "head" ELSE p[w]]

Leave(p, n, answer) ==
  /\ pc' = Answered(p, n, answer)
  /\ queue' = SubSeq(queue, n + 1, Len(queue))

Bytes(n) ==
  FoldSeq(LAMBDA w, sum : sum + (IF NoBatch(w) THEN 0 ELSE Size[w]), 0, SubSeq(queue, 1, n))

(* Slip: a synced write joins the group of a head that does not sync. *)
JoinsAnyHead(i) == NoBatch(queue[i]) \/ Bytes(i) <= MaxGroup

Joins(i) ==
  LET limit == IF Size[queue[1]] <= SmallBatch THEN Size[queue[1]] + SmallBatch ELSE MaxGroup
  IN /\ queue[i] \in Sync => queue[1] \in Sync
     /\ NoBatch(queue[i]) \/ Bytes(i) <= limit

(* BuildBatchGroup: those behind the head join it up to the first that     *)
(* wants its write synced when the head does not, or that makes the batch  *)
(* too big.  A null batch adds nothing.                                    *)
GroupSize == Cardinality({n \in 1..Len(queue) : \A i \in 2..n : Joins(i)})

(* Slip: SetSequence(updates, last_sequence). *)
NumberedFromLast(n) ==
  [w \in {queue[i] : i \in 1..n} \ Compact |->
     versions.last + Cardinality({i \in 1..n : queue[i] \notin Compact /\ \E j \in (i + 1)..n : queue[j] = w})]

Numbered(n) ==
  LET before(w) == Cardinality({i \in 1..n : /\ queue[i] \notin Compact
                                             /\ \E j \in (i + 1)..n : queue[j] = w})
  IN [w \in {queue[i] : i \in 1..n} \ Compact |-> versions.last + 1 + before(w)]

(* MakeRoomForWrite gave way: a null batch is answered at once, any other  *)
(* becomes the head of a group.                                            *)
Proceed(w) ==
  IF NoBatch(w)
  THEN Leave(pc, 1, "ok") /\ UNCHANGED group
  ELSE /\ group' = [size |-> GroupSize, batch |-> Numbered(GroupSize)]
       /\ pc' = [pc EXCEPT ![w] = "logging"]
       /\ UNCHANGED queue

Full(w) == NoBatch(w) \/ Cardinality(DOMAIN mem) > MemLimit

MustWait == imm # None \/ Cardinality(versions.l0) >= L0Stop

YieldError(w) ==
  /\ pc[w] = "head" /\ bg.error
  /\ Leave(pc, 1, "error")
  /\ UNCHANGED <<group, mem, imm, logfile, versions, bg, disk, phase, unread, restarts, failures>>

HaveRoom(w) ==
  /\ pc[w] = "head" /\ ~bg.error /\ ~Full(w)
  /\ Proceed(w)
  /\ UNCHANGED <<mem, imm, logfile, versions, bg, disk, phase, unread, restarts, failures>>

Sleep(w) ==
  /\ pc[w] = "head" /\ ~bg.error /\ Full(w) /\ MustWait
  /\ pc' = [pc EXCEPT ![w] = "asleep"]
  /\ UNCHANGED <<queue, group, mem, imm, logfile, versions, bg, disk, phase, unread, restarts, failures>>

(* A new log and a new memtable; the old one is for the background. *)
Switch(w) ==
  /\ pc[w] = "head" /\ ~bg.error /\ Full(w) /\ ~MustWait
  /\ logfile' = versions.next
  /\ versions' = [versions EXCEPT !.next = @ + 1]
  /\ disk' = [disk EXCEPT !.logs = [n \in DOMAIN @ \union {versions.next} |->
                                      IF n = versions.next THEN <<>> ELSE @[n]]]
  /\ imm' = mem /\ mem' = Nothing
  /\ bg' = Scheduled(bg, mem, versions)
  /\ Proceed(w)
  /\ UNCHANGED <<phase, unread, restarts, failures>>

(* The log cannot be made: its number is given back, the call fails. *)
NoNewLog(w) ==
  /\ pc[w] = "head" /\ ~bg.error /\ Full(w) /\ ~MustWait
  /\ failures < MaxFailures /\ failures' = failures + 1
  /\ Leave(pc, 1, "error")
  /\ UNCHANGED <<group, mem, imm, logfile, versions, bg, disk, phase, unread, restarts>>

(* log_->AddRecord, without the mutex. *)
LogRecord(w) ==
  /\ pc[w] = "logging"
  /\ disk' = [disk EXCEPT !.logs[logfile] = Append(@, Record(group.batch))]
  /\ pc' = [pc EXCEPT ![w] = IF w \in Sync THEN "syncing" ELSE "applying"]
  /\ UNCHANGED <<queue, group, mem, imm, logfile, versions, bg, phase, unread, restarts, failures>>

LogRecordFails(w) ==
  /\ pc[w] = "logging"
  /\ failures < MaxFailures /\ failures' = failures + 1
  /\ disk' = [disk EXCEPT !.logs[logfile] = Append(@, Record(Nothing))]
  /\ pc' = [pc EXCEPT ![w] = "failing"]
  /\ UNCHANGED <<queue, group, mem, imm, logfile, versions, bg, phase, unread, restarts>>

(* logfile_->Sync(): all of the file, the records of others included. *)
SyncLog(w) ==
  /\ pc[w] = "syncing"
  /\ disk' = [disk EXCEPT !.logs[logfile] =
                [i \in DOMAIN @ |-> [@[i] EXCEPT !.synced = TRUE]]]
  /\ pc' = [pc EXCEPT ![w] = "applying"]
  /\ UNCHANGED <<queue, group, mem, imm, logfile, versions, bg, phase, unread, restarts, failures>>

SyncLogFails(w) ==
  /\ pc[w] = "syncing"
  /\ failures < MaxFailures /\ failures' = failures + 1
  /\ pc' = [pc EXCEPT ![w] = "unsure"]
  /\ UNCHANGED <<queue, group, mem, imm, logfile, versions, bg, disk, phase, unread, restarts>>

(* The group gets into the memtable, if it is in the log, and its answer.  *)
(* Its sequence numbers are used up even if it is not; a log whose sync    *)
(* failed stops all writing.                                               *)
Finish(w) ==
  /\ pc[w] \in {"applying", "failing", "unsure"}
  /\ LET ok == pc[w] = "applying"
         p == IF pc[w] = "unsure" /\ ~bg.error THEN Woken(pc) ELSE pc
     IN /\ Leave(p, group.size, IF ok THEN "ok" ELSE "error")
        /\ mem' = IF ok THEN Entries({mem, group.batch}) ELSE mem
  /\ bg' = [bg EXCEPT !.error = @ \/ pc[w] = "unsure"]
  /\ versions' = [versions EXCEPT !.last = @ + Cardinality(DOMAIN group.batch)]
  /\ group' = [size |-> 0, batch |-> Nothing]
  /\ UNCHANGED <<imm, logfile, disk, phase, unread, restarts, failures>>

(* TEST_CompactMemTable waits until no memtable is left to flush. *)
AwaitFlush(w) ==
  /\ pc[w] = "await"
  /\ pc' = [pc EXCEPT ![w] = IF imm = None THEN "ok" ELSE IF bg.error THEN "error" ELSE "flushing"]
  /\ UNCHANGED <<queue, group, mem, imm, logfile, versions, bg, disk, phase, unread, restarts, failures>>

WriterStep(w) ==
  \/ YieldError(w) \/ HaveRoom(w) \/ Sleep(w) \/ Switch(w) \/ LogRecord(w) \/ SyncLog(w)
  \/ Finish(w) \/ AwaitFlush(w)
  \/ NoNewLog(w) \/ LogRecordFails(w) \/ SyncLogFails(w)

----------------------------------------------------------------------------
(* The background thread: BackgroundCall, one call at a time. *)

InCall == bg.flush # "none" \/ bg.merge # "none"

(* What an edit makes of a version. *)
Edited(v, e) ==
  [v EXCEPT !.l0 = (@ \ e.gone) \union e.add0, !.l1 = (@ \ e.gone) \union e.add1, !.log = e.log]

(* Slip: the edit is written without SetNextFile. *)
WrittenUnnumbered(manifest, e) == [Edited(manifest, e) EXCEPT !.last = e.last]

(* What it makes of the manifest: the counters go with it. *)
Written(manifest, e) == [Edited(manifest, e) EXCEPT !.next = e.next, !.last = e.last]

(* BackgroundCall has nothing to do once shutting_down_ or bg_error_ is set. *)
Return ==
  /\ bg.scheduled /\ ~InCall
  /\ phase = "closing" \/ bg.error
  /\ CallEnds(bg, imm, versions)
  /\ UNCHANGED <<queue, group, mem, imm, logfile, versions, disk, phase, unread, restarts, failures>>

(* CompactMemTable, from BackgroundCompaction or, for a memtable that      *)
(* fills while tables are merged, from the loop of DoCompactionWork, which *)
(* looks neither at bg_error_ before nor at the outcome after it.          *)
BeginFlush ==
  /\ phase = "open" /\ imm # None /\ bg.flush = "none"
  /\ \/ bg.scheduled /\ bg.merge = "none" /\ ~bg.error
     \/ bg.merge \in {"scan", "output"}
  /\ bg' = [bg EXCEPT !.flush = "build", !.table = versions.next]
  /\ versions' = [versions EXCEPT !.next = @ + 1]
  /\ UNCHANGED <<pc, queue, group, mem, imm, logfile, disk, phase, unread, restarts, failures>>

(* The flush is over: back to the merge it interrupted, or the end. *)
FlushEnds(b, i, v) ==
  IF bg.merge = "none" THEN CallEnds(b, i, v)
  ELSE bg' = [b EXCEPT !.flush = "none"] /\ pc' = Woken(pc)

FlushFailed == FlushEnds([bg EXCEPT !.error = TRUE], imm, versions)

(* BuildTable wrote and synced the table; an empty memtable makes none. *)
BuildTable ==
  /\ bg.flush = "build"
  /\ LET new == IF imm = Nothing THEN {} ELSE {bg.table}
     IN /\ disk' = [disk EXCEPT !.tables = [t \in DOMAIN @ \union new |->
                                              IF t \in new THEN imm ELSE @[t]]]
        /\ IF phase = "closing" THEN FlushFailed
           ELSE /\ bg' = [bg EXCEPT !.flush = "write",
                                    !.edit = Edit(new, {}, {}, logfile, versions)]
                /\ UNCHANGED pc
  /\ UNCHANGED <<queue, group, mem, imm, logfile, versions, phase, unread, restarts, failures>>

BuildTableFails ==
  /\ bg.flush = "build"
  /\ failures < MaxFailures /\ failures' = failures + 1
  /\ FlushFailed
  /\ UNCHANGED <<queue, group, mem, imm, logfile, versions, disk, phase, unread, restarts>>

InstallFlush ==
  /\ bg.flush = "install"
  /\ LET v == Edited(versions, bg.edit)
         b == [bg EXCEPT !.flush = "none"]
     IN /\ versions' = v
        /\ disk' = Cleaned(disk, v, b)
        /\ FlushEnds(b, None, v)
  /\ imm' = None
  /\ UNCHANGED <<queue, group, mem, logfile, phase, unread, restarts, failures>>

(* All of level 0, whose tables overlap, and what is below. *)
MergeInputs == versions.l0 \union versions.l1

(* Merge level 0 into level 1; a lone table with nothing below it is only  *)
(* moved.                                                                  *)
BeginMerge ==
  /\ phase = "open" /\ bg.scheduled /\ ~InCall /\ ~bg.error
  /\ imm = None /\ Cardinality(versions.l0) >= L0Trigger
  /\ bg' = IF Cardinality(versions.l0) = 1 /\ versions.l1 = {}
           THEN [bg EXCEPT !.merge = "write", !.output = 0,
                           !.edit = Edit({}, versions.l0, versions.l0, versions.log, versions)]
           ELSE [bg EXCEPT !.merge = "scan", !.inputs = MergeInputs]
  /\ UNCHANGED <<pc, queue, group, mem, imm, logfile, versions, disk, phase, unread, restarts, failures>>

(* The file of the output is there from now on; nobody reads it before it  *)
(* is finished.                                                            *)
OpenOutput ==
  /\ bg.merge = "scan" /\ bg.flush = "none" /\ phase = "open"
  /\ disk' = [disk EXCEPT !.tables = [t \in DOMAIN @ \union {versions.next} |->
                                        IF t = versions.next THEN Content(bg.inputs) ELSE @[t]]]
  /\ bg' = [bg EXCEPT !.merge = "output", !.output = versions.next]
  /\ versions' = [versions EXCEPT !.next = @ + 1]
  /\ UNCHANGED <<pc, queue, group, mem, imm, logfile, phase, unread, restarts, failures>>

(* The output is written and synced, and InstallCompactionResults begins. *)
FinishOutput ==
  /\ bg.merge = "output" /\ bg.flush = "none" /\ phase = "open"
  /\ bg' = [bg EXCEPT !.merge = "write",
                      !.edit = Edit({}, {bg.output}, bg.inputs, versions.log, versions)]
  /\ UNCHANGED <<pc, queue, group, mem, imm, logfile, versions, disk, phase, unread, restarts, failures>>

MergeFailed == CallEnds([bg EXCEPT !.error = TRUE], imm, versions)

MergeFails ==
  /\ bg.merge \in {"scan", "output"} /\ bg.flush = "none"
  /\ \/ phase = "closing" /\ UNCHANGED failures
     \/ failures < MaxFailures /\ failures' = failures + 1
  /\ MergeFailed
  /\ UNCHANGED <<queue, group, mem, imm, logfile, versions, disk, phase, unread, restarts>>

InstallMerge ==
  /\ bg.merge = "install"
  /\ LET v == Edited(versions, bg.edit)
     IN /\ versions' = v
        /\ disk' = IF bg.output = 0 THEN disk ELSE Cleaned(disk, v, [bg EXCEPT !.merge = "none"])
        /\ CallEnds(bg, imm, v)
  /\ UNCHANGED <<queue, group, mem, imm, logfile, phase, unread, restarts, failures>>

(* LogAndApply writes the edit to the manifest, without the mutex: for a   *)
(* flush, a merge or the recovery.                                         *)
WriteManifest ==
  /\ bg.flush = "write" \/ bg.merge = "write" \/ phase = "recovered"
  /\ disk' = [disk EXCEPT !.manifest = Written(@, bg.edit)]
  /\ bg' = [bg EXCEPT !.flush = IF @ = "write" THEN "install" ELSE @,
                      !.merge = IF @ = "write" THEN "install" ELSE @]
  /\ phase' = IF phase = "recovered" THEN "saved" ELSE phase
  /\ UNCHANGED <<pc, queue, group, mem, imm, logfile, versions, unread, restarts, failures>>

(* The write fails, or only its sync: the record may be there or not. *)
WriteManifestFails ==
  /\ bg.flush = "write" \/ bg.merge = "write"
  /\ failures < MaxFailures /\ failures' = failures + 1
  /\ \/ UNCHANGED disk
     \/ disk' = [disk EXCEPT !.manifest = Written(@, bg.edit)]
  /\ IF bg.flush = "write" THEN FlushFailed ELSE MergeFailed
  /\ UNCHANGED <<queue, group, mem, imm, logfile, versions, phase, unread, restarts>>

----------------------------------------------------------------------------
(* The end of a process, and the next one. *)

(* ~DBImpl, called when no call is under way: waits for the background. *)
Close ==
  /\ phase = "open" /\ queue = <<>> /\ \A w \in Writer : pc[w] \notin {"await", "flushing"}
  /\ restarts < MaxRestarts /\ restarts' = restarts + 1
  /\ phase' = "closing"
  /\ UNCHANGED <<pc, queue, group, mem, imm, logfile, versions, bg, disk, unread, failures>>

(* What a process that ends forgets.  versions keeps nothing but its shape. *)
Forget ==
  /\ pc' = [w \in Writer |-> IF pc[w] \in {"idle", "ok", "error", "gone"} THEN pc[w] ELSE "gone"]
  /\ queue' = <<>> /\ group' = [size |-> 0, batch |-> Nothing]
  /\ mem' = Nothing /\ imm' = None /\ logfile' = 0 /\ bg' = Idle
  /\ versions' = [last |-> 0, next |-> 0, log |-> 0, l0 |-> {}, l1 |-> {}]
  /\ unread' = {} /\ phase' = "down"

(* What a reader may find of a log: all of its records up to the first     *)
(* flawed one, and any of those behind it.                                 *)
Readable(log) ==
  {[i \in found |-> log[i]] : found \in {s \in SUBSET Sound(log) : Intact(log) \subseteq s}}

(* Of the records that are not synced, power loss leaves the first ones. *)
Remains(log) ==
  LET firm == {i \in DOMAIN log : log[i].synced}
      beginnings == {s \in SUBSET DOMAIN log : \A i \in s, j \in DOMAIN log : j <= i => j \in s}
  IN {[i \in kept |-> [log[i] EXCEPT !.synced = TRUE]] : kept \in {s \in beginnings : firm \subseteq s}}

(* Which records will be found is settled here, for every log to be read. *)
Survive(outcomes) ==
  \E found \in [DOMAIN outcomes -> UNION {outcomes[n] : n \in DOMAIN outcomes}] :
    /\ \A n \in DOMAIN outcomes : found[n] \in outcomes[n]
    /\ disk' = [disk EXCEPT !.logs = [n \in DOMAIN @ |-> IF n \in DOMAIN found THEN found[n] ELSE @[n]]]

ToRead == LogsFrom(disk.manifest.log)

ProcessEnds == Survive([n \in ToRead |-> Readable(disk.logs[n])])

PowerFails == Survive([n \in ToRead |-> UNION {Readable(l) : l \in Remains(disk.logs[n])}])

Closed ==
  /\ phase = "closing" /\ ~bg.scheduled
  /\ ProcessEnds
  /\ Forget
  /\ UNCHANGED <<restarts, failures>>

Crash ==
  /\ phase # "down" /\ restarts < MaxRestarts /\ restarts' = restarts + 1
  /\ ProcessEnds \/ PowerFails
  /\ Forget
  /\ UNCHANGED failures

(* MarkFileNumberUsed. *)
Marked(next, n) == Max({next, n + 1})

(* DB::Open and DBImpl::Recover: the versions are those of the manifest.   *)
Recover ==
  /\ phase = "down"
  /\ versions' = [disk.manifest EXCEPT !.next = @ + 1]
  /\ bg' = [bg EXCEPT !.edit = Edit({}, {}, {}, versions'.log, versions')]
  /\ unread' = ToRead
  /\ phase' = "recovering"
  /\ UNCHANGED <<pc, queue, group, mem, imm, logfile, disk, restarts, failures>>

(* The logs are replayed in their order, and each that has records becomes *)
(* a table at level 0.                                                     *)
RecoverLogFile(n) ==
  /\ phase = "recovering" /\ n \in unread /\ \A m \in unread : n <= m
  /\ LET found == Entries({disk.logs[n][i].batch : i \in DOMAIN disk.logs[n]})
         t == versions.next
     IN IF found = Nothing
        THEN versions' = [versions EXCEPT !.next = Marked(@, n)] /\ UNCHANGED <<bg, disk>>
        ELSE /\ disk' = [disk EXCEPT !.tables = [u \in DOMAIN @ \union {t} |-> IF u = t THEN found ELSE @[u]]]
             /\ bg' = [bg EXCEPT !.edit.add0 = @ \union {t}]
             /\ versions' = [versions EXCEPT !.next = Marked(@ + 1, n), !.last = Max({@} \union Seqs(found))]
  /\ unread' = unread \ {n}
  /\ UNCHANGED <<pc, queue, group, mem, imm, logfile, phase, restarts, failures>>

(* The recovered database has a new log. *)
Recovered ==
  /\ phase = "recovering" /\ unread = {}
  /\ logfile' = versions.next
  /\ versions' = [versions EXCEPT !.next = @ + 1]
  /\ bg' = [bg EXCEPT !.edit = Edit(@.add0, {}, {}, versions.next, versions')]
  /\ disk' = [disk EXCEPT !.logs = [n \in DOMAIN @ \union {versions.next} |->
                                      IF n = versions.next THEN <<>> ELSE @[n]]]
  /\ phase' = "recovered"
  /\ UNCHANGED <<pc, queue, group, mem, imm, unread, restarts, failures>>

Opened ==
  /\ phase = "saved"
  /\ versions' = Edited(versions, bg.edit)
  /\ disk' = Cleaned(disk, versions', Idle)
  /\ bg' = Scheduled(Idle, None, versions')
  /\ phase' = "open"
  /\ UNCHANGED <<pc, queue, group, mem, imm, logfile, unread, restarts, failures>>

----------------------------------------------------------------------------
(* A new database: NewDB takes the numbers 1 and 2, Open the log 3. *)
Init ==
  /\ pc = [w \in Writer |-> "idle"] /\ queue = <<>>
  /\ group = [size |-> 0, batch |-> Nothing]
  /\ mem = Nothing /\ imm = None /\ logfile = 3
  /\ versions = [last |-> 0, next |-> 4, log |-> 3, l0 |-> {}, l1 |-> {}]
  /\ disk = [logs |-> [n \in {3} |-> <<>>], tables |-> Nothing, manifest |-> versions]
  /\ bg = Idle /\ phase = "open" /\ unread = {} /\ restarts = 0 /\ failures = 0

Background ==
  \/ Return \/ BeginFlush \/ BuildTable \/ InstallFlush
  \/ BeginMerge \/ OpenOutput \/ FinishOutput \/ InstallMerge
  \/ WriteManifest
  \/ BuildTableFails \/ MergeFails \/ WriteManifestFails

Next ==
  \/ \E w \in Writer : Call(w) \/ WriterStep(w)
  \/ Background \/ Close \/ Closed \/ Crash \/ Recover \/ Recovered \/ Opened
  \/ \E n \in unread : RecoverLogFile(n)

Spec == Init /\ [][Next]_vars

----------------------------------------------------------------------------
Numbers == 0..(versions.next - 1)

Batch(f) == DOMAIN f \subseteq Writer \ Compact /\ Seqs(f) \subseteq Nat \ {0}

(* Every part of the state has its shape. *)
TypeOK ==
  /\ pc \in [Writer -> {"idle", "parked", "head", "asleep", "logging", "syncing", "applying",
                        "failing", "unsure", "await", "flushing", "ok", "error", "gone"}]
  /\ queue \in Seq(Writer) /\ group.size \in 0..Len(queue) /\ Batch(group.batch)
  /\ Batch(mem) /\ (imm = None \/ Batch(imm))
  /\ \A t \in DOMAIN disk.tables : Batch(disk.tables[t])
  /\ \A n \in DOMAIN disk.logs : \A i \in DOMAIN disk.logs[n] : Batch(disk.logs[n][i].batch)
  /\ phase \in {"open", "closing", "down", "recovering", "recovered", "saved"}
  /\ unread \subseteq DOMAIN disk.logs

(* No file that is needed is thrown away, whatever failed before: every    *)
(* table of the version in use, every input of a merge, the log being      *)
(* written, and every table the manifest names (DBImpl::Recover refuses to *)
(* open a database that misses one).                                       *)
NothingMissing ==
  /\ Tables \union (IF bg.merge = "none" THEN {} ELSE bg.inputs) \subseteq DOMAIN disk.tables
  /\ phase \in {"open", "closing"} => logfile \in DOMAIN disk.logs
  /\ disk.manifest.l0 \union disk.manifest.l1 \subseteq DOMAIN disk.tables

(* No number is used twice: the next one is behind those of all the files  *)
(* that are in use or will be read (the assertions of LogAndApply among    *)
(* them), and behind those the manifest tells the next process.            *)
NumbersFresh ==
  /\ phase \in {"open", "closing", "recovered", "saved"} =>
       /\ Tables \union {logfile, versions.log} \union LogsFrom(versions.log) \subseteq Numbers
       /\ Pending(bg) \subseteq Numbers \ Tables
       /\ versions.log <= logfile
       /\ disk.manifest.next <= versions.next
  /\ disk.manifest.l0 \union disk.manifest.l1 \subseteq 0..(disk.manifest.next - 1)

(* No signal comes too early: whoever sleeps until the background is done  *)
(* has a call of it coming, which ends with SignalAll, the head of the     *)
(* queue is never asleep on its own condition variable, and a writer that  *)
(* waits for its turn has one.                                             *)
NobodyForgotten ==
  /\ (\E w \in Writer : pc[w] \in {"asleep", "flushing"}) => bg.scheduled
  /\ queue # <<>> => pc[queue[1]] # "parked"
  /\ \A w \in Writer : pc[w] = "parked" => \E i \in DOMAIN queue : queue[i] = w

----------------------------------------------------------------------------
(* LevelDBWrites implements DurableStore. *)

Saved == Content(disk.manifest.l0 \union disk.manifest.l1)

Logged(usable(_, _)) ==
  Entries(UNION {{disk.logs[n][i].batch : i \in {j \in Intact(disk.logs[n]) : usable(n, j)}}
                   : n \in LogsFrom(disk.manifest.log)})

Safe == DOMAIN Entries({Saved, Logged(LAMBDA n, i : TRUE)})

storeBar ==
  IF phase \in {"open", "closing"}
  THEN Entries({Content(Tables), mem, IF imm = None THEN Nothing ELSE imm})
  ELSE Entries({Saved, Logged(LAMBDA n, i : TRUE)})

answerBar ==
  [w \in Writer \ Compact |-> CASE pc[w] = "idle" -> "none"
                                [] pc[w] \in {"ok", "error"} -> pc[w]
                                [] pc[w] = "gone" -> "lost"
                                [] OTHER -> "waiting"]

durableBar ==
  DOMAIN storeBar \intersect
    DOMAIN Entries({Saved, Logged(LAMBDA n, i : disk.logs[n][i].synced)})

Store == INSTANCE DurableStore WITH
           Writer <- Writer \ Compact, Synced <- Sync, answer <- answerBar, store <- storeBar,
           durable <- durableBar, exposed <- DOMAIN storeBar \ Safe

(* What the database promises its writers holds of all this machinery.     *)
Promise == Store!DSpec
=============================================================================
