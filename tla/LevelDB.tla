------------------------------ MODULE LevelDB ------------------------------
(***************************************************************************)
(* leveldb (db/db_impl.cc), the store under the persistence of             *)
(* FirebaseDatabase, as the threads that use it see it: writers that queue *)
(* up and are served in groups by the one in front, readers and snapshots, *)
(* the background thread that turns memtables into tables and merges       *)
(* tables, crashes of the process and of the machine, recovery, and errors *)
(* of the disk.  Between two actions mutex_ is free, or its holder has     *)
(* released it around slow work; only "cleanup" keeps it.                  *)
(***************************************************************************)
EXTENDS VersionSet

CONSTANTS
    Writers, Readers, Snapshots,   \* threads, and handles of snapshots
    Earlier,                \* the batches of an earlier session
    Batches,                \* what a writer may write, with its WriteOptions
    L0StopWritesTrigger,    \* kL0_StopWritesTrigger
    WriteBufferSize,        \* write_buffer_size, in entries
    MaxGroupSize,           \* limit of BuildBatchGroup, in entries
    MaxEvents               \* bound: writes, reads, snapshots, crashes and errors

ASSUME LevelDBAssumption ==
    /\ Earlier \in Seq(Seq([key : Keys, val : Nat]) \ {<<>>})
    /\ \A b \in Batches : /\ b.ops \in Seq([key : Keys, put : BOOLEAN]) \ {<<>>}
                          /\ b.sync \in BOOLEAN
    /\ L0StopWritesTrigger \in Nat /\ L0CompactionTrigger <= L0StopWritesTrigger
    /\ {WriteBufferSize, MaxGroupSize, MaxEvents} \subseteq Nat

VARIABLES
    disk,      \* table files, log files with what is synced of them, manifest
    db,        \* what DBImpl and VersionSet hold in memory
    queue,     \* writers_, the first one is served
    writer,    \* per thread: where it is in Write, its batch
    group,     \* the batches the first writer writes, or failed to
    reader,    \* per thread: what its Get or iterator refers to
    bg,        \* the background thread
    history,   \* the batches that make up the contents, in order
    events     \* how many of the bounded events there have been

vars == <<disk, db, queue, writer, group, reader, bg, history, events>>

NoSnapshot == -1
Idle == [pc |-> "idle", ops |-> <<>>, sync |-> FALSE]
NoGroup == [batches |-> <<>>, seq |-> 0, log |-> 0, failed |-> FALSE]
NotReading == [on |-> FALSE, seq |-> 0, mem |-> {}, version |-> NoFiles]
NoEdit == [added |-> {}, deleted |-> {}, log |-> 0, nextFile |-> 0, lastSeq |-> 0,
           pointers |-> <<>>]
NoCompaction == [level |-> -1, version |-> NoFiles]
BgIdle == [pc |-> "idle", c |-> NoCompaction, kind |-> "flush", num |-> 0,
           todo |-> <<>>, made |-> <<>>, edit |-> NoEdit]
NoReplay == [logs |-> {}, pos |-> 0, mem |-> {}]
Closed == [up |-> "closed", replay |-> NoReplay, lastSeq |-> 0, nextFile |-> 0,
           log |-> 0, imm |-> {}, memtables |-> <<>>, logNumber |-> 0, current |-> NoFiles,
           pointers |-> <<>>, seek |-> {}, pending |-> {},
           snapshots |-> [s \in Snapshots |-> NoSnapshot],
           bgError |-> FALSE, scheduled |-> FALSE,
           manual |-> FALSE]     \* manual_compaction_ is set: module CompactRange

EmptyLog == [records |-> <<>>, synced |-> 0]
BeforeAll == [key |-> -1, seq |-> 0]     \* an empty compact_pointer_

\* As NewDB leaves the disk, and the first Open the file numbers.
NewDisk ==
    [tables |-> <<>>, logs |-> <<>>,
     manifest |-> [version |-> NoFiles, log |-> 0, flushed |-> 0, nextFile |-> 4,
                   lastSeq |-> 0, pointers |-> [l \in Levels |-> BeforeAll]]]

\* A session that wrote ops, went on to another log, and flushed the memtable.
Flushed(d, ops) ==
    LET m == d.manifest
        E == InsertInto(ops, m.lastSeq + 1)
        f == Meta(m.nextFile + 1, E)
        level == PickLevelForMemTableOutput(m.version, f.smallest.key, f.largest.key)
    IN  [tables |-> With(d.tables, f.num, E), logs |-> With(<<>>, m.nextFile, EmptyLog),
         manifest |-> [m EXCEPT !.version[level] = @ \cup {f}, !.log = m.nextFile,
                          !.flushed = m.nextFile, !.nextFile = @ + 2, !.lastSeq = @ + Len(ops)]]

\* What the first i of the earlier sessions left.
LeftBy[i \in 0..Len(Earlier)] ==
    IF i = 0 THEN NewDisk ELSE Flushed(LeftBy[i - 1], Earlier[i])

Init ==
    /\ disk = LeftBy[Len(Earlier)]
    /\ history = [i \in DOMAIN Earlier |->
                     [ops |-> Earlier[i], sync |-> TRUE, seq |-> 0, log |-> 0]]
    /\ db = Closed /\ queue = <<>> /\ group = NoGroup /\ bg = BgIdle
    /\ writer = [w \in Writers |-> Idle]
    /\ reader = [r \in Readers |-> NotReading]
    /\ events = 0

Open == db.up = "open" /\ bg.pc # "cleanup"     \* a thread can take mutex_
Event == events < MaxEvents /\ events' = events + 1

\* (mutant) a full memtable is no reason to schedule
ScheduledForTablesOnly(d) ==
    [d EXCEPT !.scheduled = @ \/ (~d.bgError /\ (SizeCompaction(d.current) \/ d.seek # {}))]

\* MaybeScheduleCompaction, with NeedsCompaction.
MaybeSchedule(d) ==
    [d EXCEPT !.scheduled =
        @ \/ (~d.bgError /\ (\/ d.imm # {} \/ d.manual
                              \/ SizeCompaction(d.current) \/ d.seek # {}))]

\* background_work_finished_signal_.SignalAll()
Wake(ws) == [w \in Writers |-> IF ws[w].pc = "waiting" THEN [ws[w] EXCEPT !.pc = "queued"]
                               ELSE ws[w]]

-----------------------------------------------------------------------------
\* Write: the writer joins the queue.  Every batch writes a value of its own.
Write(w, batch) ==
    /\ Open /\ writer[w].pc = "idle" /\ Event
    /\ writer' = [writer EXCEPT ![w] = [pc |-> "queued", sync |-> batch.sync,
           ops |-> [i \in DOMAIN batch.ops |->
                      [key |-> batch.ops[i].key,
                       val |-> IF batch.ops[i].put THEN events' ELSE Deletion]]]]
    /\ queue' = Append(queue, w)
    /\ UNCHANGED <<disk, db, group, reader, bg, history>>

\* (mutant) not only the first writer of the queue goes on
AnyInQueue(w, pc) == writer[w].pc = pc

AtFront(w, pc) == queue # <<>> /\ Head(queue) = w /\ writer[w].pc = pc
HasRoom == Cardinality(db.memtables[db.log]) <= WriteBufferSize
MustWait == db.imm # {} \/ Cardinality(db.current[0]) >= L0StopWritesTrigger

\* MakeRoomForWrite waits for the background thread.
WaitForRoom(w) ==
    /\ Open /\ AtFront(w, "queued") /\ ~db.bgError /\ ~HasRoom /\ MustWait
    /\ writer' = [writer EXCEPT ![w].pc = "waiting"]
    /\ UNCHANGED <<disk, db, queue, group, reader, bg, history, events>>

\* MakeRoomForWrite fails: an earlier background error, or no new log file.
NoRoom(w) ==
    /\ Open /\ AtFront(w, "queued")
    /\ \/ db.bgError /\ UNCHANGED events
       \/ ~db.bgError /\ ~HasRoom /\ ~MustWait /\ Event
    /\ writer' = [writer EXCEPT ![w] = Idle]
    /\ queue' = Tail(queue)
    /\ UNCHANGED <<disk, db, group, reader, bg, history>>

\* (mutant) a write that asked for sync rides with one that did not
GroupIgnoringSync ==
    LET Size(n) == Len(FlattenSeq([i \in 1..n |-> writer[queue[i]].ops]))
    IN  Max({n \in 1..Len(queue) : n = 1 \/ Size(n) <= MaxGroupSize})

\* BuildBatchGroup: how many writers of the queue are served together.
GroupLength ==
    LET Size(n) == Len(FlattenSeq([i \in 1..n |-> writer[queue[i]].ops]))
        first == writer[queue[1]]
    IN  Max({n \in 1..Len(queue) : \A i \in 2..n :
                Size(i) <= MaxGroupSize /\ (writer[queue[i]].sync => first.sync)})

SwitchMemTable(d) ==
    MaybeSchedule([d EXCEPT !.nextFile = @ + 1, !.log = d.nextFile, !.imm = {d.log},
                            !.memtables = With(@, d.nextFile, {})])

\* Room is there, or is made by a new memtable and log; the batches are joined.
BeginWrite(w) ==
    LET d == IF HasRoom THEN db ELSE SwitchMemTable(db)
        n == GroupLength
        seqs == [i \in 1..n |-> db.lastSeq + 1
                    + Len(FlattenSeq([j \in 1..i - 1 |-> writer[queue[j]].ops]))]
    IN  /\ Open /\ AtFront(w, "queued") /\ ~db.bgError
        /\ HasRoom \/ ~MustWait
        /\ db' = d
        /\ disk' = [disk EXCEPT !.logs = IF HasRoom THEN @ ELSE With(@, d.log, EmptyLog)]
        /\ group' = [batches |-> [i \in 1..n |-> [ops |-> writer[queue[i]].ops,
                         sync |-> writer[queue[i]].sync, seq |-> seqs[i], log |-> d.log]],
                     seq |-> db.lastSeq + 1, log |-> d.log, failed |-> FALSE]
        /\ writer' = [writer EXCEPT ![w].pc = "append"]
        /\ UNCHANGED <<queue, reader, bg, history, events>>

\* The group as one record is appended to the log, synced if the first writer
\* asked for it, and inserted into the memtable, all without mutex_.
GroupOps == FlattenSeq([i \in DOMAIN group.batches |-> group.batches[i].ops])

AppendToLog(w) ==
    /\ AtFront(w, "append")
    /\ disk' = [disk EXCEPT !.logs[group.log].records =
                               Append(@, [seq |-> group.seq, ops |-> GroupOps])]
    /\ writer' = [writer EXCEPT ![w].pc = IF writer[w].sync THEN "sync" ELSE "insert"]
    /\ UNCHANGED <<db, queue, group, reader, bg, history, events>>

Sync(w) ==
    /\ AtFront(w, "sync")
    /\ disk' = [disk EXCEPT !.logs[group.log].synced = Len(disk.logs[group.log].records)]
    /\ writer' = [writer EXCEPT ![w].pc = "insert"]
    /\ UNCHANGED <<db, queue, group, reader, bg, history, events>>

SyncFails(w) ==
    /\ AtFront(w, "sync") /\ Event
    /\ group' = [group EXCEPT !.failed = TRUE]
    /\ writer' = [writer EXCEPT ![w].pc = "publish"]
    /\ UNCHANGED <<disk, db, queue, reader, bg, history>>

InsertIntoMemTable(w) ==
    /\ AtFront(w, "insert")
    /\ db' = [db EXCEPT !.memtables[group.log] = @ \cup InsertInto(GroupOps, group.seq)]
    /\ writer' = [writer EXCEPT ![w].pc = "publish"]
    /\ UNCHANGED <<disk, queue, group, reader, bg, history, events>>

\* The sequence number is advanced, also after an error; all writers of the group
\* return; an error of Sync makes every later write fail.
Publish(w) ==
    LET n == Len(group.batches)
    IN  /\ Open /\ AtFront(w, "publish")
        /\ db' = [db EXCEPT !.lastSeq = @ + Len(GroupOps), !.bgError = @ \/ group.failed]
        /\ writer' = [v \in Writers |-> IF \E i \in 1..n : queue[i] = v THEN Idle ELSE writer[v]]
        /\ queue' = SubSeq(queue, n + 1, Len(queue))
        /\ history' = IF group.failed THEN history ELSE history \o group.batches
        /\ group' = IF group.failed THEN group ELSE NoGroup
        /\ UNCHANGED <<disk, reader, bg, events>>

-----------------------------------------------------------------------------
Taken == {db.snapshots[s] : s \in Snapshots} \ {NoSnapshot}

GetSnapshot(s) ==
    /\ Open /\ db.snapshots[s] = NoSnapshot
    /\ db' = [db EXCEPT !.snapshots[s] = db.lastSeq]
    /\ Event
    /\ UNCHANGED <<disk, queue, writer, group, reader, bg, history>>

ReleaseSnapshot(s) ==
    /\ Open /\ db.snapshots[s] # NoSnapshot
    /\ db' = [db EXCEPT !.snapshots[s] = NoSnapshot]
    /\ UNCHANGED <<disk, queue, writer, group, reader, bg, history, events>>

\* Get and NewIterator: refer to the memtables and the version, then unlock.
BeginRead(r) ==
    /\ Open /\ ~reader[r].on
    /\ \E seq \in {db.lastSeq} \cup Taken :
           reader' = [reader EXCEPT ![r] = [on |-> TRUE, seq |-> seq,
                          mem |-> {db.log} \cup db.imm, version |-> db.current]]
    /\ Event
    /\ UNCHANGED <<disk, db, queue, writer, group, bg, history>>

\* Get: the memtable, the immutable one, then the version.
GetAt(mem, v, k, s) ==
    LET hits == {m \in mem : Has(db.memtables[m], k, s)}
    IN  IF hits # {} THEN Lookup(db.memtables[Max(hits)], k, s)
        ELSE TableGet(v, disk.tables, k, s)

\* The read returns.  UpdateStats: a file that was read in vain before another
\* may have been one seek too often, and is compacted if its version is current.
EndRead(r) ==
    /\ Open /\ reader[r].on
    /\ \/ UNCHANGED db
       \/ \E k \in Keys :
             /\ \A m \in reader[r].mem : ~Has(db.memtables[m], k, reader[r].seq)
             /\ db.seek = {} /\ reader[r].version = db.current
             /\ SeekCharge(db.current, disk.tables, k, reader[r].seq) # {}
             /\ db' = MaybeSchedule([db EXCEPT
                        !.seek = SeekCharge(db.current, disk.tables, k, reader[r].seq)])
    /\ reader' = [reader EXCEPT ![r] = NotReading]
    /\ UNCHANGED <<disk, queue, writer, group, bg, history, events>>

-----------------------------------------------------------------------------
\* The end of BackgroundCall; the background thread goes back to its queue.
EndBackground(d) ==
    /\ bg' = BgIdle
    /\ db' = MaybeSchedule([d EXCEPT !.scheduled = FALSE])
    /\ writer' = Wake(writer)

\* (mutant) an edit that does not tell which file numbers are in use
EditWithoutNextFile(added, deleted, log, pointers) ==
    [added |-> added, deleted |-> deleted, log |-> log, pointers |-> pointers,
     nextFile |-> disk.manifest.nextFile, lastSeq |-> db.lastSeq]

Edit(added, deleted, log, pointers) ==
    [added |-> added, deleted |-> deleted, log |-> log, pointers |-> pointers,
     nextFile |-> db.nextFile, lastSeq |-> db.lastSeq]

BackgroundAfterError ==
    /\ Open /\ db.scheduled /\ bg.pc = "idle" /\ db.bgError
    /\ EndBackground(db)
    /\ UNCHANGED <<disk, queue, group, reader, history, events>>

\* CompactMemTable, when the background thread starts or between two keys of a
\* compaction: WriteLevel0Table reserves a number and unlocks.
BeginCompactMemTable ==
    /\ Open /\ db.imm # {}
    /\ \/ bg.pc = "idle" /\ db.scheduled /\ ~db.bgError
       \/ bg.pc = "merge" /\ (bg.todo # <<>> \/ bg.made = <<>>)
    /\ bg' = [bg EXCEPT !.pc = "build", !.kind = "flush", !.num = db.nextFile]
    /\ db' = [db EXCEPT !.nextFile = @ + 1, !.pending = @ \cup {db.nextFile}]
    /\ UNCHANGED <<disk, queue, writer, group, reader, history, events>>

\* The edit of CompactMemTable: earlier logs are no longer needed.
FlushEdit(added) == Edit(added, {}, db.log, <<>>)

\* The table is built and synced; its level is picked; LogAndApply unlocks.
BuildTable ==
    LET E == UNION {db.memtables[m] : m \in db.imm}
        meta == Meta(bg.num, E)
        level == PickLevelForMemTableOutput(db.current, meta.smallest.key, meta.largest.key)
    IN  /\ Open /\ bg.pc = "build"
        /\ disk' = IF E = {} THEN disk ELSE [disk EXCEPT !.tables = With(@, bg.num, E)]
        /\ bg' = [bg EXCEPT !.pc = "log",
                            !.edit = FlushEdit(IF E = {} THEN {} ELSE {<<level, meta>>})]
        /\ db' = [db EXCEPT !.pending = @ \ {bg.num}]
        /\ UNCHANGED <<queue, writer, group, reader, history, events>>

\* The next compaction of that level starts after this one.
Pointer(c) == [l \in {c.level} |-> LargestKey(c.inputs0)]

\* BackgroundCompaction without a memtable: one file moves down a level as it is,
\* or files are merged, for which the oldest snapshot is looked up now.
BeginCompaction ==
    /\ Open /\ bg.pc = "idle" /\ db.scheduled /\ ~db.bgError /\ db.imm = {} /\ ~db.manual
    /\ \E p \in ToCompact(db.current, db.pointers, db.seek) :
          LET c == PickCompaction(db.current, p[1], p[2])
              E == UNION {disk.tables[f.num] : f \in c.inputs0 \cup c.inputs1}
          IN  /\ bg' = IF IsTrivialMove(c)
                       THEN [bg EXCEPT !.pc = "log", !.kind = "move",
                                !.edit = Edit({<<c.level + 1, f>> : f \in c.inputs0},
                                              {<<c.level, f.num>> : f \in c.inputs0},
                                              db.logNumber, Pointer(c))]
                       ELSE [bg EXCEPT !.pc = "merge", !.c = c,
                                !.todo = Outputs(c, E, IF Taken = {} THEN db.lastSeq
                                                       ELSE Min(Taken))]
              /\ db' = [db EXCEPT !.pointers = Overlay(@, Pointer(c))]
    /\ UNCHANGED <<disk, queue, writer, group, reader, history, events>>

\* DoCompactionWork writes one output file.
WriteOutput ==
    LET n == db.nextFile
    IN  /\ Open /\ bg.pc = "merge" /\ bg.todo # <<>>
        /\ disk' = [disk EXCEPT !.tables = With(@, n, Head(bg.todo))]
        /\ bg' = [bg EXCEPT !.todo = Tail(@), !.made = Append(@, Meta(n, Head(bg.todo)))]
        /\ db' = [db EXCEPT !.nextFile = n + 1, !.pending = @ \cup {n}]
        /\ UNCHANGED <<queue, writer, group, reader, history, events>>

\* InstallCompactionResults: the edit, before LogAndApply unlocks.
EndMerge ==
    LET c == bg.c
    IN  /\ Open /\ bg.pc = "merge" /\ bg.todo = <<>>
        /\ bg' = [bg EXCEPT !.pc = "log", !.kind = "merge", !.edit =
               Edit({<<c.level + 1, bg.made[i]>> : i \in DOMAIN bg.made},
                    {<<c.level, f.num>> : f \in c.inputs0}
                        \cup {<<c.level + 1, f.num>> : f \in c.inputs1},
                    db.logNumber, Pointer(c))]
        /\ UNCHANGED <<disk, db, queue, writer, group, reader, history, events>>

\* The manifest with one more edit.  flushed is not in the file: it tells below
\* which log every batch has come into a table.
Logged(m, edit) ==
    [version |-> Apply(m.version, edit), log |-> edit.log,
     flushed |-> Max({m.flushed, edit.log}), nextFile |-> edit.nextFile,
     lastSeq |-> edit.lastSeq, pointers |-> Overlay(m.pointers, edit.pointers)]

Unpend(d) == [d EXCEPT !.pending = @ \ {bg.made[i].num : i \in DOMAIN bg.made}]

\* The edit is in the manifest, and the new version becomes current.
InstallVersion ==
    LET d == [db EXCEPT !.current = Apply(@, bg.edit), !.logNumber = bg.edit.log, !.seek = {}]
    IN  /\ Open /\ bg.pc = "log"
        /\ disk' = [disk EXCEPT !.manifest = Logged(@, bg.edit)]
        /\ \/ bg.kind = "move" /\ EndBackground(d)
           \/ /\ bg.kind = "flush"
              /\ db' = [d EXCEPT !.imm = {}]
              /\ bg' = [bg EXCEPT !.pc = "cleanup"] /\ UNCHANGED writer
           \/ /\ bg.kind = "merge"
              /\ db' = Unpend(d)
              /\ bg' = [BgIdle EXCEPT !.pc = "cleanup", !.kind = "merge"] /\ UNCHANGED writer
        /\ UNCHANGED <<queue, group, reader, history, events>>

\* After CompactMemTable, a compaction that it interrupted goes on.
Resume(d) ==
    IF bg.kind = "flush" /\ bg.c # NoCompaction
    THEN bg' = [bg EXCEPT !.pc = "merge", !.num = 0, !.edit = NoEdit] /\ db' = d /\ writer' = Wake(writer)
    ELSE EndBackground(d)

\* A table cannot be written, or the manifest: then the edit may be in the file
\* or not.  RecordBackgroundError; what was written stays.
BackgroundError ==
    /\ Open /\ (bg.pc \in {"build", "log"} \/ (bg.pc = "merge" /\ bg.todo # <<>>))
    /\ Event
    /\ \/ UNCHANGED disk
       \/ bg.pc = "log" /\ disk' = [disk EXCEPT !.manifest = Logged(@, bg.edit)]
    /\ LET d == [db EXCEPT !.bgError = TRUE, !.pending = @ \ {bg.num}]
       IN  IF bg.pc = "merge" \/ bg.kind = "merge"
           THEN EndBackground(Unpend(d)) ELSE Resume(d)
    /\ UNCHANGED <<queue, group, reader, history>>

\* (mutant) files of versions that are only referred to by readers are dead
LiveForCurrent == db.pending \cup Numbers(db.current) \cup Numbers(bg.c.version)

\* The files of all versions still referred to.
LiveFiles ==
    db.pending \cup Numbers(db.current) \cup Numbers(bg.c.version)
        \cup UNION {Numbers(reader[r].version) : r \in Readers}

\* (mutant) the log that the version names is deleted too
LogsAfterNumber == {n \in DOMAIN disk.logs : n > db.logNumber}

LiveLogs == {n \in DOMAIN disk.logs : n >= db.logNumber}

\* DeleteObsoleteFiles, not after an error.
WithoutObsolete(d) ==
    [d EXCEPT !.tables = Restrict(@, DOMAIN @ \cap LiveFiles), !.logs = Restrict(@, LiveLogs)]

DeleteObsoleteFiles ==
    /\ bg.pc = "cleanup"
    /\ disk' = IF db.bgError THEN disk ELSE WithoutObsolete(disk)
    /\ Resume(db)
    /\ UNCHANGED <<queue, group, reader, history, events>>

-----------------------------------------------------------------------------
\* Whether a recovery will find a batch: it has come into a table, or is in a log.
Recoverable(b, d) ==
    \/ b.log < d.manifest.flushed
    \/ /\ b.log \in DOMAIN d.logs
       /\ \E r \in ToSet(d.logs[b.log].records) :
              r.seq <= b.seq /\ b.seq < r.seq + Len(r.ops)

\* Those of the batches, in their order.
Recovered(batches, d) ==
    LET Of[i \in 0..Len(batches)] ==
            IF i = 0 THEN <<>>
            ELSE IF Recoverable(batches[i], d) THEN Append(Of[i - 1], batches[i]) ELSE Of[i - 1]
    IN  Of[Len(batches)]

Unsynced == {n \in DOMAIN disk.logs : disk.logs[n].synced < Len(disk.logs[n].records)}

\* The process ends, or the machine: then what was not synced may be lost.
Crash ==
    /\ db.up # "closed" /\ Event
    /\ \/ UNCHANGED disk
       \/ \E left \in [Unsynced -> 0..MaxEvents] :
             /\ \A n \in Unsynced : left[n] \in disk.logs[n].synced..Len(disk.logs[n].records)
             /\ disk' = [disk EXCEPT !.logs =
                    Overlay(@, [n \in Unsynced |->
                        [records |-> SubSeq(disk.logs[n].records, 1, left[n]),
                         synced |-> left[n]]])]
    /\ history' = Recovered(history \o [i \in DOMAIN group.batches |->
                                [group.batches[i] EXCEPT !.sync = FALSE]], disk')
    /\ db' = Closed /\ queue' = <<>> /\ group' = NoGroup /\ bg' = BgIdle
    /\ writer' = [w \in Writers |-> Idle]
    /\ reader' = [r \in Readers |-> NotReading]

\* The logs a recovery replays: those the manifest does not pass over.
LogsToReplay(m) == {n \in DOMAIN disk.logs : n >= m.log}

\* DB::Open: the manifest is read, and the names of the logs.
Recover ==
    LET m == disk.manifest
    IN  /\ db.up = "closed" /\ Numbers(m.version) \subseteq DOMAIN disk.tables
        /\ db' = [Closed EXCEPT !.up = "replaying", !.lastSeq = m.lastSeq,
                    !.nextFile = m.nextFile + 1, !.logNumber = m.log, !.current = m.version,
                    !.pointers = m.pointers,
                    !.replay = [NoReplay EXCEPT !.logs = LogsToReplay(m)]]
        /\ UNCHANGED <<disk, queue, writer, group, reader, bg, history, events>>

\* RecoverLogFile, of the oldest log left: a record goes into a memtable, which
\* becomes a table of level 0 when it is full, and at the end of the log.
OldestLog == Min(db.replay.logs)
Replaying == db.up = "replaying" /\ db.replay.logs # {}

WriteReplayed(mem, d) ==
    /\ disk' = [disk EXCEPT !.tables = With(@, db.nextFile, mem)]
    /\ db' = [d EXCEPT !.nextFile = Max({@, db.nextFile + 1}),
                       !.pending = @ \cup {db.nextFile}, !.replay.mem = {}]

ReplayRecord ==
    LET r == disk.logs[OldestLog].records[db.replay.pos + 1]
        mem == db.replay.mem \cup InsertInto(r.ops, r.seq)
        d == [db EXCEPT !.lastSeq = Max({@, r.seq + Len(r.ops) - 1}), !.replay.pos = @ + 1]
    IN  /\ Replaying /\ db.replay.pos < Len(disk.logs[OldestLog].records)
        /\ IF Cardinality(mem) > WriteBufferSize THEN WriteReplayed(mem, d)
           ELSE db' = [d EXCEPT !.replay.mem = mem] /\ UNCHANGED disk
        /\ UNCHANGED <<queue, writer, group, reader, bg, history, events>>

\* The number of the log is not used again (MarkFileNumberUsed).
EndOfLog ==
    LET n == OldestLog
        d == [db EXCEPT !.nextFile = Max({@, n + 1}),
                        !.replay.logs = @ \ {n}, !.replay.pos = 0]
    IN  /\ Replaying /\ db.replay.pos = Len(disk.logs[n].records)
        /\ IF db.replay.mem # {} THEN WriteReplayed(db.replay.mem, d)
           ELSE db' = d /\ UNCHANGED disk
        /\ UNCHANGED <<queue, writer, group, reader, bg, history, events>>

\* After the last log, a new one.
BeginLog ==
    /\ db.up = "replaying" /\ db.replay.logs = {}
    /\ disk' = [disk EXCEPT !.logs = With(@, db.nextFile, EmptyLog)]
    /\ db' = [db EXCEPT !.up = "replayed", !.nextFile = @ + 1, !.log = db.nextFile,
                        !.memtables = With(<<>>, db.nextFile, {})]
    /\ UNCHANGED <<queue, writer, group, reader, bg, history, events>>

\* A new manifest with the recovered tables, installed by renaming CURRENT.
InstallRecovered ==
    LET edit == Edit({<<0, Meta(n, disk.tables[n])>> : n \in db.pending}, {}, db.log, <<>>)
    IN  /\ db.up = "replayed"
        /\ disk' = [disk EXCEPT !.manifest = Logged(@, edit)]
        /\ db' = [db EXCEPT !.up = "installed", !.current = Apply(@, edit),
                            !.logNumber = db.log, !.pending = {}]
        /\ UNCHANGED <<queue, writer, group, reader, bg, history, events>>

FinishOpen ==
    /\ db.up = "installed"
    /\ disk' = WithoutObsolete(disk)
    /\ db' = MaybeSchedule([db EXCEPT !.up = "open"])
    /\ UNCHANGED <<queue, writer, group, reader, bg, history, events>>

-----------------------------------------------------------------------------
WriterStep(w) ==
    \/ WaitForRoom(w) \/ NoRoom(w) \/ BeginWrite(w) \/ AppendToLog(w) \/ Sync(w)
    \/ SyncFails(w) \/ InsertIntoMemTable(w) \/ Publish(w)
Background ==
    \/ BackgroundAfterError \/ BeginCompactMemTable \/ BuildTable \/ BeginCompaction
    \/ WriteOutput \/ EndMerge \/ InstallVersion \/ BackgroundError \/ DeleteObsoleteFiles
Opening == Recover \/ ReplayRecord \/ EndOfLog \/ BeginLog \/ InstallRecovered \/ FinishOpen

Next ==
    \/ \E w \in Writers : WriterStep(w) \/ \E b \in Batches : Write(w, b)
    \/ \E s \in Snapshots : GetSnapshot(s) \/ ReleaseSnapshot(s)
    \/ \E r \in Readers : BeginRead(r) \/ EndRead(r)
    \/ Background \/ Opening \/ Crash

Spec == Init /\ [][Next]_vars
=============================================================================
