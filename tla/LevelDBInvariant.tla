-------------------------- MODULE LevelDBInvariant --------------------------
(***************************************************************************)
(* The inductive invariant of leveldb, which LevelDBProofs,                *)
(* LevelDBCrashProofs and LevelDBLevelsProofs prove: the fields of the     *)
(* records, what is idle, who is scheduled and why, which file numbers are *)
(* in use and which files are there, which logs are kept for which         *)
(* memtables, where on the disk each published batch is, what memtables    *)
(* and tables hold, which sequence numbers are given out, and which files  *)
(* a level may have.                                                       *)
(***************************************************************************)
EXTENDS LevelDBProperties

Shape ==
    /\ DOMAIN disk = DOMAIN NewDisk /\ DOMAIN db = DOMAIN Closed /\ DOMAIN bg = DOMAIN BgIdle
    /\ DOMAIN writer = Writers /\ \A w \in Writers : DOMAIN writer[w] = DOMAIN Idle
    /\ DOMAIN reader = Readers /\ DOMAIN db.replay = DOMAIN NoReplay
    /\ db.scheduled \in BOOLEAN /\ db.bgError \in BOOLEAN /\ db.manual = FALSE
    /\ bg.made \in Seq(Range(bg.made))

\* Before the database is open nothing else goes on.
NothingBeforeOpen ==
    db.up # "open" => /\ bg = BgIdle /\ ~db.scheduled /\ ~db.bgError
                      /\ db.imm = {} /\ db.seek = {}
                      /\ \A w \in Writers : writer[w].pc = "idle"
                      /\ db.up = "closed" => db = Closed

-----------------------------------------------------------------------------
\* Who works or is waited for is scheduled, and so is every reason to work; what is
\* scheduled has one.
Scheduled ==
    /\ bg.pc # "idle" \/ (\E w \in Writers : writer[w].pc = "waiting") => db.scheduled
    /\ db.up = "open" /\ ~db.bgError /\ SomethingToDo => db.scheduled
    /\ db.scheduled /\ bg.pc = "idle" => db.bgError \/ SomethingToDo

\* Every level has finitely many files, now and after the edits on their way: so a
\* level 0 that makes writers wait is one that asks for a compaction.
FiniteLevels(v) == \A l \in Levels : IsFiniteSet(v[l])
FinitelyMany ==
    /\ FiniteLevels(db.current) /\ FiniteLevels(disk.manifest.version)
    /\ IsFiniteSet(db.pending) /\ IsFiniteSet(bg.edit.added)

WakeInv == Shape /\ NothingBeforeOpen /\ Scheduled /\ FinitelyMany

-----------------------------------------------------------------------------
Below(n) == 1..n - 1

\* What the manifest names is there, below the next file number that it tells.
ManifestNamesFiles ==
    /\ disk.manifest.nextFile \in Nat /\ disk.manifest.nextFile > 0
    /\ Numbers(disk.manifest.version) \subseteq Below(disk.manifest.nextFile)
                                                \cap DOMAIN disk.tables
    /\ DOMAIN disk.logs \subseteq Nat

\* So is what the versions in memory name, below next_file_number_; the current one
\* names what the manifest does, unless the last edit may or may not have got there.
VersionsNameFiles ==
    /\ db.nextFile \in Nat /\ (db.up # "closed" => disk.manifest.nextFile <= db.nextFile)
    /\ Numbers(db.current) \subseteq Below(db.nextFile) \cap DOMAIN disk.tables
    /\ db.up # "closed" /\ ~db.bgError => db.current = disk.manifest.version
    /\ \A r \in Readers : Numbers(reader[r].version) \subseteq DOMAIN disk.tables
    /\ db.pending \subseteq Below(db.nextFile)
    /\ db.up \in {"replaying", "replayed"} => db.pending \subseteq DOMAIN disk.tables
    /\ db.replay.logs \subseteq Nat
    /\ \A c \in db.seek : c[1] \in Levels /\ c[2] \in db.current[c[1]]

\* The background thread reads files that are there, writes to numbers that it has
\* reserved, and logs edits that name tables.
Added(e) == {a[2].num : a \in e.added}
Made == {bg.made[i].num : i \in DOMAIN bg.made}
BackgroundNamesFiles ==
    /\ Numbers(bg.c.version) \subseteq DOMAIN disk.tables
    /\ Made \subseteq db.pending \cap DOMAIN disk.tables
    /\ bg.num \in ({0} \cup Below(db.nextFile)) \ Made
    /\ bg.pc = "build" => bg.num \in db.pending
                                       \ (Numbers(disk.manifest.version) \cup Numbers(db.current))
    /\ bg.pc = "log" => /\ bg.edit.nextFile \in disk.manifest.nextFile..db.nextFile
                        /\ Added(bg.edit) \subseteq Below(bg.edit.nextFile) \cap DOMAIN disk.tables

FilesInv ==
    /\ Shape /\ NothingBeforeOpen /\ FinitelyMany
    /\ ManifestNamesFiles /\ VersionsNameFiles /\ BackgroundNamesFiles

-----------------------------------------------------------------------------
\* A writer past the wait for room is the first of the queue, and writes to the
\* current log.
Busy(w) == writer[w].pc \in {"append", "sync", "insert", "publish"}
FirstIsBusy ==
    /\ queue \in Seq(Writers) /\ DOMAIN group = DOMAIN NoGroup
    /\ \A w \in Writers : Busy(w) =>
           /\ queue # <<>> /\ Head(queue) = w /\ Len(group.batches) \in Nat \ {0}
           /\ writer[w].pc # "publish" => group.log = db.log

\* The logs of both memtables are there; the number in an edit says which of them
\* the manifest will still need, and a flushed memtable is in the table of its edit.
LogsExist ==
    /\ disk.manifest.log \in Nat /\ disk.manifest.log < disk.manifest.nextFile
    /\ db.up \in {"replayed", "installed", "open"} =>
           /\ db.log \in DOMAIN disk.logs /\ db.log \in Below(db.nextFile)
           /\ db.logNumber \in 0..db.log /\ disk.manifest.log <= db.log
           /\ db.imm \cup {db.log} \subseteq DOMAIN db.memtables
    /\ \A m \in db.imm : m \in db.logNumber..db.log - 1 /\ m \in DOMAIN disk.logs
    /\ db.up = "replaying" => db.logNumber = disk.manifest.log

EditsKeepLogs ==
    /\ bg.pc = "build" => bg.kind = "flush" /\ db.imm # {}
    /\ bg.pc = "log" => bg.edit.log \in Below(bg.edit.nextFile) \cup {0}
    /\ bg.pc = "log" /\ bg.kind = "flush" =>
           /\ bg.edit.log = db.log /\ db.imm # {}
           /\ \A a \in bg.edit.added : a \in Levels \X {a[2]}
           /\ \A m \in db.imm :
                  db.memtables[m] \subseteq UNION {disk.tables[n] : n \in Added(bg.edit)}
    /\ bg.pc = "log" /\ bg.kind # "flush" => bg.edit.log = db.logNumber

LogsAreKept == db.up = "open" => \A m \in db.imm : LogIsKept(m)

LogsInv == FilesInv /\ FirstIsBusy /\ LogsExist /\ EditsKeepLogs /\ LogsAreKept

-----------------------------------------------------------------------------
\* What the records of the logs and the history are made of.
Operations == [key : Keys, val : Nat]
LogRecords == [seq : Nat \ {0}, ops : Seq(Operations)]
HistoryBatches == [ops : Seq(Operations), sync : BOOLEAN, seq : Nat, log : Nat]

\* The queue holds the writers that are not idle, each once; those behind the first
\* have a batch and wait for their turn.
QueueOK ==
    /\ \A w \in Writers : writer[w].pc # "idle" <=> \E i \in DOMAIN queue : queue[i] = w
    /\ \A i, j \in DOMAIN queue : queue[i] = queue[j] => i = j
    /\ \A i \in DOMAIN queue : /\ i > 1 => writer[queue[i]].pc = "queued"
                               /\ writer[queue[i]].sync \in BOOLEAN
                               /\ writer[queue[i]].ops \in Seq(Operations) \ {<<>>}

\* What has a sequence number has one that is a number, in memory and on the disk.
LogsOK ==
    /\ events \in Nat /\ {db.lastSeq, disk.manifest.lastSeq, bg.edit.lastSeq} \subseteq Nat
    /\ db.replay.logs \subseteq DOMAIN disk.logs /\ db.replay.pos \in Nat
    /\ \A n \in DOMAIN disk.logs :
           /\ disk.logs[n] \in [records : Seq(LogRecords), synced : Nat]
           /\ disk.logs[n].synced <= Len(disk.logs[n].records)

\* No number of a log is given out again: MarkFileNumberUsed for those replayed.
LogNumbersUsed ==
    db.up # "closed" =>
        /\ \A n \in DOMAIN disk.logs : n \in db.replay.logs \/ n < db.nextFile
        /\ db.up # "replaying" => db.replay.logs = {}

\* What the manifest passes over has come into a table.
PassedOver ==
    /\ disk.manifest.flushed \in Nat /\ disk.manifest.log <= disk.manifest.flushed
    /\ db.up # "closed" => db.logNumber <= disk.manifest.flushed

\* The record of the first writer's group is in the log, and synced if one of the
\* batches asked for it, before the batches are published.
HasRecord(l, n, r) == \E i \in 1..n : l.records[i] = r
GroupRecord == [seq |-> group.seq, ops |-> GroupOps]
GroupIsLogged ==
    /\ group.batches \in Seq(HistoryBatches)
    /\ \A w \in Writers : Busy(w) =>
           /\ group.log = db.log /\ GroupRecord \in LogRecords
           /\ \A i \in DOMAIN group.batches :
                  /\ group.batches[i].log = group.log
                  /\ group.batches[i].seq \in group.seq..group.seq + Len(GroupOps) - 1
                  /\ group.batches[i].sync => writer[w].sync
           /\ writer[w].pc # "append" =>
                  LET l == disk.logs[group.log]
                  IN  HasRecord(l, IF writer[w].sync /\ writer[w].pc # "sync" /\ ~group.failed
                                   THEN l.synced ELSE Len(l.records), GroupRecord)

\* A batch that was published is in a table or in a log that is still there, and
\* below what is synced of it if the batch was.
InLog(b, l) == \E i \in 1..IF b.sync THEN l.synced ELSE Len(l.records) :
                   b.seq \in l.records[i].seq..l.records[i].seq + Len(l.records[i].ops) - 1
OnDiskStill(b, d) == b.log < d.manifest.flushed \/ (b.log \in DOMAIN d.logs /\ InLog(b, d.logs[b.log]))
HistoryIsKept ==
    history \in Seq(HistoryBatches) /\ \A i \in DOMAIN history : OnDiskStill(history[i], disk)

CrashInv == /\ LogsInv /\ QueueOK /\ LogsOK /\ LogNumbersUsed /\ PassedOver
            /\ GroupIsLogged /\ HistoryIsKept

-----------------------------------------------------------------------------
\* What a memtable may hold, and what a table.
MemContents == {E \in SUBSET Entries : IsFiniteSet(E)}
TableContents == MemContents \ {{}}

\* Memtables and tables hold entries, finitely many, and no table is empty; so
\* do the tables that a merge has yet to write, for its inputs do: a file with too
\* many seeks is not on the last level, and what is merged with it on the next.
EntriesInv ==
    /\ db.up \in {"closed", "replaying", "replayed", "installed", "open"}
    /\ \A n \in DOMAIN disk.tables : disk.tables[n] \in TableContents
    /\ \A m \in DOMAIN db.memtables : db.memtables[m] \in MemContents
    /\ db.replay.mem \in MemContents
    /\ bg.todo \in Seq(TableContents)
    /\ \A c \in db.seek : c[1] + 1 \in Levels

-----------------------------------------------------------------------------
\* What has been written: in the logs, in memtables, in the tables that something
\* names, and what a merge is about to write.
EntriesIn(tables, N) == UNION {tables[n] : n \in N \cap DOMAIN tables}
LogEntries == UNION {UNION {InsertInto(r.ops, r.seq) : r \in ToSet(disk.logs[n].records)} :
                     n \in DOMAIN disk.logs}
MemEntries == UNION {db.memtables[m] : m \in DOMAIN db.memtables}
ImmEntries == UNION {db.memtables[m] : m \in db.imm}
EditNumbers == IF bg.pc = "log" THEN Added(bg.edit) ELSE {}
Recovering == IF db.up \in {"replaying", "replayed"} THEN db.pending ELSE {}
InUse == Numbers(db.current) \cup Made \cup EditNumbers \cup Recovering
InTables == EntriesIn(disk.tables, InUse) \cup (UNION ToSet(bg.todo)) \cup db.replay.mem
InManifest == EntriesIn(disk.tables, Numbers(disk.manifest.version))
Written == LogEntries \cup MemEntries \cup InTables \cup InManifest

\* What the first writer has appended to the log and not published yet.
Unpublished == IF \E w \in Writers : Busy(w) /\ writer[w].pc # "append"
               THEN InsertInto(GroupOps, group.seq) ELSE {}

\* No sequence number is given twice.
NoNumberTwice == \A e, f \in Written : e.seq = f.seq => e = f

\* What has a number is not above the last one: that of the manifest, from which a
\* recovery starts, of an edit on its way, and of the database once it is open.
UpTo(E, s) == \A e \in E : e.seq <= s
TablesBelow ==
    /\ UpTo(InManifest, disk.manifest.lastSeq)
    /\ db.up # "closed" => disk.manifest.lastSeq <= db.lastSeq /\ UpTo(InTables, db.lastSeq)
    /\ bg.pc = "log" => /\ disk.manifest.lastSeq <= bg.edit.lastSeq
                        /\ bg.edit.lastSeq <= db.lastSeq
                        /\ UpTo(EntriesIn(disk.tables, EditNumbers), bg.edit.lastSeq)
LogsBelow ==
    /\ db.up = "open" => /\ UpTo((LogEntries \cup MemEntries) \ Unpublished, db.lastSeq)
                         /\ UpTo(ImmEntries, db.lastSeq)
    /\ db.up # "open" => MemEntries = {}
    /\ db.up \in {"replayed", "installed"} =>
           \A n \in DOMAIN disk.logs : n >= db.log => disk.logs[n] = EmptyLog
    /\ db.up = "installed" => db.logNumber = db.log
    /\ \A w \in Writers : Busy(w) => group.seq = db.lastSeq + 1

NumbersInv == NoNumberTwice /\ TablesBelow /\ LogsBelow

-----------------------------------------------------------------------------
\* Files and their ranges, which hold what is in the table.
InternalKey == [key : Keys, seq : Nat \ {0}]
NotAfter(a, b) == Before(a, b) \/ (a.key = b.key /\ a.seq = b.seq)
FileOK(f, tables) ==
    /\ f.smallest \in InternalKey /\ f.largest \in InternalKey /\ NotAfter(f.smallest, f.largest)
    /\ f.num \in DOMAIN tables =>
           \A e \in tables[f.num] : NotAfter(f.smallest, e) /\ NotAfter(e, f.largest)
VersionOK(v, tables) == \A l \in Levels : \A f \in v[l] : FileOK(f, tables)

SameRange(f, g) == f.smallest = g.smallest /\ f.largest = g.largest
Apart(f, g) == Before(f.largest, g.smallest) \/ Before(g.largest, f.smallest)
DisjointOrCopies(v) ==
    \A l \in Levels \ {0} : \A f, g \in v[l] : Apart(f, g) \/ SameRange(f, g)

RangeOf(E) == [smallest |-> KeyOf(Smallest(E)), largest |-> KeyOf(Largest(E))]
Clear(v, l, r) == ~OverlapInLevel(v, l, r.smallest.key, r.largest.key)

\* Every key between two that files of F cover is covered by one of them.
Connected(F) ==
    \A f, g \in F : \A k \in Keys :
        f.smallest.key <= k /\ k <= g.largest.key => \E h \in F : Covers(h, k)

\* A merge in progress: its inputs are there, what it writes is within them, in
\* tables apart from one another and from the other files of the level it enters.
Merging == bg.c # NoCompaction
Inputs == bg.c.inputs0 \cup bg.c.inputs1
OthersBelow == db.current[bg.c.level + 1] \ bg.c.inputs1
Ranges == {[smallest |-> bg.made[i].smallest, largest |-> bg.made[i].largest] : i \in DOMAIN bg.made}
          \cup {RangeOf(p) : p \in ToSet(bg.todo)}
RangeOK(r) ==
    /\ r.smallest \in InternalKey /\ r.largest \in InternalKey /\ NotAfter(r.smallest, r.largest)
    /\ \E f, g \in Inputs : Covers(f, r.smallest.key) /\ Covers(g, r.largest.key)
    /\ \A s \in Ranges : Apart(r, s) \/ r = s
    /\ \A g \in OthersBelow : Apart(r, g)
MergeOK ==
    /\ bg.pc = "idle" => bg = BgIdle
    /\ bg.pc = "merge" => Merging
    /\ bg.pc = "log" => bg.kind \in {"flush", "move", "merge"}
    /\ Merging => /\ bg.c.level \in Levels /\ bg.c.level + 1 \in Levels
                  /\ bg.c.inputs0 \subseteq db.current[bg.c.level]
                  /\ bg.c.inputs1 \subseteq db.current[bg.c.level + 1]
                  /\ Connected(Inputs) /\ \A r \in Ranges : RangeOK(r)
    /\ \A i \in DOMAIN bg.made : FileOK(bg.made[i], disk.tables)

\* An edit on its way: a memtable goes where no file above overlaps it, a file that
\* moves down where none overlaps it, and a merge replaces its inputs.
ImmRange == RangeOf(ImmEntries)
FlushLevel == PickLevelForMemTableOutput(db.current, ImmRange.smallest.key, ImmRange.largest.key)
FlushOK ==
    bg.pc = "log" /\ bg.kind = "flush" =>
        /\ bg.edit.deleted = {} /\ (bg.edit.added = {} <=> ImmEntries = {})
        /\ \A a \in bg.edit.added :
               a[1] = FlushLevel /\ SameRange(a[2], ImmRange) /\ FileOK(a[2], disk.tables)
MoveOK ==
    bg.pc = "log" /\ bg.kind = "move" =>
        /\ disk.manifest.version = db.current /\ ~Merging
        /\ \A a \in bg.edit.added : /\ a[1] - 1 \in Levels /\ a[2] \in db.current[a[1] - 1]
                                    /\ Clear(db.current, a[1], a[2])
                                    /\ bg.edit.added = {a}
MergeEditOK ==
    bg.pc = "log" /\ bg.kind = "merge" =>
        /\ Merging
        /\ bg.edit.added = {<<bg.c.level + 1, bg.made[i]>> : i \in DOMAIN bg.made}
        /\ \A f \in bg.c.inputs1 : <<bg.c.level + 1, f.num>> \in bg.edit.deleted

\* While an edit may come, the manifest names what the current version does, and
\* copies of the memtable that is being flushed, or was during this merge.
EditMayCome == db.up = "open" /\ bg.pc # "idle" /\ ~(bg.pc = "cleanup" /\ bg.kind # "flush")
CopyOf(l, f) ==
    \/ f \in db.current[l]
    \/ \E g \in db.current[l] :
           /\ SameRange(f, g)
           /\ Merging /\ l = bg.c.level + 1 => g \notin bg.c.inputs1
    \/ db.imm # {} /\ ImmEntries # {} /\ SameRange(f, ImmRange) /\ l = FlushLevel
CopiesInManifest ==
    EditMayCome => \A l \in Levels \ {0} : \A f \in disk.manifest.version[l] : CopyOf(l, f)

LevelsInv ==
    /\ VersionOK(db.current, disk.tables) /\ VersionOK(disk.manifest.version, disk.tables)
    /\ DisjointOrCopies(db.current) /\ DisjointOrCopies(disk.manifest.version)
    /\ MergeOK /\ FlushOK /\ MoveOK /\ MergeEditOK /\ CopiesInManifest
=============================================================================
