------------------------- MODULE LevelDBProperties -------------------------
(***************************************************************************)
(* What must hold of leveldb whatever its threads and the disk do, and the *)
(* refinement of KeyValueStore.                                            *)
(***************************************************************************)
EXTENDS LevelDB

\* The type invariant.
TypeOK ==
    /\ db.up \in {"closed", "replaying", "replayed", "installed", "open"}
    /\ \A n \in DOMAIN disk.tables : disk.tables[n] \subseteq Entries /\ disk.tables[n] # {}
    /\ \A n \in DOMAIN disk.logs : disk.logs[n].synced \in 0..Len(disk.logs[n].records)
    /\ ToSet(queue) = {w \in Writers : writer[w].pc # "idle"}
    /\ Len(queue) = Cardinality(ToSet(queue))
    /\ \A i \in 2..Len(queue) : writer[queue[i]].pc = "queued"

-----------------------------------------------------------------------------
TablesOf(v) == UNION {disk.tables[n] : n \in Numbers(v) \cap DOMAIN disk.tables}

\* All entries that the open database merges, and those a recovery would find.
Merged == UNION {db.memtables[m] : m \in {db.log} \cup db.imm} \cup TablesOf(db.current)
OnDisk ==
    TablesOf(disk.manifest.version)
    \cup UNION {UNION {InsertInto(r.ops, r.seq) : r \in ToSet(disk.logs[n].records)} :
                n \in LogsToReplay(disk.manifest)}

NoView == [k \in {} |-> NotFound]
View[E \in SUBSET Entries, s \in Nat] == [k \in Keys |-> Lookup(E, k, s)]
Newest == Max({0} \cup {e.seq : e \in OnDisk})
Contents == IF db.up = "open" THEN View[Merged, db.lastSeq] ELSE View[OnDisk, Newest]
Batch(b) == [ops |-> b.ops, sync |-> b.sync]

Store == INSTANCE KeyValueStore WITH
    contents <- Contents,
    history <- [i \in DOMAIN history |-> Batch(history[i])],
    pending <- [w \in Writers |-> Batch(writer[w])],
    doubtful <- IF group.failed /\ \A w \in Writers : writer[w].pc # "publish"
                THEN [i \in DOMAIN group.batches |-> Batch(group.batches[i])] ELSE <<>>,
    snaps <- [s \in Snapshots |-> IF db.snapshots[s] = NoSnapshot THEN NoView
                ELSE View[Merged, db.snapshots[s]]],
    views <- [r \in Readers |-> IF ~reader[r].on THEN NoView
                ELSE [k \in Keys |-> GetAt(reader[r].mem, reader[r].version, k, reader[r].seq)]]

\* leveldb implements the store: flushing, merging, dropping what is hidden and
\* deleting files change nothing that a reader, a snapshot or a recovery sees; a
\* group of writers takes effect at once; what was synced survives a crash.
RefinesStore == Store!Spec

\* options.h:174, "if it is just the process that crashes, no writes will be lost
\* even if sync==false".
ProcessCrashLosesNothing ==
    [][db'.up = "closed" /\ disk' = disk => IsPrefix(history, history')]_vars

\* options.h:176, a write with sync has the "crash semantics" of a write() followed by
\* an fsync(): none that was answered is lost, also when the machine stops.
SyncedWritesSurvive ==
    [][db'.up = "closed" => \A b \in ToSet(history) : b.sync => b \in ToSet(history')]_vars

\* version_set.cc:338, "We can search level-by-level since entries never hop across
\* levels": what Get finds first is what merging everything finds.
GetFindsTheNewest ==
    db.up = "open" =>
        \A k \in Keys, s \in {db.lastSeq} \cup Taken :
            GetAt({db.log} \cup db.imm, db.current, k, s) = Lookup(Merged, k, s)

\* version_set.cc:747 "Must not overlap": on the levels below 0 the files of a
\* version are disjoint, in memory and after a recovery.  The one exception: when the
\* manifest cannot be synced in the middle of a merge, the memtable becomes a table
\* once more (db_impl.cc:908), and a recovery may find both, copies of each other.
OverlapsAreCopies ==
    \A v \in {db.current, disk.manifest.version} : \A l \in Levels \ {0} : \A f, g \in v[l] :
        \/ Before(f.largest, g.smallest) \/ Before(g.largest, f.smallest)
        \/ f.smallest = g.smallest /\ f.largest = g.largest

\* The assertion as it stands, which CompactRange refutes, and that exception.
LevelsAreDisjoint ==
    \A v \in {db.current, disk.manifest.version} : \A l \in Levels \ {0} : \A f, g \in v[l] :
        f = g \/ Before(f.largest, g.smallest) \/ Before(g.largest, f.smallest)

\* No file is deleted that a version still names, of a reader, of the compaction or
\* of the next recovery, nor a log while no table holds what its memtable holds.
LogIsKept(m) == \/ m \in LogsToReplay(disk.manifest)
                \/ db.memtables[m] \subseteq TablesOf(disk.manifest.version)
NeededFilesExist ==
    /\ Numbers(disk.manifest.version) \cup Numbers(db.current) \cup Numbers(bg.c.version)
           \cup UNION {Numbers(reader[r].version) : r \in Readers} \subseteq DOMAIN disk.tables
    /\ db.up = "open" => \A m \in {db.log} \cup db.imm : LogIsKept(m)

\* A file number is not used again while the table it names is needed: across a
\* crash next_file_number_ starts from what the manifest says.
TablesAreNotOverwritten ==
    [][\A n \in DOMAIN disk.tables \cap DOMAIN disk'.tables :
          n \in Numbers(disk.manifest.version) \cup Numbers(db.current)
              => disk'.tables[n] = disk.tables[n]]_vars

SomethingToDo == db.imm # {} \/ db.manual \/ SizeCompaction(db.current) \/ db.seek # {}

\* No wakeup is lost: while a writer waits for room, or a memtable waits to become
\* a table, the background thread is on its way, and finds something to do.
WaitingIsServed ==
    /\ (\E w \in Writers : writer[w].pc = "waiting") => db.scheduled
    /\ db.up = "open" /\ db.imm # {} /\ ~db.bgError => db.scheduled
    /\ db.scheduled /\ bg.pc = "idle" =>
           db.bgError \/ SomethingToDo
=============================================================================
