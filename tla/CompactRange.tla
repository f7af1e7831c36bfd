---------------------------- MODULE CompactRange ----------------------------
(***************************************************************************)
(* DB::CompactRange(nullptr, nullptr) beside everything else leveldb does  *)
(* (db/db_impl.cc): the caller forces a new memtable, waits until the old  *)
(* one is written, and then has one level after the other merged into the  *)
(* next by the background thread.                                          *)
(***************************************************************************)
EXTENDS LevelDBProperties

VARIABLE manual    \* the caller, and the ManualCompaction it waits for

NoManual == [pc |-> "idle", level |-> 0, last |-> 0, begin |-> 0]
InitManual == Init /\ manual = NoManual

DeepestLevel == Max({1} \cup {l \in Levels \ {0} : db.current[l] # {}})

\* CompactRange, TEST_CompactMemTable: an empty batch at the front of the queue
\* makes MakeRoomForWrite switch to a new memtable.
StartCompactRange ==
    LET d == SwitchMemTable(db)
    IN  /\ Open /\ manual.pc = "idle" /\ queue = <<>> /\ ~db.bgError /\ ~MustWait
        /\ db' = d
        /\ disk' = [disk EXCEPT !.logs = With(@, d.log, EmptyLog)]
        /\ manual' = [NoManual EXCEPT !.pc = "memtable", !.last = DeepestLevel]
        /\ UNCHANGED <<queue, writer, group, reader, bg, history, events>>

\* TEST_CompactRange sets manual_compaction_ and schedules the background thread.
RequestLevel ==
    /\ Open /\ ~db.bgError
    /\ manual.pc = "request" \/ (manual.pc = "memtable" /\ db.imm = {})
    /\ db' = MaybeSchedule([db EXCEPT !.manual = TRUE])
    /\ manual' = [manual EXCEPT !.pc = "requested"]
    /\ UNCHANGED <<disk, queue, writer, group, reader, bg, history, events>>

\* VersionSet::CompactRange: from begin on, above level 0 until a file is full.
ManualInputs ==
    LET F == OverlappingInputs(db.current, manual.level, manual.begin, Max(Keys))
        Upto(f) == {g \in F : g = f \/ BySmallest(g, f)}
    IN  IF manual.level = 0 THEN F
        ELSE {f \in F : TotalFileSize(Upto(f) \ {f}) < TargetFileSize}

NextLevel == IF manual.level + 1 = manual.last THEN NoManual
             ELSE [manual EXCEPT !.pc = "request", !.level = @ + 1, !.begin = 0]

\* BackgroundCompaction with a manual compaction: never a trivial move.  What is
\* left of the level is requested again.  (manual_compaction_ is reset here and not
\* at the end: with one caller nobody looks in between.)
BeginManual ==
    LET F == ManualInputs
        c == SetupOtherInputs(db.current, manual.level, F)
        last == CHOOSE f \in c.inputs0 : \A g \in c.inputs0 \ {f} : BySmallest(g, f)
        E == UNION {disk.tables[f.num] : f \in c.inputs0 \cup c.inputs1}
    IN  /\ Open /\ db.manual /\ bg.pc = "idle" /\ db.scheduled /\ ~db.bgError /\ db.imm = {}
        /\ \/ /\ F = {} /\ EndBackground([db EXCEPT !.manual = FALSE])
              /\ manual' = NextLevel
           \/ /\ F # {}
              /\ bg' = [bg EXCEPT !.pc = "merge", !.c = c,
                           !.todo = Outputs(c, E, IF Taken = {} THEN db.lastSeq ELSE Min(Taken))]
              /\ db' = [db EXCEPT !.manual = FALSE,
                                  !.pointers[c.level] = LargestKey(c.inputs0)]
              /\ manual' = [manual EXCEPT !.pc = "running", !.begin = last.largest.key]
              /\ UNCHANGED writer
        /\ UNCHANGED <<disk, queue, group, reader, history, events>>

\* All else goes on; the caller wakes up when its merge has ended.
NextOther ==
    /\ Next
    /\ manual' = IF db'.up = "closed" THEN NoManual
                 ELSE IF manual.pc = "running" /\ bg.c # NoCompaction /\ bg'.c = NoCompaction
                 THEN [manual EXCEPT !.pc = "request"] ELSE manual

NextManual == NextOther \/ StartCompactRange \/ RequestLevel \/ BeginManual
SpecManual == InitManual /\ [][NextManual]_<<vars, manual>>
=============================================================================
