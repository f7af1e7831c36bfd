------------------------- MODULE LevelDBLevelsProofs -------------------------
(***************************************************************************)
(* What versions hold, for every number of levels, files and entries: no   *)
(* sequence number is given twice (NumbersInv); so entries have an order,  *)
(* merges write tables apart from one another, and with the description of *)
(* every file right, the files of a level below 0 are disjoint or copies   *)
(* of each other, whatever edit is on its way (LevelsInv).                 *)
(***************************************************************************)
EXTENDS LevelDBCrashProofs

-----------------------------------------------------------------------------
(* No sequence number is given twice. *)

\* Which entries a batch becomes: each operation has the next number.
LEMMA InsertedNumbers ==
    ASSUME NEW ops \in Seq(Operations), NEW seq \in Nat \ {0}
    PROVE  /\ \A e \in InsertInto(ops, seq) : e.seq \in seq..seq + Len(ops) - 1
           /\ \A e, f \in InsertInto(ops, seq) : e.seq = f.seq => e = f
<1>1. DOMAIN ops = 1..Len(ops) /\ Len(ops) \in Nat
  BY LenProperties
<1> DEFINE entry(i) == [key |-> ops[i].key, seq |-> seq + i - 1, val |-> ops[i].val]
<1>2. \A e \in InsertInto(ops, seq) : \E i \in 1..Len(ops) : e = entry(i)
  BY <1>1 DEF InsertInto
<1>3. \A i \in 1..Len(ops) : entry(i).seq = seq + i - 1
  OBVIOUS
<1>4. ASSUME NEW e \in InsertInto(ops, seq) PROVE e.seq \in seq..seq + Len(ops) - 1
  <2>1. PICK i \in 1..Len(ops) : e = entry(i)
    BY <1>2
  <2>2. e.seq = seq + i - 1
    BY <1>3, <2>1
  <2> QED
    BY <1>1, <2>2
<1>5. ASSUME NEW e \in InsertInto(ops, seq), NEW f \in InsertInto(ops, seq), e.seq = f.seq PROVE e = f
  <2>1. PICK i \in 1..Len(ops) : e = entry(i)
    BY <1>2
  <2>2. PICK j \in 1..Len(ops) : f = entry(j)
    BY <1>2
  <2>3. e.seq = seq + i - 1 /\ f.seq = seq + j - 1
    BY <1>3, <2>1, <2>2
  <2>4. seq + i - 1 = seq + j - 1
    BY <1>5, <2>3
  <2>5. i \in Nat /\ j \in Nat
    BY <1>1
  <2> HIDE DEF entry
  <2>6. i = j
    BY <2>4, <2>5
  <2> QED
    BY <2>1, <2>2, <2>6
<1> QED
  BY <1>4, <1>5

\* What tables hold when one is written, or some are deleted.
LEMMA EntriesInSteps ==
    /\ \A t, N, P : N \subseteq P => EntriesIn(t, N) \subseteq EntriesIn(t, P)
    /\ \A t, N, P : EntriesIn(t, N \cup P) = EntriesIn(t, N) \cup EntriesIn(t, P)
    /\ \A t, x, y, N : EntriesIn(With(t, x, y), N) \subseteq EntriesIn(t, N \ {x}) \cup y
    /\ \A t, x, y, N : x \notin N => EntriesIn(With(t, x, y), N) = EntriesIn(t, N)
    /\ \A t, D, N : EntriesIn(Restrict(t, DOMAIN t \cap D), N) \subseteq EntriesIn(t, N)
    /\ \A t : EntriesIn(t, {}) = {}
<1>1. \A t, x, y, N : EntriesIn(With(t, x, y), N) \subseteq EntriesIn(t, N \ {x}) \cup y
  <2> TAKE t, x, y, N
  <2>1. /\ DOMAIN With(t, x, y) = DOMAIN t \cup {x} /\ With(t, x, y)[x] = y
        /\ \A z \in DOMAIN t \ {x} : With(t, x, y)[z] = t[z]
    BY DEF With, Overlay
  <2> QED
    BY <2>1 DEF EntriesIn
<1>2. ASSUME NEW t, NEW x, NEW y, NEW N, x \notin N PROVE EntriesIn(With(t, x, y), N) = EntriesIn(t, N)
  <2>1. /\ DOMAIN With(t, x, y) = DOMAIN t \cup {x}
        /\ \A z \in DOMAIN t \ {x} : With(t, x, y)[z] = t[z]
    BY DEF With, Overlay
  <2>2. N \cap DOMAIN With(t, x, y) = N \cap DOMAIN t
    BY <1>2, <2>1
  <2>3. \A z \in N \cap DOMAIN t : With(t, x, y)[z] = t[z]
    BY <1>2, <2>1
  <2> QED
    BY <2>2, <2>3 DEF EntriesIn
<1>3. \A t, D, N : EntriesIn(Restrict(t, DOMAIN t \cap D), N) \subseteq EntriesIn(t, N)
  BY DEF EntriesIn, Restrict
<1> QED
  BY <1>1, <1>2, <1>3 DEF EntriesIn

\* An earlier session gives out the numbers after the last one.
Numbered(d) ==
    /\ StartOK(d) /\ TablesGood(d)
    /\ \A e, f \in EntriesIn(d.tables, DOMAIN d.tables) : e.seq = f.seq => e = f
    /\ UpTo(EntriesIn(d.tables, DOMAIN d.tables), d.manifest.lastSeq)

\* The sequence numbers of another session come after those of the last one.
LEMMA FlushedNumbers ==
    ASSUME NEW d, Numbered(d), NEW ops \in Seq(Operations) \ {<<>>}
    PROVE  Numbered(Flushed(d, ops))
<1> DEFINE m == d.manifest
           E == InsertInto(ops, m.lastSeq + 1)
           f == Meta(m.nextFile + 1, E)
           k == Flushed(d, ops)
           old == EntriesIn(d.tables, DOMAIN d.tables)
<1>1. k.tables = With(d.tables, f.num, E)
  BY DEF Flushed
<1>2. m.lastSeq \in Nat /\ Len(ops) \in Nat /\ DOMAIN m = DOMAIN NewDisk.manifest
  BY LenProperties DEF Numbered, StartOK
<1>3. StartOK(k) /\ TablesGood(k)
  BY <1>2, FlushedStart, FlushedContents DEF Numbered
<1>4. k.manifest.lastSeq = m.lastSeq + Len(ops)
  BY <1>2 DEF Flushed, NewDisk
<1>5. /\ \A e \in E : e.seq \in m.lastSeq + 1..m.lastSeq + 1 + Len(ops) - 1
      /\ \A e, g \in E : e.seq = g.seq => e = g
  BY <1>2, InsertedNumbers
<1>6. EntriesIn(k.tables, DOMAIN k.tables) \subseteq old \cup E
  <2>1. EntriesIn(With(d.tables, f.num, E), DOMAIN k.tables)
            \subseteq EntriesIn(d.tables, DOMAIN k.tables \ {f.num}) \cup E
    BY EntriesInSteps
  <2>2. DOMAIN k.tables = DOMAIN d.tables \cup {f.num}
    BY <1>1 DEF With, Overlay
  <2> QED
    BY <1>1, <2>1, <2>2 DEF EntriesIn
<1>7. \A e \in old : e.seq \in Nat /\ e.seq <= m.lastSeq
  BY DEF Numbered, UpTo, EntriesIn, TablesGood, TableContents, MemContents, Entries
<1> HIDE DEF E, old, k, m
<1>8. \A e, g \in old \cup E : e.seq = g.seq => e = g
  <2>1. \A e, g \in old : e.seq = g.seq => e = g
    BY DEF Numbered, old
  <2>2. \A e \in E, g \in old : e.seq # g.seq
    BY <1>2, <1>5, <1>7
  <2> QED
    BY <1>5, <2>1, <2>2
<1>9. \A e \in old \cup E : e.seq <= m.lastSeq + Len(ops)
  BY <1>2, <1>5, <1>7
<1> QED
  BY <1>3, <1>4, <1>6, <1>8, <1>9 DEF Numbered, UpTo, k

\* So do all of them.
LEMMA LeftByNumbers == Numbered(LeftBy[Len(Earlier)])
<1> DEFINE N == Len(Earlier)
           Good(i) == Numbered(LeftBy[i])
           Bad == {i \in 0..N : ~Good(i)}
<1>1. N \in Nat /\ \A i \in 1..N : Earlier[i] \in Seq(Operations) \ {<<>>}
  <2>1. Earlier \in Seq(Seq(Operations) \ {<<>>})
    BY LevelDBAssumption DEF Operations
  <2> QED
    BY <2>1, LenProperties, ElementOfSeq
<1> HIDE DEF N
<1>2. Bad = {}
  <2>1. SUFFICES ASSUME Bad # {} PROVE FALSE
    OBVIOUS
  <2>2. Bad \in SUBSET Nat
    <3> HIDE DEF Good
    <3> QED
      BY <1>1
  <2>3. PICK n \in Bad : \A i \in Bad : n <= i
    BY <2>1, <2>2, LeastNat
  <2>4. n \in 0..N /\ ~Good(n)
    BY <2>3
  <2>5. LeftBy[n] = IF n = 0 THEN NewDisk ELSE Flushed(LeftBy[n - 1], Earlier[n])
    BY <2>4, LeftByIs DEF N
  <2>6. n # 0
    <3>1. StartOK(NewDisk) /\ TablesGood(NewDisk) /\ NewDisk.tables = <<>>
      BY DEF StartOK, TablesGood, NewDisk
    <3>2. EntriesIn(<<>>, DOMAIN <<>>) = {}
      BY DEF EntriesIn
    <3>3. Numbered(NewDisk)
      BY <3>1, <3>2 DEF Numbered, UpTo
    <3> QED
      BY <2>4, <2>5, <3>3
  <2>7. n \in Nat /\ n \in 1..N /\ n - 1 \in 0..N /\ ~(n <= n - 1)
    BY <2>4, <2>6, <1>1
  <2>8. n - 1 \notin Bad
    <3> HIDE DEF Bad
    <3> QED
      BY <2>3, <2>7
  <2>9. Numbered(LeftBy[n - 1])
    BY <2>7, <2>8
  <2> QED
    BY <1>1, <2>4, <2>5, <2>6, <2>7, <2>9, FlushedNumbers
<1>3. Good(N)
  <2> HIDE DEF Good
  <2> QED
    BY <1>1, <1>2
<1> QED
  BY <1>3 DEF N

\* Before the first step every table has numbers of its own, and there is nothing else.
LEMMA NumbersInit == Init => NumbersInv
<1> SUFFICES ASSUME Init PROVE NumbersInv
  OBVIOUS
<1>1. /\ disk = LeftBy[Len(Earlier)] /\ db = Closed /\ bg = BgIdle
      /\ \A w \in Writers : writer[w] = Idle
  BY DEF Init
<1>2. Numbered(disk)
  BY <1>1, LeftByNumbers
<1>3. /\ db.up = "closed" /\ db.memtables = <<>> /\ db.replay.mem = {} /\ db.imm = {}
      /\ db.current = NoFiles /\ bg.pc = "idle" /\ bg.made = <<>> /\ bg.todo = <<>>
  BY <1>1 DEF Closed, NoReplay, BgIdle
<1>4. MemEntries = {}
  BY <1>3 DEF MemEntries
<1>5. LogEntries = {}
  <2>1. \A n \in DOMAIN disk.logs : disk.logs[n].records = <<>>
    BY <1>2 DEF Numbered, StartOK, EmptyLog
  <2> QED
    BY <2>1 DEF LogEntries, ToSet
<1>6. InTables = {}
  <2>1. InUse = {}
    <3>1. Numbers(db.current) = {}
      BY <1>3, NoNumbers
    <3>2. Made = {} /\ EditNumbers = {} /\ Recovering = {}
      BY <1>3 DEF Made, EditNumbers, Recovering
    <3> QED
      BY <3>1, <3>2 DEF InUse
  <2>2. UNION ToSet(bg.todo) = {}
    BY <1>3 DEF ToSet
  <2> QED
    BY <1>3, <2>1, <2>2 DEF InTables, EntriesIn
<1>7. InManifest \subseteq EntriesIn(disk.tables, DOMAIN disk.tables)
  BY DEF InManifest, EntriesIn
<1>8. NoNumberTwice
  BY <1>2, <1>4, <1>5, <1>6, <1>7 DEF NoNumberTwice, Written, Numbered
<1>9. TablesBelow
  BY <1>2, <1>3, <1>7 DEF TablesBelow, Numbered, UpTo
<1>10. LogsBelow
  BY <1>1, <1>3, <1>4 DEF LogsBelow, Busy, Idle
<1> QED
  BY <1>8, <1>9, <1>10 DEF NumbersInv

\* What has been written are entries, with numbers that are numbers.
LEMMA WrittenAreEntries ==
    ASSUME LogsOK, EntriesInv, LogsExist
    PROVE  /\ Written \subseteq Entries
           /\ db.lastSeq \in Nat /\ disk.manifest.lastSeq \in Nat /\ bg.edit.lastSeq \in Nat
           /\ db.up = "open" => ImmEntries \subseteq MemEntries
           /\ \A e \in Entries : e.seq \in Nat
<1>1. LogEntries \subseteq Entries
  <2> SUFFICES ASSUME NEW n \in DOMAIN disk.logs, NEW r \in ToSet(disk.logs[n].records)
               PROVE  InsertInto(r.ops, r.seq) \subseteq Entries
    BY DEF LogEntries
  <2>1. disk.logs[n].records \in Seq(LogRecords)
    BY DEF LogsOK
  <2>2. r \in LogRecords
    BY <2>1, LenProperties, ElementOfSeq DEF ToSet
  <2>3. InsertInto(r.ops, r.seq) \in MemContents
    BY <2>2, InsertedEntries DEF LogRecords
  <2> QED
    BY <2>3 DEF MemContents
<1>2. MemEntries \subseteq Entries
  BY DEF MemEntries, EntriesInv, MemContents
<1>3. \A N : EntriesIn(disk.tables, N) \subseteq Entries
  BY DEF EntriesIn, EntriesInv, TableContents, MemContents
<1>4. UNION ToSet(bg.todo) \subseteq Entries
  <2>1. bg.todo \in Seq(TableContents)
    BY DEF EntriesInv
  <2>2. \A p \in ToSet(bg.todo) : p \in TableContents
    BY <2>1, LenProperties, ElementOfSeq DEF ToSet
  <2> QED
    BY <2>2 DEF TableContents, MemContents
<1>5. db.replay.mem \subseteq Entries
  BY DEF EntriesInv, MemContents
<1>6. db.up = "open" => ImmEntries \subseteq MemEntries
  BY DEF LogsExist, ImmEntries, MemEntries
<1>7. InManifest \subseteq Entries /\ InTables \subseteq Entries
  <2>1. InManifest \subseteq Entries
    BY <1>3 DEF InManifest
  <2>2. EntriesIn(disk.tables, InUse) \subseteq Entries
    BY <1>3
  <2> DEFINE A == EntriesIn(disk.tables, InUse)
             B == UNION ToSet(bg.todo)
             C == db.replay.mem
  <2>3. InTables = A \cup B \cup C
    BY DEF InTables
  <2>4. A \subseteq Entries
    BY <2>2
  <2>5. B \subseteq Entries
    BY <1>4
  <2>6. C \subseteq Entries
    BY <1>5
  <2> HIDE DEF A, B, C
  <2> QED
    BY <2>1, <2>3, <2>4, <2>5, <2>6
<1>8. Written \subseteq Entries
  BY <1>1, <1>2, <1>7 DEF Written
<1> QED
  BY <1>6, <1>8 DEF LogsOK, Entries

\* The tables that are named are the same when nothing of that changes.
LEMMA SameTables ==
    ASSUME disk'.tables = disk.tables, disk'.manifest = disk.manifest, bg' = bg,
           db'.up = db.up, db'.current = db.current, db'.pending = db.pending,
           db'.replay = db.replay
    PROVE  InTables' = InTables /\ InManifest' = InManifest /\ EditNumbers' = EditNumbers
<1>1. Made' = Made /\ EditNumbers' = EditNumbers /\ Recovering' = Recovering
  BY DEF Made, EditNumbers, Recovering
<1>2. InUse' = InUse
  BY <1>1 DEF InUse
<1> QED
  BY <1>1, <1>2 DEF InTables, InManifest

\* What numbers there are, when nothing is written but what was written already.
LEMMA NothingNewWritten ==
    ASSUME NumbersInv, LogEntries' \subseteq LogEntries, MemEntries' \subseteq Written,
           InTables' = InTables, InManifest' = InManifest, EditNumbers' = EditNumbers,
           UNCHANGED bg, disk'.tables = disk.tables, disk'.manifest = disk.manifest,
           db'.up = db.up, db'.lastSeq \in Nat, db.lastSeq \in Nat, db.lastSeq <= db'.lastSeq,
           Written \subseteq Entries, disk.manifest.lastSeq \in Nat, bg.edit.lastSeq \in Nat
    PROVE  NoNumberTwice' /\ TablesBelow'
<1>1. Written' \subseteq Written
  BY DEF Written
<1>2. NoNumberTwice'
  BY <1>1 DEF NoNumberTwice, NumbersInv
<1>3. \A e \in InTables : e.seq \in Nat
  BY DEF Written, Entries
<1>4. TablesBelow'
  BY <1>3 DEF NumbersInv, TablesBelow, UpTo
<1> QED
  BY <1>2, <1>4

\* Nobody is in the middle of a write when the first writer begins one.
LEMMA NothingUnpublished ==
    ASSUME \A w \in Writers : ~Busy(w) \/ writer[w].pc = "append"
    PROVE  Unpublished = {}
BY DEF Unpublished

\* A writer is busy only while the database is open.
LEMMA BusyIsOpen ==
    ASSUME NothingBeforeOpen, NEW w \in Writers, Busy(w)
    PROVE  db.up = "open"
BY DEF NothingBeforeOpen, Busy

\* A record that is appended to the log brings the numbers after the last one.
LEMMA NumbersAppend ==
    ASSUME CrashInv, EntriesInv, NumbersInv, NEW w \in Writers, AppendToLog(w)
    PROVE  NumbersInv'
<1> DEFINE E == InsertInto(GroupOps, group.seq)
           n == group.log
           l == disk.logs[n]
<1>0. /\ DOMAIN db = DOMAIN Closed /\ DOMAIN disk = {"tables", "logs", "manifest"}
      /\ NothingBeforeOpen /\ FirstIsBusy /\ GroupIsLogged /\ LogsOK /\ LogsExist /\ NamesFiles
      /\ DOMAIN writer = Writers /\ \A v \in Writers : DOMAIN writer[v] = DOMAIN Idle
  BY Fields DEF CrashInv, LogsInv, FilesInv, Shape, NamesFiles
<1>1. /\ queue # <<>> /\ Head(queue) = w /\ writer[w].pc = "append" /\ Busy(w)
      /\ disk' = [disk EXCEPT !.logs[n].records = Append(@, [seq |-> group.seq, ops |-> GroupOps])]
      /\ writer' = [writer EXCEPT ![w].pc = IF writer[w].sync THEN "sync" ELSE "insert"]
      /\ UNCHANGED <<db, queue, group, reader, bg, history, events>>
  BY DEF AppendToLog, AtFront, Busy
<1>2. \A v \in Writers \ {w} : ~Busy(v)
  BY <1>0, <1>1, OnlyFirstIsBusy
<1>3. db.up = "open" /\ n = db.log /\ n \in DOMAIN disk.logs
  BY <1>0, <1>1, BusyIsOpen DEF GroupIsLogged, LogsExist
<1>4. Unpublished = {}
  BY <1>1, <1>2, NothingUnpublished
<1>5. \A v \in Writers : Busy(v)' => v = w
  BY <1>0, <1>1, <1>2 DEF Busy
<1>6. Unpublished' = E
  <2>1. Busy(w)' /\ writer'[w].pc # "append"
    BY <1>0, <1>1, Fields DEF Busy
  <2> QED
    BY <1>1, <2>1 DEF Unpublished, GroupOps
<1>7. GroupOps \in Seq(Operations) /\ group.seq \in Nat \ {0} /\ group.seq = db.lastSeq + 1
  BY <1>0, <1>1 DEF GroupIsLogged, GroupRecord, LogRecords, NumbersInv, LogsBelow
<1>8. /\ \A e \in E : e.seq \in group.seq..group.seq + Len(GroupOps) - 1
      /\ \A e, f \in E : e.seq = f.seq => e = f
  BY <1>7, InsertedNumbers
<1>9. LogEntries' \subseteq LogEntries \cup E
  <2> DEFINE rec == [seq |-> group.seq, ops |-> GroupOps]
  <2>1. l.records \in Seq(LogRecords) /\ DOMAIN l = {"records", "synced"}
    BY <1>0, <1>3 DEF LogsOK
  <2>2. disk'.logs = [disk.logs EXCEPT ![n].records = Append(@, rec)]
    BY <1>0, <1>1
  <2>3. DOMAIN disk'.logs = DOMAIN disk.logs /\ disk'.logs[n].records = Append(l.records, rec)
    BY <1>3, <2>1, <2>2
  <2>4. \A m \in DOMAIN disk.logs \ {n} : disk'.logs[m] = disk.logs[m]
    BY <2>2
  <2>5. ToSet(Append(l.records, rec)) \subseteq ToSet(l.records) \cup {rec}
    <3> DEFINE s == l.records
    <3> HIDE DEF s, rec, l
    <3>1. s \in Seq(LogRecords)
      BY <2>1 DEF s
    <3>2. DOMAIN s = 1..Len(s) /\ Len(s) \in Nat
      BY <3>1, LenProperties
    <3>3. Len(Append(s, rec)) = Len(s) + 1 /\ DOMAIN Append(s, rec) = 1..Len(s) + 1
          /\ \A i \in 1..Len(s) : Append(s, rec)[i] = s[i]
          /\ Append(s, rec)[Len(s) + 1] = rec
      BY <3>1, AppendProperties
    <3>4. \A i \in 1..Len(s) + 1 : i = Len(s) + 1 \/ i \in 1..Len(s)
      BY <3>2
    <3>5. \A i \in DOMAIN Append(s, rec) : Append(s, rec)[i] \in ToSet(s) \cup {rec}
      BY <3>2, <3>3, <3>4 DEF ToSet
    <3>6. ToSet(Append(s, rec)) \subseteq ToSet(s) \cup {rec}
      BY <3>5 DEF ToSet
    <3> QED
      BY <3>6 DEF s
  <2>6. InsertInto(rec.ops, rec.seq) = E
    OBVIOUS
  <2> HIDE DEF rec, E
  <2>7. ASSUME NEW m \in DOMAIN disk.logs, NEW r \in ToSet(disk'.logs[m].records)
        PROVE  InsertInto(r.ops, r.seq) \subseteq LogEntries \cup E
    <3>1. r = rec \/ r \in ToSet(disk.logs[m].records)
      BY <2>3, <2>4, <2>5
    <3> QED
      BY <2>6, <3>1 DEF LogEntries
  <2> QED
    BY <2>3, <2>7 DEF LogEntries
<1>10. MemEntries' = MemEntries /\ ImmEntries' = ImmEntries
  BY <1>1 DEF MemEntries, ImmEntries
<1>11. /\ disk'.tables = disk.tables /\ disk'.manifest = disk.manifest
  BY <1>0, <1>1
<1>12. InTables' = InTables /\ InManifest' = InManifest /\ EditNumbers' = EditNumbers
  BY <1>1, <1>11, SameTables
<1>13. /\ Written \subseteq Entries
       /\ db.lastSeq \in Nat /\ disk.manifest.lastSeq \in Nat /\ bg.edit.lastSeq \in Nat
       /\ \A e \in Entries : e.seq \in Nat
  BY <1>0, WrittenAreEntries
<1>14. \A e \in Written : e.seq <= db.lastSeq
  <2>1. UpTo(LogEntries \cup MemEntries, db.lastSeq) /\ UpTo(InTables, db.lastSeq)
    BY <1>3, <1>4 DEF NumbersInv, TablesBelow, LogsBelow
  <2>2. UpTo(InManifest, disk.manifest.lastSeq) /\ disk.manifest.lastSeq <= db.lastSeq
    BY <1>3 DEF NumbersInv, TablesBelow
  <2> QED
    BY <1>13, <2>1, <2>2 DEF UpTo, Written
<1> HIDE DEF E
<1>15. NoNumberTwice'
  <2>1. Written' \subseteq Written \cup E
    BY <1>9, <1>10, <1>12 DEF Written
  <2>2. \A e \in E, f \in Written : e.seq # f.seq
    BY <1>7, <1>8, <1>13, <1>14
  <2>3. \A e, f \in Written \cup E : e.seq = f.seq => e = f
    BY <1>8, <2>2 DEF NumbersInv, NoNumberTwice
  <2> QED
    BY <2>1, <2>3 DEF NoNumberTwice
<1>16. TablesBelow'
  BY <1>1, <1>11, <1>12 DEF NumbersInv, TablesBelow
<1>17. LogsBelow'
  <2>1. UpTo((LogEntries \cup MemEntries)' \ E, db.lastSeq)
    BY <1>9, <1>10, <1>14 DEF UpTo, Written
  <2>2. UpTo(ImmEntries', db.lastSeq)
    BY <1>3, <1>10 DEF NumbersInv, LogsBelow
  <2>3. \A v \in Writers : Busy(v)' => group'.seq = db'.lastSeq + 1
    BY <1>1, <1>5, <1>7
  <2> QED
    BY <1>1, <1>3, <1>6, <2>1, <2>2, <2>3 DEF LogsBelow
<1> QED
  BY <1>15, <1>16, <1>17 DEF NumbersInv

\* A step that moves nobody into or out of the middle of a write leaves the group's
\* entries as they are.
LEMMA SameUnpublished ==
    ASSUME group'.seq = group.seq, group'.batches = group.batches,
           \A w \in Writers : (Busy(w) /\ writer[w].pc # "append")' <=> Busy(w) /\ writer[w].pc # "append"
    PROVE  Unpublished' = Unpublished
<1>1. GroupOps' = GroupOps
  BY DEF GroupOps
<1> QED
  BY <1>1 DEF Unpublished

\* The other steps of a writer write nothing that was not written.
LEMMA NumbersWriter ==
    ASSUME CrashInv, EntriesInv, NumbersInv, CrashInv', NEW w \in Writers,
           WriterStep(w) \/ \E b \in Batches : Write(w, b)
    PROVE  NumbersInv'
<1>0. /\ DOMAIN db = DOMAIN Closed /\ DOMAIN disk = {"tables", "logs", "manifest"}
      /\ NothingBeforeOpen /\ FirstIsBusy /\ GroupIsLogged /\ LogsOK /\ LogsExist /\ NamesFiles
      /\ DOMAIN writer = Writers /\ \A v \in Writers : DOMAIN writer[v] = DOMAIN Idle
      /\ Shape /\ LogsOK'
  BY Fields DEF CrashInv, LogsInv, FilesInv, Shape, NamesFiles
<1>1. /\ Written \subseteq Entries
      /\ db.lastSeq \in Nat /\ disk.manifest.lastSeq \in Nat /\ bg.edit.lastSeq \in Nat
      /\ \A e \in Entries : e.seq \in Nat
      /\ db.up = "open" => ImmEntries \subseteq MemEntries
      /\ db'.lastSeq \in Nat
  BY <1>0, WrittenAreEntries DEF LogsOK
<1>2. UNCHANGED bg /\ disk'.manifest = disk.manifest /\ db'.up = db.up /\ db'.replay = db.replay
  BY <1>0, WriterDoes DEF WriterEffect
<1>3. CASE (\E b \in Batches : Write(w, b)) \/ WaitForRoom(w) \/ NoRoom(w)
  <2>1. /\ UNCHANGED <<disk, db, group, bg>> /\ db.up = "open"
        /\ writer[w].pc \in {"idle", "queued"}
        /\ \/ \E o, s : writer' = [writer EXCEPT ![w] = [pc |-> "queued", sync |-> s, ops |-> o]]
           \/ writer' = [writer EXCEPT ![w].pc = "waiting"]
           \/ writer' = [writer EXCEPT ![w] = Idle]
    BY <1>3 DEF Write, WaitForRoom, NoRoom, Open, AtFront
  <2>2. \A v \in Writers : /\ Busy(v)' <=> Busy(v)
                           /\ Busy(v) => writer'[v].pc = writer[v].pc
    <3> TAKE v \in Writers
    <3>1. CASE v = w
      <4>1. writer'[w].pc \in {"idle", "queued", "waiting"}
        BY <1>0, <2>1, Fields DEF Idle
      <4> QED
        BY <2>1, <3>1, <4>1 DEF Busy
    <3>2. CASE v # w
      BY <1>0, <2>1, <3>2 DEF Busy
    <3> QED
      BY <3>1, <3>2
  <2>3. Unpublished' = Unpublished
    BY <2>1, <2>2, SameUnpublished
  <2>4. LogEntries' = LogEntries /\ MemEntries' = MemEntries /\ ImmEntries' = ImmEntries
    BY <2>1 DEF LogEntries, MemEntries, ImmEntries
  <2>5. InTables' = InTables /\ InManifest' = InManifest /\ EditNumbers' = EditNumbers
    BY <2>1, SameTables
  <2>6. NoNumberTwice' /\ TablesBelow'
    BY <1>1, <2>1, <2>4, <2>5, NothingNewWritten DEF Written
  <2>7. LogsBelow'
    BY <2>1, <2>2, <2>3, <2>4 DEF NumbersInv, LogsBelow
  <2> QED
    BY <2>6, <2>7 DEF NumbersInv
<1>4. CASE BeginWrite(w)
  <2>1. /\ queue # <<>> /\ Head(queue) = w /\ writer[w].pc = "queued" /\ db.up = "open"
        /\ db' = IF HasRoom THEN db ELSE SwitchMemTable(db)
        /\ disk' = [disk EXCEPT !.logs = IF HasRoom THEN @ ELSE With(@, SwitchMemTable(db).log, EmptyLog)]
        /\ group'.seq = db.lastSeq + 1
        /\ writer' = [writer EXCEPT ![w].pc = "append"]
    BY <1>4 DEF BeginWrite, Open, AtFront
  <2>2. ~Busy(w) /\ \A v \in Writers : ~Busy(v)
    BY <1>0, <2>1, OnlyFirstIsBusy DEF Busy
  <2>3. Unpublished = {}
    BY <2>2, NothingUnpublished
  <2>4. \A v \in Writers : ~Busy(v)' \/ writer'[v].pc = "append"
    BY <1>0, <2>1, <2>2, Fields DEF Busy
  <2>5. Unpublished' = {}
    BY <2>4 DEF Unpublished
  <2> DEFINE d == [db EXCEPT !.nextFile = @ + 1, !.log = db.nextFile, !.imm = {db.log},
                             !.memtables = With(@, db.nextFile, {})]
  <2>6. /\ DOMAIN d = DOMAIN Closed /\ d.memtables = With(db.memtables, db.nextFile, {})
        /\ d.imm = {db.log} /\ d.log = db.nextFile
        /\ \A x \in {"up", "current", "pending", "replay", "lastSeq"} : d[x] = db[x]
    BY <1>0, Fields
  <2>7. SwitchMemTable(db) = MaybeSchedule(d)
    BY DEF SwitchMemTable
  <2> HIDE DEF d
  <2>8. \/ db' = db
        \/ /\ db'.memtables = With(db.memtables, db.nextFile, {}) /\ db'.imm = {db.log}
           /\ \A x \in {"up", "current", "pending", "replay", "lastSeq"} : db'[x] = db[x]
    <3>1. \A x \in DOMAIN Closed \ {"scheduled"} : MaybeSchedule(d)[x] = d[x]
      BY <2>6, MaybeScheduleShape
    <3> QED
      BY <2>1, <2>6, <2>7, <3>1, Fields
  <2>9. \A x \in {"up", "current", "pending", "replay", "lastSeq"} : db'[x] = db[x]
    BY <2>8
  <2>10. MemEntries' \subseteq MemEntries /\ UpTo(ImmEntries', db.lastSeq)
    <3>1. CASE db' = db
      <4>1. MemEntries' = MemEntries /\ ImmEntries' = ImmEntries
        BY <3>1 DEF MemEntries, ImmEntries
      <4> QED
        BY <2>1, <4>1 DEF NumbersInv, LogsBelow
    <3>2. CASE db'.memtables = With(db.memtables, db.nextFile, {}) /\ db'.imm = {db.log}
      <4>1. /\ DOMAIN db'.memtables = DOMAIN db.memtables \cup {db.nextFile}
            /\ db'.memtables[db.nextFile] = {}
            /\ \A m \in DOMAIN db.memtables \ {db.nextFile} : db'.memtables[m] = db.memtables[m]
        BY <3>2 DEF With, Overlay
      <4>2. MemEntries' \subseteq MemEntries
        BY <4>1 DEF MemEntries
      <4>3. db.log \in DOMAIN db.memtables
        BY <1>0, <2>1 DEF LogsExist
      <4>4. ImmEntries' \subseteq MemEntries
        BY <3>2, <4>1, <4>3 DEF ImmEntries, MemEntries
      <4> QED
        BY <2>1, <2>3, <4>2, <4>4 DEF NumbersInv, LogsBelow, UpTo
    <3> QED
      BY <2>8, <3>1, <3>2
  <2>11. LogEntries' \subseteq LogEntries
    <3>1. disk'.logs = disk.logs \/ \E x : disk'.logs = With(disk.logs, x, EmptyLog)
      BY <1>0, <2>1
    <3>2. CASE disk'.logs = disk.logs
      BY <3>2 DEF LogEntries
    <3>3. ASSUME NEW x, disk'.logs = With(disk.logs, x, EmptyLog) PROVE LogEntries' \subseteq LogEntries
      <4>1. /\ DOMAIN disk'.logs = DOMAIN disk.logs \cup {x} /\ disk'.logs[x] = EmptyLog
            /\ \A m \in DOMAIN disk.logs \ {x} : disk'.logs[m] = disk.logs[m]
        BY <3>3 DEF With, Overlay
      <4>2. ToSet(EmptyLog.records) = {}
        BY DEF EmptyLog, ToSet
      <4> QED
        BY <4>1, <4>2 DEF LogEntries
    <3> QED
      BY <3>1, <3>2, <3>3
  <2>12. disk'.tables = disk.tables
    BY <1>0, <2>1
  <2>13. InTables' = InTables /\ InManifest' = InManifest /\ EditNumbers' = EditNumbers
    BY <1>2, <2>9, <2>12, SameTables
  <2>14. NoNumberTwice' /\ TablesBelow'
    BY <1>1, <1>2, <2>9, <2>10, <2>11, <2>12, <2>13, NothingNewWritten DEF Written
  <2>15. UpTo((LogEntries \cup MemEntries)' \ Unpublished', db.lastSeq)
    BY <2>1, <2>3, <2>5, <2>10, <2>11 DEF NumbersInv, LogsBelow, UpTo
  <2>16. LogsBelow'
    BY <2>1, <2>4, <2>9, <2>10, <2>15 DEF LogsBelow
  <2> QED
    BY <2>14, <2>16 DEF NumbersInv
<1>5. CASE AppendToLog(w)
  BY <1>5, NumbersAppend
<1>6. CASE Sync(w) \/ SyncFails(w)
  <2>1. /\ queue # <<>> /\ Head(queue) = w /\ writer[w].pc = "sync" /\ Busy(w)
        /\ UNCHANGED db /\ (group' = group \/ group' = [group EXCEPT !.failed = TRUE])
        /\ \/ UNCHANGED disk
           \/ disk' = [disk EXCEPT !.logs[group.log].synced = Len(disk.logs[group.log].records)]
        /\ \E pc \in {"insert", "publish"} : writer' = [writer EXCEPT ![w].pc = pc]
    BY <1>6 DEF Sync, SyncFails, AtFront, Busy
  <2>2. \A v \in Writers \ {w} : ~Busy(v)
    BY <1>0, <2>1, OnlyFirstIsBusy
  <2>3. \A v \in Writers : /\ Busy(v)' <=> Busy(v)
                           /\ Busy(v) => v = w /\ writer[v].pc # "append" /\ writer'[v].pc # "append"
    BY <1>0, <2>1, <2>2, Fields DEF Busy
  <2>4. group'.seq = group.seq /\ group'.batches = group.batches
    BY <1>0, <2>1 DEF FirstIsBusy, NoGroup
  <2>5. Unpublished' = Unpublished
    BY <2>3, <2>4, SameUnpublished
  <2>6. LogEntries' = LogEntries
    <3>1. DOMAIN disk'.logs = DOMAIN disk.logs
          /\ \A m \in DOMAIN disk.logs : disk'.logs[m].records = disk.logs[m].records
      <4>1. \A m \in DOMAIN disk.logs : DOMAIN disk.logs[m] = {"records", "synced"}
        BY <1>0 DEF LogsOK
      <4> QED
        BY <1>0, <2>1, <4>1
    <3> QED
      BY <3>1 DEF LogEntries
  <2>7. MemEntries' = MemEntries /\ ImmEntries' = ImmEntries
    BY <2>1 DEF MemEntries, ImmEntries
  <2>8. disk'.tables = disk.tables
    BY <1>0, <2>1
  <2>9. InTables' = InTables /\ InManifest' = InManifest /\ EditNumbers' = EditNumbers
    BY <1>2, <2>1, <2>8, SameTables
  <2>10. NoNumberTwice' /\ TablesBelow'
    BY <1>1, <1>2, <2>1, <2>6, <2>7, <2>8, <2>9, NothingNewWritten DEF Written
  <2>11. db.up = "open"
    BY <1>0, <2>1, BusyIsOpen
  <2>12. LogsBelow'
    BY <2>1, <2>3, <2>4, <2>5, <2>6, <2>7, <2>11 DEF NumbersInv, LogsBelow
  <2> QED
    BY <2>10, <2>12 DEF NumbersInv
<1>7. CASE InsertIntoMemTable(w)
  <2> DEFINE E == InsertInto(GroupOps, group.seq)
             m == group.log
  <2>1. /\ queue # <<>> /\ Head(queue) = w /\ writer[w].pc = "insert" /\ Busy(w)
        /\ UNCHANGED <<disk, group>>
        /\ db' = [db EXCEPT !.memtables[m] = @ \cup E]
        /\ writer' = [writer EXCEPT ![w].pc = "publish"]
    BY <1>7 DEF InsertIntoMemTable, AtFront, Busy
  <2>2. \A v \in Writers \ {w} : ~Busy(v)
    BY <1>0, <2>1, OnlyFirstIsBusy
  <2>3. \A v \in Writers : /\ Busy(v)' <=> Busy(v)
                           /\ Busy(v) => v = w /\ writer[v].pc # "append" /\ writer'[v].pc # "append"
    BY <1>0, <2>1, <2>2, Fields DEF Busy
  <2>4. Unpublished' = Unpublished
    BY <2>1, <2>3, SameUnpublished
  <2>5. Unpublished = E
    BY <2>1 DEF Unpublished
  <2>6. E \subseteq LogEntries
    <3>1. m = db.log /\ m \in DOMAIN disk.logs /\ db.up = "open"
      BY <1>0, <2>1, BusyIsOpen DEF GroupIsLogged, LogsExist
    <3>2. GoodLog(disk.logs[m])
      BY <1>0, <3>1, LogsAreGood
    <3>3. \E n \in {disk.logs[m].synced, Len(disk.logs[m].records)} :
              HasRecord(disk.logs[m], n, GroupRecord)
      BY <1>0, <2>1 DEF GroupIsLogged
    <3>4. PICK n \in {disk.logs[m].synced, Len(disk.logs[m].records)} :
              HasRecord(disk.logs[m], n, GroupRecord)
      BY <3>3
    <3>5. PICK i \in 1..n : disk.logs[m].records[i] = GroupRecord
      BY <3>4 DEF HasRecord
    <3>6. /\ Len(disk.logs[m].records) \in Nat /\ disk.logs[m].synced \in Nat
          /\ disk.logs[m].synced <= Len(disk.logs[m].records)
          /\ DOMAIN disk.logs[m].records = 1..Len(disk.logs[m].records)
      BY <3>2, LenProperties DEF GoodLog
    <3>7. i \in DOMAIN disk.logs[m].records
      BY <3>4, <3>5, <3>6
    <3>8. GroupRecord \in ToSet(disk.logs[m].records)
      BY <3>5, <3>7 DEF ToSet
    <3>9. GroupRecord.ops = GroupOps /\ GroupRecord.seq = group.seq
      BY DEF GroupRecord
    <3> QED
      BY <3>1, <3>8, <3>9 DEF LogEntries
  <2> HIDE DEF E
  <2>7. /\ db'.memtables = [db.memtables EXCEPT ![m] = @ \cup E]
        /\ \A x \in {"up", "current", "pending", "replay", "lastSeq", "imm", "log"} : db'[x] = db[x]
    BY <1>0, <2>1, Fields
  <2>8. MemEntries' \subseteq MemEntries \cup E
    BY <2>7 DEF MemEntries
  <2>9. ImmEntries' = ImmEntries
    <3>1. \A n \in db.imm : n # m /\ n \in DOMAIN db.memtables
      <4>1. m = db.log /\ db.up = "open"
        BY <1>0, <2>1, BusyIsOpen DEF GroupIsLogged
      <4>2. \A n \in db.imm : n < db.log /\ n \in Nat
        BY <1>0, <4>1 DEF LogsExist, NamesFiles, ManifestNamesFiles
      <4>3. db.log \in Nat /\ db.imm \subseteq DOMAIN db.memtables
        BY <1>0, <4>1 DEF LogsExist, Below
      <4> QED
        BY <4>1, <4>2, <4>3
    <3>2. \A n \in db.imm : db'.memtables[n] = db.memtables[n]
      BY <2>7, <3>1
    <3> QED
      BY <2>7, <3>2 DEF ImmEntries
  <2>10. LogEntries' = LogEntries
    BY <2>1 DEF LogEntries
  <2>11. InTables' = InTables /\ InManifest' = InManifest /\ EditNumbers' = EditNumbers
    BY <1>2, <2>1, <2>7, SameTables
  <2>12. NoNumberTwice' /\ TablesBelow'
    BY <1>1, <1>2, <2>1, <2>6, <2>7, <2>8, <2>10, <2>11, NothingNewWritten DEF Written
  <2>13. db.up = "open"
    BY <1>0, <2>1, BusyIsOpen
  <2>14. UpTo((LogEntries \cup MemEntries)' \ Unpublished', db.lastSeq)
    BY <2>4, <2>5, <2>8, <2>10, <2>13 DEF NumbersInv, LogsBelow, UpTo
  <2>15. LogsBelow'
    BY <2>1, <2>3, <2>7, <2>9, <2>13, <2>14 DEF NumbersInv, LogsBelow
  <2> QED
    BY <2>12, <2>15 DEF NumbersInv
<1>8. CASE Publish(w)
  <2> DEFINE n == Len(group.batches)
             L == Len(GroupOps)
  <2>1. /\ queue # <<>> /\ Head(queue) = w /\ writer[w].pc = "publish" /\ Busy(w) /\ db.up = "open"
        /\ UNCHANGED disk
        /\ db' = [db EXCEPT !.lastSeq = @ + L, !.bgError = @ \/ group.failed]
        /\ writer' = [v \in Writers |-> IF \E i \in 1..n : queue[i] = v THEN Idle ELSE writer[v]]
    BY <1>8 DEF Publish, Open, AtFront, Busy
  <2>2. \A v \in Writers \ {w} : ~Busy(v)
    BY <1>0, <2>1, OnlyFirstIsBusy
  <2>3. n \in Nat \ {0} /\ queue[1] = w
    BY <1>0, <2>1, QueueSteps DEF FirstIsBusy
  <2>4. \A v \in Writers : ~Busy(v)'
    <3>1. writer'[w] = Idle
      BY <2>1, <2>3
    <3>2. \A v \in Writers \ {w} : writer'[v] \in {Idle, writer[v]}
      BY <2>1
    <3> QED
      BY <2>2, <3>1, <3>2 DEF Busy, Idle
  <2>5. Unpublished' = {}
    BY <2>4 DEF Unpublished
  <2>6. GroupOps \in Seq(Operations) /\ group.seq \in Nat \ {0} /\ group.seq = db.lastSeq + 1
        /\ L \in Nat
    BY <1>0, <2>1, LenProperties DEF GroupIsLogged, GroupRecord, LogRecords, NumbersInv, LogsBelow
  <2>7. \A e \in Unpublished : e.seq <= db.lastSeq + L
    <3>1. \A e \in InsertInto(GroupOps, group.seq) : e.seq \in group.seq..group.seq + L - 1
      BY <2>6, InsertedNumbers
    <3> QED
      BY <1>1, <2>6, <3>1 DEF Unpublished
  <2> HIDE DEF L, n
  <2>8. /\ db'.lastSeq = db.lastSeq + L
        /\ \A x \in {"up", "current", "pending", "replay", "imm", "log", "memtables"} : db'[x] = db[x]
    BY <1>0, <2>1, Fields
  <2>9. LogEntries' = LogEntries /\ MemEntries' = MemEntries /\ ImmEntries' = ImmEntries
    BY <2>1, <2>8 DEF LogEntries, MemEntries, ImmEntries
  <2>10. InTables' = InTables /\ InManifest' = InManifest /\ EditNumbers' = EditNumbers
    BY <1>2, <2>1, <2>8, SameTables
  <2>11. db.lastSeq <= db'.lastSeq
    BY <1>1, <2>6, <2>8
  <2>12. NoNumberTwice' /\ TablesBelow'
    BY <1>1, <1>2, <2>1, <2>8, <2>9, <2>10, <2>11, NothingNewWritten DEF Written
  <2>13. \A e \in LogEntries \cup MemEntries : e.seq <= db.lastSeq + L
    <3>1. \A e \in LogEntries \cup MemEntries : e.seq \in Nat
      BY <1>1 DEF Written
    <3>2. \A e \in (LogEntries \cup MemEntries) \ Unpublished : e.seq <= db.lastSeq
      BY <2>1 DEF NumbersInv, LogsBelow, UpTo
    <3>3. \A e \in (LogEntries \cup MemEntries) \ Unpublished : e.seq <= db.lastSeq + L
      BY <1>1, <2>6, <3>1, <3>2
    <3> QED
      BY <2>7, <3>3
  <2>14. LogsBelow'
    <3>1. ImmEntries \subseteq MemEntries
      BY <1>1, <2>1
    <3> QED
      BY <2>1, <2>4, <2>8, <2>9, <2>13, <3>1 DEF LogsBelow, UpTo
  <2> QED
    BY <2>12, <2>14 DEF NumbersInv
<1> QED
  BY <1>3, <1>4, <1>5, <1>6, <1>7, <1>8 DEF WriterStep

\* A reader writes nothing.
LEMMA NumbersReader ==
    ASSUME CrashInv, EntriesInv, NumbersInv,
           \/ \E s \in Snapshots : GetSnapshot(s) \/ ReleaseSnapshot(s)
           \/ \E r \in Readers : BeginRead(r) \/ EndRead(r)
    PROVE  NumbersInv'
<1>0. Shape /\ LogsOK /\ LogsExist
  BY DEF CrashInv, LogsInv, FilesInv
<1>1. /\ UNCHANGED <<disk, writer, group, bg>>
      /\ \A x \in DOMAIN Closed \ {"scheduled", "seek", "snapshots"} : db'[x] = db[x]
  BY <1>0, ReaderDoes
<1>2. \A x \in {"up", "current", "pending", "replay", "lastSeq", "imm", "log", "logNumber",
                "memtables"} : db'[x] = db[x]
  BY <1>1, Fields
<1>3. /\ Written \subseteq Entries
      /\ db.lastSeq \in Nat /\ disk.manifest.lastSeq \in Nat /\ bg.edit.lastSeq \in Nat
  BY <1>0, WrittenAreEntries
<1>4. \A v \in Writers : Busy(v)' <=> Busy(v)
  BY <1>1 DEF Busy
<1>5. Unpublished' = Unpublished
  BY <1>1, <1>4, SameUnpublished
<1>6. LogEntries' = LogEntries /\ MemEntries' = MemEntries /\ ImmEntries' = ImmEntries
  BY <1>1, <1>2 DEF LogEntries, MemEntries, ImmEntries
<1>7. InTables' = InTables /\ InManifest' = InManifest /\ EditNumbers' = EditNumbers
  BY <1>1, <1>2, SameTables
<1>8. NoNumberTwice' /\ TablesBelow'
  BY <1>1, <1>2, <1>3, <1>6, <1>7, NothingNewWritten DEF Written
<1>9. LogsBelow'
  BY <1>1, <1>2, <1>4, <1>5, <1>6 DEF NumbersInv, LogsBelow
<1> QED
  BY <1>8, <1>9 DEF NumbersInv

-----------------------------------------------------------------------------
(* What a merge writes: its entries in order, cut into tables. *)

\* What is appended as a sequence of one, or of none.
LEMMA AppendOneOrNone ==
    ASSUME NEW S, NEW s \in Seq(S), NEW x
    PROVE  s \o <<>> = s /\ s \o <<x>> = Append(s, x)
<1> DEFINE T == S \cup {x}
<1>1. s \in Seq(T) /\ x \in T
  OBVIOUS
<1> HIDE DEF T
<1>2. s \o <<>> = s
  BY <1>1, ConcatEmptySeq
<1>3. Append(s, x) \in Seq(T) /\ s \o <<x>> \in Seq(T)
  BY <1>1, AppendProperties, ConcatProperties
<1>4. s \o <<x>> = Append(s, x)
  BY <1>1, <1>3
<1> QED
  BY <1>2, <1>4

\* One entry e of a merge that keeps K: what is open so far may be closed before it,
\* and is closed after it when it is full.
TakesOne(K, e, done, open, done2, open2) ==
    \E left \in {{}, open} :
        LET cut == IF left = open THEN done ELSE Append(done, open)
        IN  \/ e \in K /\ done2 = Append(cut, left \cup {e}) /\ open2 = {}
            \/ done2 = cut /\ open2 = left \cup ({e} \cap K)

\* It takes the entries E in order; its outputs are what is closed, and open at the end.
GoesThrough(c, E, snapshot, done, open) ==
    LET N == Cardinality(E)
    IN  /\ done[0] = <<>> /\ open[0] = {}
        /\ \A n \in 1..N : done[n - 1] \in Seq(MemContents) =>
               TakesOne(Kept(c, E, snapshot), InOrder(E)[n], done[n - 1], open[n - 1],
                        done[n], open[n])
        /\ done[N] \in Seq(MemContents) =>
               Outputs(c, E, snapshot) = IF open[N] = {} THEN done[N] ELSE Append(done[N], open[N])

\* The outputs of a merge come about entry by entry.
LEMMA OutputsInSteps ==
    ASSUME NEW c, NEW E \in MemContents, NEW snapshot
    PROVE  \E done, open : GoesThrough(c, E, snapshot, done, open)
<1> DEFINE N == Cardinality(E)
           kept == Kept(c, E, snapshot)
           Passed(e) == {g \in c.grandparents : Before(g.largest, e)}
           Take(acc, e) ==
            LET overlapped == acc.overlapped
                    + IF acc.seen THEN TotalFileSize(Passed(e) \ acc.passed) ELSE 0
                stop == overlapped > MaxGrandParentOverlap
                open == IF stop THEN {} ELSE acc.open
                full == e \in kept /\ Cardinality(open) + 1 >= TargetFileSize
                cut == IF stop /\ acc.open # {} THEN <<acc.open>> ELSE <<>>
            IN  [seen |-> TRUE, passed |-> Passed(e),
                 overlapped |-> IF stop THEN 0 ELSE overlapped,
                 done |-> acc.done \o cut \o (IF full THEN <<open \cup {e}>> ELSE <<>>),
                 open |-> IF full THEN {} ELSE open \cup ({e} \cap kept)]
           base == [seen |-> FALSE, passed |-> {}, overlapped |-> 0, done |-> <<>>, open |-> {}]
           Step(acc, n) == Take(acc, InOrder(E)[n])
           Is(n, g) == g = [i \in 0..n |-> IF i = 0 THEN base ELSE Step(g[i - 1], i)]
           Bad == {n \in 0..N : ~\E g : Is(n, g)}
<1>1. N \in Nat
  BY FS_CardinalityType DEF MemContents
<1>2. ASSUME NEW acc, acc.done \in Seq(MemContents), NEW e
      PROVE  TakesOne(kept, e, acc.done, acc.open, Take(acc, e).done, Take(acc, e).open)
  <2> DEFINE stop == acc.overlapped
                    + (IF acc.seen THEN TotalFileSize(Passed(e) \ acc.passed) ELSE 0) > MaxGrandParentOverlap
             open == IF stop THEN {} ELSE acc.open
             full == e \in kept /\ Cardinality(open) + 1 >= TargetFileSize
             cut == IF stop /\ acc.open # {} THEN <<acc.open>> ELSE <<>>
             last == IF full THEN <<open \cup {e}>> ELSE <<>>
             left == IF full THEN {} ELSE open \cup ({e} \cap kept)
  <2>1. Take(acc, e).done = acc.done \o cut \o last /\ Take(acc, e).open = left
    OBVIOUS
  <2> HIDE DEF stop, Take, kept
  <2>2. open \in {{}, acc.open}
    OBVIOUS
  <2>3. acc.done \o cut = IF open = acc.open THEN acc.done ELSE Append(acc.done, acc.open)
    <3>1. cut = IF open = acc.open THEN <<>> ELSE <<acc.open>>
      OBVIOUS
    <3>2. acc.done \o <<>> = acc.done /\ acc.done \o <<acc.open>> = Append(acc.done, acc.open)
      BY <1>2, AppendOneOrNone
    <3> HIDE DEF cut, open
    <3> QED
      BY <3>1, <3>2
  <2> HIDE DEF open, cut
  <2>6. acc.done \o cut \in Seq(MemContents \cup {acc.open})
    BY <1>2, <2>3
  <2>4. CASE full
    <3>1. acc.done \o cut \o last = Append(acc.done \o cut, open \cup {e}) /\ left = {} /\ e \in kept
      BY <2>4, <2>6, AppendOneOrNone
    <3> QED
      BY <2>1, <2>2, <2>3, <3>1 DEF TakesOne
  <2>5. CASE ~full
    <3>1. acc.done \o cut \o last = acc.done \o cut /\ left = open \cup ({e} \cap kept)
      <4>1. last = <<>>
        BY <2>5
      <4> HIDE DEF last, full
      <4>2. \A t \in Seq(MemContents \cup {acc.open}) : t \o <<>> = t
        BY AppendOneOrNone
      <4>3. acc.done \o cut \o last = acc.done \o cut
        BY <4>1, <4>2, <2>6
      <4> QED
        BY <2>5, <4>3
    <3> QED
      BY <2>1, <2>2, <2>3, <3>1 DEF TakesOne
  <2> QED
    BY <2>4, <2>5
<1>5. Outputs(c, E, snapshot) =
        LET After == CHOOSE g : Is(N, g)
            end == After[N]
        IN  end.done \o IF end.open = {} THEN <<>> ELSE <<end.open>>
  BY DEF Outputs
<1>6. \A acc, n : acc.done \in Seq(MemContents) =>
          TakesOne(kept, InOrder(E)[n], acc.done, acc.open, Step(acc, n).done, Step(acc, n).open)
  BY <1>2
<1>b. base.done = <<>> /\ base.open = {}
  OBVIOUS
<1> HIDE DEF N, Step, base, kept
<1>7. Bad = {}
  <2>1. SUFFICES ASSUME Bad # {} PROVE FALSE
    OBVIOUS
  <2>2. Bad \in SUBSET Nat
    BY <1>1
  <2>3. PICK n \in Bad : \A m \in Bad : n <= m
    BY <2>1, <2>2, LeastNat
  <2>4. n \in 0..N /\ ~\E g : Is(n, g)
    BY <2>3
  <2>5. CASE n = 0
    <3>1. Is(0, [i \in 0..0 |-> base])
      OBVIOUS
    <3> QED
      BY <2>4, <2>5, <3>1
  <2>6. CASE n # 0
    <3>0. n \in Nat /\ n - 1 \in 0..N /\ ~(n <= n - 1)
      BY <2>4, <2>6, <1>1
    <3>1. n - 1 \in 0..N /\ n - 1 \notin Bad
      <4> HIDE DEF Bad
      <4> QED
        BY <3>0, <2>3
    <3>2. PICK g : Is(n - 1, g)
      BY <3>1
    <3> DEFINE h == [i \in 0..n |-> IF i = n THEN Step(g[n - 1], n) ELSE g[i]]
    <3>3. \A i \in 0..n : h[i] = IF i = 0 THEN base ELSE Step(h[i - 1], i)
      <4> TAKE i \in 0..n
      <4>1. CASE i = n
        <5>1. h[i] = Step(g[n - 1], n) /\ h[i - 1] = g[n - 1]
          BY <4>1, <2>4, <2>6, <1>1
        <5> QED
          BY <5>1, <4>1, <2>6
      <4>2. CASE i # n
        <5>1. i \in 0..n - 1 /\ h[i] = g[i]
          BY <4>2, <2>4, <2>6, <1>1
        <5>2. i # 0 => i - 1 \in 0..n - 1 /\ h[i - 1] = g[i - 1]
          BY <5>1, <4>2, <2>4, <2>6, <1>1
        <5>3. g[i] = IF i = 0 THEN base ELSE Step(g[i - 1], i)
          BY <3>2, <5>1
        <5> QED
          BY <5>1, <5>2, <5>3
      <4> QED
        BY <4>1, <4>2
    <3>4. h = [i \in 0..n |-> h[i]]
      OBVIOUS
    <3> HIDE DEF h
    <3>5. Is(n, h)
      BY <3>3, <3>4
    <3> QED
      BY <2>4, <3>5
  <2> QED
    BY <2>5, <2>6
<1>8. \E g : Is(N, g)
  BY <1>1, <1>7
<1> DEFINE After == CHOOSE g : Is(N, g)
<1>9. Is(N, After)
  BY <1>8
<1> HIDE DEF After
<1> DEFINE done == [n \in 0..N |-> After[n].done]
           open == [n \in 0..N |-> After[n].open]
<1>10. \A n \in 0..N : done[n] = After[n].done /\ open[n] = After[n].open
  OBVIOUS
<1> HIDE DEF done, open
<1>11. 0 \in 0..N /\ N \in 0..N /\ \A n \in 1..N : n \in 0..N /\ n - 1 \in 0..N /\ n # 0
  BY <1>1
<1>12. After[0] = base /\ \A n \in 1..N : After[n] = Step(After[n - 1], n)
  BY <1>9, <1>11
<1>13. done[0] = <<>> /\ open[0] = {}
  BY <1>b, <1>10, <1>11, <1>12
<1>14. \A n \in 1..N : done[n - 1] \in Seq(MemContents) =>
           TakesOne(kept, InOrder(E)[n], done[n - 1], open[n - 1], done[n], open[n])
  BY <1>6, <1>10, <1>11, <1>12
<1>15. Outputs(c, E, snapshot) = done[N] \o IF open[N] = {} THEN <<>> ELSE <<open[N]>>
  BY <1>5, <1>10, <1>11 DEF After
<1>16. done[N] \in Seq(MemContents) =>
       Outputs(c, E, snapshot) = IF open[N] = {} THEN done[N] ELSE Append(done[N], open[N])
  <2> HAVE done[N] \in Seq(MemContents)
  <2>1. done[N] \o <<>> = done[N] /\ done[N] \o <<open[N]>> = Append(done[N], open[N])
    BY AppendOneOrNone
  <2> QED
    BY <1>15, <2>1
<1> QED
  BY <1>13, <1>14, <1>16 DEF N, kept, GoesThrough

\* What holds at the beginning and goes on holding holds to the end.
LEMMA StepByStep ==
    ASSUME NEW N \in Nat, NEW T, 0 \in T, \A n \in 1..N : n - 1 \in T => n \in T
    PROVE  \A n \in 0..N : n \in T
<1> DEFINE Out == {n \in 0..N : n \notin T}
<1>1. SUFFICES ASSUME Out # {} PROVE FALSE
  OBVIOUS
<1>2. Out \in SUBSET Nat
  OBVIOUS
<1>3. PICK n \in Out : \A m \in Out : n <= m
  BY <1>1, <1>2, LeastNat
<1>4. n \in 1..N /\ n - 1 \in 0..N /\ ~(n <= n - 1)
  BY <1>3
<1>5. n - 1 \notin Out
  BY <1>3, <1>4
<1> QED
  BY <1>3, <1>4, <1>5

\* Finitely many things with internal keys of their own.
Lined(E) ==
    /\ IsFiniteSet(E) /\ \A e \in E : e.key \in Nat /\ e.seq \in Nat
    /\ \A e, f \in E : e # f => Before(e, f) \/ Before(f, e)

\* Internal keys are in a strict order.
LEMMA BeforeIsOrder ==
    ASSUME NEW a, NEW b, NEW c, a.key \in Nat, a.seq \in Nat, b.key \in Nat, b.seq \in Nat,
           c.key \in Nat, c.seq \in Nat
    PROVE  /\ ~Before(a, a) /\ ~(Before(a, b) /\ Before(b, a))
           /\ Before(a, b) /\ Before(b, c) => Before(a, c)
           /\ Before(a, b) \/ Before(b, a) \/ (a.key = b.key /\ a.seq = b.seq)
           /\ Before(a, b) => a.key <= b.key
  BY DEF Before

\* How many entries come before e.
Rank(E, e) == Cardinality({f \in E : Before(f, e)})

\* They have the ranks from 0, each once.
LEMMA RanksAre ==
    ASSUME NEW E, Lined(E)
    PROVE  /\ Cardinality(E) \in Nat
           /\ \A e \in E : Rank(E, e) \in 0..(Cardinality(E) - 1)
           /\ \A e, f \in E : Before(e, f) => Rank(E, e) < Rank(E, f)
           /\ \A r \in 0..(Cardinality(E) - 1) : \E e \in E : Rank(E, e) = r
<1> DEFINE Lower(e) == {f \in E : Before(f, e)}
           n == Cardinality(E)
<1>1. n \in Nat /\ \A e \in E : IsFiniteSet(Lower(e)) /\ Rank(E, e) \in Nat
  <2>1. \A U \in SUBSET E : IsFiniteSet(U) /\ Cardinality(U) \in Nat
    BY FS_Subset, FS_CardinalityType DEF Lined
  <2>2. \A e \in E : Lower(e) \in SUBSET E
    OBVIOUS
  <2> HIDE DEF Lower
  <2> QED
    BY <2>1, <2>2 DEF Rank, Lower
<1>2. ASSUME NEW e \in E PROVE Rank(E, e) < n
  <2>1. Lower(e) \in SUBSET E /\ e \notin Lower(e)
    BY BeforeIsOrder DEF Lined
  <2>2. Lower(e) # E /\ Rank(E, e) = Cardinality(Lower(e))
    BY <2>1 DEF Rank
  <2> HIDE DEF Lower
  <2>3. Cardinality(Lower(e)) <= n /\ (n = Cardinality(Lower(e)) => E = Lower(e))
    BY <2>1, FS_Subset DEF Lined
  <2> QED
    BY <2>2, <2>3, <1>1
<1>3. ASSUME NEW e \in E, NEW f \in E, Before(e, f) PROVE Rank(E, e) < Rank(E, f)
  <2>1. Lower(e) \in SUBSET Lower(f)
    <3>1. ASSUME NEW x \in Lower(e) PROVE x \in Lower(f)
      BY <1>3, BeforeIsOrder DEF Lined
    <3> QED
      BY <3>1
  <2>2. e \in Lower(f) /\ e \notin Lower(e)
    BY <1>3, BeforeIsOrder DEF Lined
  <2>3. Rank(E, e) = Cardinality(Lower(e)) /\ Rank(E, f) = Cardinality(Lower(f))
    BY DEF Rank
  <2>4. IsFiniteSet(Lower(f)) /\ Lower(e) # Lower(f)
    BY <1>1, <2>2
  <2> HIDE DEF Lower
  <2>5. Cardinality(Lower(e)) <= Cardinality(Lower(f))
        /\ (Cardinality(Lower(f)) = Cardinality(Lower(e)) => Lower(f) = Lower(e))
    BY <2>1, <2>4, FS_Subset
  <2> QED
    BY <2>3, <2>4, <2>5, <1>1
<1>4. \A e \in E : Rank(E, e) \in 0..(n - 1)
  <2> TAKE e \in E
  <2>1. Rank(E, e) \in Nat /\ Rank(E, e) < n
    BY <1>1, <1>2
  <2> HIDE DEF n
  <2> QED
    BY <2>1, <1>1
<1> DEFINE R == 0..(n - 1)
           rank == [e \in E |-> Rank(E, e)]
<1>5. rank \in [E -> R]
  BY <1>4
<1>6. rank \in Injection(E, R)
  <2>1. ASSUME NEW e \in E, NEW f \in E, rank[e] = rank[f] PROVE e = f
    <3>1. Rank(E, e) = Rank(E, f) /\ Rank(E, e) \in Nat
      BY <2>1, <1>1
    <3>2. ~Before(e, f) /\ ~Before(f, e)
      BY <3>1, <1>3
    <3> QED
      BY <3>2 DEF Lined
  <2> HIDE DEF rank, R
  <2> QED
    BY <1>5, <2>1 DEF Injection, IsInjective
<1>7. IsFiniteSet(R) /\ Cardinality(R) = n
  <2>1. IsFiniteSet(R) /\ Cardinality(R) = IF 0 > n - 1 THEN 0 ELSE (n - 1) - 0 + 1
    BY <1>1, FS_Interval
  <2> QED
    BY <2>1, <1>1
<1>8. rank \in Surjection(E, R)
  <2>1. IsFiniteSet(E)
    BY DEF Lined
  <2> HIDE DEF rank, R
  <2> QED
    BY <2>1, <1>6, <1>7, FS_Injection
<1>9. ASSUME NEW r \in R PROVE \E e \in E : Rank(E, e) = r
  <2>1. \E e \in E : rank[e] = r
    BY <1>8 DEF Surjection
  <2> QED
    BY <2>1
<1> QED
  BY <1>1, <1>3, <1>4, <1>9

\* A merge reads its entries in their order.
LEMMA InOrderIsSorted ==
    ASSUME NEW E, Lined(E)
    PROVE  /\ \A n \in 1..Cardinality(E) : InOrder(E)[n] \in E
           /\ \A m, n \in 1..Cardinality(E) : m < n => Before(InOrder(E)[m], InOrder(E)[n])
<1> DEFINE N == Cardinality(E)
<1>1. N \in Nat
  BY RanksAre
<1>2. ASSUME NEW n \in 1..N PROVE InOrder(E)[n] \in E /\ Rank(E, InOrder(E)[n]) = n - 1
  <2>1. n - 1 \in 0..(N - 1)
    BY <1>1
  <2>2. \E e \in E : Rank(E, e) = n - 1
    BY <2>1, RanksAre
  <2>3. InOrder(E)[n] = CHOOSE e \in E : Rank(E, e) = n - 1
    BY DEF InOrder, Rank
  <2> QED
    BY <2>2, <2>3
<1>3. ASSUME NEW m \in 1..N, NEW n \in 1..N, m < n PROVE Before(InOrder(E)[m], InOrder(E)[n])
  <2> DEFINE a == InOrder(E)[m]
             b == InOrder(E)[n]
  <2>1. a \in E /\ b \in E /\ Rank(E, a) = m - 1 /\ Rank(E, b) = n - 1
    BY <1>2
  <2> HIDE DEF a, b
  <2>2. a # b /\ ~(Rank(E, b) < Rank(E, a))
    BY <2>1, <1>3, <1>1
  <2>3. ~Before(b, a)
    BY <2>1, <2>2, RanksAre
  <2>4. Before(a, b)
    BY <2>1, <2>2, <2>3 DEF Lined
  <2> QED
    BY <2>4 DEF a, b
<1> QED
  BY <1>2, <1>3

\* There are a first and a last of them.
LEMMA EndsAre ==
    ASSUME NEW E, Lined(E), E # {}
    PROVE  /\ Smallest(E) \in E /\ \A f \in E : f = Smallest(E) \/ Before(Smallest(E), f)
           /\ Largest(E) \in E /\ \A f \in E : f = Largest(E) \/ Before(f, Largest(E))
<1> DEFINE N == Cardinality(E)
<1>1. N \in Nat /\ N # 0
  BY RanksAre, FS_EmptySet DEF Lined
<1>2. 0 \in 0..(N - 1) /\ N - 1 \in 0..(N - 1)
  BY <1>1
<1>3. PICK a \in E : Rank(E, a) = 0
  BY <1>2, RanksAre
<1>4. PICK b \in E : Rank(E, b) = N - 1
  BY <1>2, RanksAre
<1>5. \A f \in E : Rank(E, f) \in 0..(N - 1)
  BY RanksAre
<1>6. \A f \in E : ~(Rank(E, f) < 0) /\ ~(N - 1 < Rank(E, f))
  BY <1>1, <1>5
<1> HIDE DEF N
<1>7. \A f \in E \ {a} : Before(a, f)
  BY <1>3, <1>6, RanksAre DEF Lined
<1>8. \A f \in E \ {b} : Before(f, b)
  BY <1>4, <1>6, RanksAre DEF Lined
<1>9. \E e \in E : \A f \in E \ {e} : Before(e, f)
  BY <1>7
<1>10. \E e \in E : \A f \in E \ {e} : Before(f, e)
  BY <1>8
<1>11. Smallest(E) \in E /\ \A f \in E \ {Smallest(E)} : Before(Smallest(E), f)
  BY <1>9 DEF Smallest
<1>12. Largest(E) \in E /\ \A f \in E \ {Largest(E)} : Before(f, Largest(E))
  BY <1>10 DEF Largest
<1> QED
  BY <1>11, <1>12

\* A merge writes entries of its inputs, none of them twice, in tables one after
\* another.
PiecesOf(E, s) ==
    /\ s \in Seq((SUBSET E) \ {{}})
    /\ \A i, j \in 1..Len(s) : i < j => \A e \in s[i], f \in s[j] : Before(e, f)

\* The entries E come after all pieces.
Behind(E, s) == \A i \in 1..Len(s) : \A e \in s[i] : \A f \in E : Before(e, f)

\* A piece more, of what comes after the others.
LEMMA PiecesGrow ==
    ASSUME NEW E, NEW s, PiecesOf(E, s), NEW p \in SUBSET E, p # {}, Behind(p, s)
    PROVE  PiecesOf(E, Append(s, p))
<1> DEFINE t == Append(s, p)
           S == (SUBSET E) \ {{}}
<1>1. s \in Seq(S) /\ p \in S
  BY DEF PiecesOf
<1> HIDE DEF S
<1>2. /\ t \in Seq(S) /\ Len(t) = Len(s) + 1 /\ Len(s) \in Nat
      /\ \A i \in 1..Len(s) : t[i] = s[i]
      /\ t[Len(s) + 1] = p
  BY <1>1, AppendProperties, LenProperties
<1> HIDE DEF t
<1>3. ASSUME NEW i \in 1..Len(t), NEW j \in 1..Len(t), i < j, NEW e \in t[i], NEW f \in t[j]
      PROVE  Before(e, f)
  <2>1. i \in 1..Len(s) /\ t[i] = s[i]
    BY <1>2, <1>3
  <2>2. CASE j = Len(s) + 1
    <3>1. t[j] = p
      BY <1>2, <2>2
    <3> QED
      BY <1>3, <2>1, <3>1 DEF Behind
  <2>3. CASE j # Len(s) + 1
    <3>1. j \in 1..Len(s) /\ t[j] = s[j]
      BY <1>2, <2>3
    <3> QED
      BY <1>3, <2>1, <3>1 DEF PiecesOf
  <2> QED
    BY <2>2, <2>3
<1> QED
  BY <1>2, <1>3 DEF PiecesOf, t, S

\* Everything taken so far comes before f.
Passed(done, open, f) == Behind({f}, done) /\ \A x \in open : Before(x, f)

\* A sequence with one piece more is behind what both are behind.
LEMMA BehindMore ==
    ASSUME NEW S, NEW s \in Seq(S), NEW p \in S, NEW F, Behind(F, s),
           \A x \in p : \A f \in F : Before(x, f)
    PROVE  Behind(F, Append(s, p))
<1> DEFINE t == Append(s, p)
<1>1. /\ Len(t) = Len(s) + 1 /\ Len(s) \in Nat /\ \A i \in 1..Len(s) : t[i] = s[i]
      /\ t[Len(s) + 1] = p
  BY AppendProperties, LenProperties
<1> HIDE DEF t
<1>2. \A i \in 1..Len(t) : i \in 1..Len(s) \/ i = Len(s) + 1
  BY <1>1
<1>3. Behind(F, t)
  BY <1>1, <1>2 DEF Behind
<1> QED
  BY <1>3 DEF t

\* One entry more, after all others: the pieces stay in order.
LEMMA TakesOneInOrder ==
    ASSUME NEW K, NEW e, NEW d, NEW o, NEW d2, NEW o2, TakesOne(K, e, d, o, d2, o2),
           PiecesOf(K, d), o \subseteq K, Behind(o, d), Passed(d, o, e)
    PROVE  /\ PiecesOf(K, d2) /\ o2 \subseteq K /\ Behind(o2, d2)
           /\ \A f : Passed(d, o, f) /\ Before(e, f) => Passed(d2, o2, f)
<1>1. PICK left \in {{}, o} :
        LET cut == IF left = o THEN d ELSE Append(d, o)
        IN  \/ e \in K /\ d2 = Append(cut, left \cup {e}) /\ o2 = {}
            \/ d2 = cut /\ o2 = left \cup ({e} \cap K)
  BY DEF TakesOne
<1> DEFINE cut == IF left = o THEN d ELSE Append(d, o)
<1>2. \/ e \in K /\ d2 = Append(cut, left \cup {e}) /\ o2 = {}
      \/ d2 = cut /\ o2 = left \cup ({e} \cap K)
  BY <1>1
<1>3. d \in Seq((SUBSET K) \ {{}})
  BY DEF PiecesOf
<1>4. /\ PiecesOf(K, cut) /\ Behind(left, cut) /\ Behind({e}, cut)
      /\ \A f : Passed(d, o, f) => Behind({f}, cut)
  <2>1. CASE left = o
    <3>1. cut = d
      BY <2>1
    <3> QED
      BY <2>1, <3>1 DEF Passed
  <2>2. CASE left # o
    <3>1. cut = Append(d, o) /\ left = {} /\ o # {} /\ o \in (SUBSET K) \ {{}}
      BY <1>1, <2>2
    <3>2. PiecesOf(K, Append(d, o))
      BY <3>1, PiecesGrow
    <3>3. Behind({e}, Append(d, o))
      BY <1>3, <3>1, BehindMore DEF Passed
    <3>4. Behind({}, Append(d, o))
      BY DEF Behind
    <3>5. ASSUME NEW f, Passed(d, o, f) PROVE Behind({f}, Append(d, o))
      BY <1>3, <3>1, <3>5, BehindMore DEF Passed
    <3> HIDE DEF cut
    <3> QED
      BY <3>1, <3>2, <3>3, <3>4, <3>5
  <2> QED
    BY <2>1, <2>2
<1> HIDE DEF cut
<1>5. left \subseteq K /\ left \subseteq o
  BY <1>1
<1>6. Behind(left \cup {e}, cut)
  BY <1>4 DEF Behind
<1>7. cut \in Seq((SUBSET K) \ {{}})
  BY <1>4 DEF PiecesOf
<1>8. CASE e \in K /\ d2 = Append(cut, left \cup {e}) /\ o2 = {}
  <2>1. left \cup {e} \in (SUBSET K) \ {{}}
    BY <1>5, <1>8
  <2>2. PiecesOf(K, d2)
    BY <1>4, <1>6, <1>8, <2>1, PiecesGrow
  <2>3. Behind(o2, d2)
    BY <1>8 DEF Behind
  <2>4. ASSUME NEW f, Passed(d, o, f), Before(e, f) PROVE Passed(d2, o2, f)
    <3>1. \A x \in left \cup {e} : \A y \in {f} : Before(x, y)
      BY <1>5, <2>4 DEF Passed
    <3>2. Behind({f}, cut)
      BY <1>4, <2>4
    <3>3. Behind({f}, Append(cut, left \cup {e}))
      BY <1>7, <2>1, <3>1, <3>2, BehindMore
    <3> QED
      BY <1>8, <3>3 DEF Passed
  <2> QED
    BY <1>8, <2>2, <2>3, <2>4
<1>9. CASE d2 = cut /\ o2 = left \cup ({e} \cap K)
  <2>1. Behind(o2, d2) /\ o2 \subseteq K
    BY <1>5, <1>6, <1>9 DEF Behind
  <2>2. ASSUME NEW f, Passed(d, o, f), Before(e, f) PROVE Passed(d2, o2, f)
    BY <1>4, <1>5, <1>9, <2>2 DEF Passed
  <2> QED
    BY <1>4, <1>9, <2>1, <2>2
<1> QED
  BY <1>2, <1>8, <1>9

\* What a merge writes.
LEMMA OutputsAreInOrder ==
    ASSUME NEW c, NEW E \in MemContents, Lined(E), NEW snapshot
    PROVE  PiecesOf(Kept(c, E, snapshot), Outputs(c, E, snapshot)) /\ Kept(c, E, snapshot) \subseteq E
<1>0. PICK done, open : GoesThrough(c, E, snapshot, done, open)
  BY OutputsInSteps
<1> DEFINE N == Cardinality(E)
           K == Kept(c, E, snapshot)
           x(n) == InOrder(E)[n]
<1>1. N \in Nat /\ K \subseteq E
  BY RanksAre DEF Kept
<1>2. \A m, n \in 1..N : m < n => Before(x(m), x(n))
  BY InOrderIsSorted
<1>3. /\ done[0] = <<>> /\ open[0] = {}
      /\ \A n \in 1..N : done[n - 1] \in Seq(MemContents) =>
             TakesOne(K, x(n), done[n - 1], open[n - 1], done[n], open[n])
      /\ done[N] \in Seq(MemContents) =>
             Outputs(c, E, snapshot) = IF open[N] = {} THEN done[N] ELSE Append(done[N], open[N])
  BY <1>0 DEF GoesThrough
<1> HIDE DEF K, x, N
<1>4. \A s : PiecesOf(K, s) => s \in Seq(MemContents)
  <2>1. (SUBSET K) \ {{}} \subseteq MemContents
    <3>1. \A U : IsFiniteSet(E) /\ U \subseteq E => IsFiniteSet(U)
      BY FS_Subset
    <3> QED
      BY <1>1, <3>1 DEF MemContents
  <2>2. Seq((SUBSET K) \ {{}}) \subseteq Seq(MemContents)
    BY <2>1
  <2> QED
    BY <2>2 DEF PiecesOf
<1> DEFINE G(n) == /\ PiecesOf(K, done[n]) /\ open[n] \subseteq K /\ Behind(open[n], done[n])
                   /\ \A m \in 1..N : n < m => Passed(done[n], open[n], x(m))
           T == {n \in 0..N : G(n)}
<1>5. 0 \in T
  <2>1. PiecesOf(K, <<>>) /\ Behind({}, <<>>) /\ \A f : Passed(<<>>, {}, f)
    BY DEF PiecesOf, Behind, Passed
  <2>2. G(0)
    BY <1>3, <2>1
  <2> HIDE DEF G
  <2> QED
    BY <1>1, <2>2
<1>6. ASSUME NEW n \in 1..N, n - 1 \in T PROVE n \in T
  <2>1. G(n - 1) /\ n - 1 < n /\ n \in 0..N
    BY <1>6
  <2>2. TakesOne(K, x(n), done[n - 1], open[n - 1], done[n], open[n])
    BY <1>3, <1>4, <2>1
  <2>3. Passed(done[n - 1], open[n - 1], x(n))
    BY <2>1
  <2>4. /\ PiecesOf(K, done[n]) /\ open[n] \subseteq K /\ Behind(open[n], done[n])
        /\ \A f : Passed(done[n - 1], open[n - 1], f) /\ Before(x(n), f) => Passed(done[n], open[n], f)
    BY <2>1, <2>2, <2>3, TakesOneInOrder
  <2>5. ASSUME NEW m \in 1..N, n < m PROVE Passed(done[n], open[n], x(m))
    <3>1. n - 1 < m
      BY <2>5
    <3> QED
      BY <1>2, <2>1, <2>4, <2>5, <3>1
  <2> QED
    BY <2>1, <2>4, <2>5
<1> HIDE DEF T
<1>7. N \in T
  BY <1>1, <1>5, <1>6, StepByStep
<1>8. G(N)
  BY <1>7 DEF T
<1>9. Outputs(c, E, snapshot) = IF open[N] = {} THEN done[N] ELSE Append(done[N], open[N])
  BY <1>3, <1>4, <1>8
<1>10. open[N] # {} => PiecesOf(K, Append(done[N], open[N]))
  BY <1>8, PiecesGrow
<1>11. PiecesOf(K, Outputs(c, E, snapshot))
  BY <1>8, <1>9, <1>10
<1> QED
  BY <1>1, <1>11 DEF K

\* Entries with numbers of their own have internal keys of their own.
LEMMA NumberedAreLined ==
    ASSUME NEW E \in MemContents, \A e, f \in E : e.seq = f.seq => e = f
    PROVE  Lined(E)
<1>1. \A e \in E : e.key \in Nat /\ e.seq \in Nat
  BY KeysAssumption DEF MemContents, Entries
<1>2. \A e, f \in E : e # f => Before(e, f) \/ Before(f, e)
  BY <1>1 DEF Before
<1> QED
  BY <1>1, <1>2 DEF Lined, MemContents

\* What a compaction takes in has been written, and is without copies.
LEMMA PickedIsWritten ==
    ASSUME NamesFiles, FinitelyMany, EntriesInv, NumbersInv,
           NEW p \in ToCompact(db.current, db.pointers, db.seek),
           NEW c, c = PickCompaction(db.current, p[1], p[2])
    PROVE  LET E == UNION {disk.tables[f.num] : f \in c.inputs0 \cup c.inputs1}
           IN  /\ E \in MemContents /\ Lined(E)
               /\ E \subseteq EntriesIn(disk.tables, Numbers(db.current))
               /\ c.inputs0 \subseteq db.current[p[1]] /\ c.level = p[1]
               /\ p[1] \in Levels
<1> DEFINE E == UNION {disk.tables[f.num] : f \in c.inputs0 \cup c.inputs1}
           F == c.inputs0 \cup c.inputs1
<1>1. p[1] \in Levels /\ p[2] \in db.current[p[1]] /\ p[1] + 1 \in Levels
  BY StartsAboveLast
<1>3. c.inputs0 \subseteq db.current[p[1]] /\ c.inputs1 \subseteq db.current[p[1] + 1] /\ c.level = p[1]
  BY <1>1, PickedFiles, PickedBelow DEF FinitelyMany
<1>4. E \in MemContents
  BY PickedContents
<1>5. \A f \in F : f.num \in Numbers(db.current) \cap DOMAIN disk.tables
  <2>1. F \subseteq db.current[p[1]] \cup db.current[p[1] + 1]
    BY <1>3
  <2> HIDE DEF F
  <2>2. \A f \in F : f.num \in Numbers(db.current)
    BY <1>1, <2>1, NumberOfFile
  <2>3. Numbers(db.current) \subseteq DOMAIN disk.tables
    BY DEF NamesFiles, VersionsNameFiles
  <2> QED
    BY <2>2, <2>3
<1>6. E \subseteq EntriesIn(disk.tables, Numbers(db.current))
  <2>1. \A f \in F : disk.tables[f.num] \subseteq EntriesIn(disk.tables, Numbers(db.current))
    BY <1>5 DEF EntriesIn
  <2>2. E = UNION {disk.tables[f.num] : f \in F}
    OBVIOUS
  <2> HIDE DEF F, E
  <2> QED
    BY <2>1, <2>2
<1> HIDE DEF F, E
<1>7. E \subseteq Written
  <2>1. EntriesIn(disk.tables, Numbers(db.current)) \subseteq InTables
    BY DEF InTables, InUse, EntriesIn
  <2> QED
    BY <1>6, <2>1 DEF Written
<1>8. \A e, f \in E : e.seq = f.seq => e = f
  BY <1>7 DEF NumbersInv, NoNumberTwice
<1>9. Lined(E)
  BY <1>4, <1>8, NumberedAreLined
<1> QED
  BY <1>1, <1>3, <1>4, <1>6, <1>9 DEF E

\* The background thread moves what has been written about.
LEMMA NothingNewBehind ==
    ASSUME CrashInv, EntriesInv, NumbersInv, Background,
           InTables' \subseteq InTables \cup ImmEntries,
           \/ disk'.manifest = disk.manifest /\ InManifest' \subseteq InManifest
           \/ /\ bg.pc = "log" /\ disk'.manifest.lastSeq = bg.edit.lastSeq
              /\ InManifest' \subseteq InManifest \cup EntriesIn(disk.tables, EditNumbers),
           bg'.pc = "log" => bg'.edit.lastSeq = db.lastSeq,
           db'.imm \subseteq db.imm
    PROVE  NumbersInv'
<1>0. Shape /\ NothingBeforeOpen /\ NamesFiles /\ KeepsLogs /\ LogsOK /\ LogsExist
  BY DEF CrashInv, LogsInv, FilesInv, NamesFiles, KeepsLogs
<1>1. /\ Written \subseteq Entries /\ db.lastSeq \in Nat /\ disk.manifest.lastSeq \in Nat
      /\ bg.edit.lastSeq \in Nat /\ (db.up = "open" => ImmEntries \subseteq MemEntries)
      /\ \A e \in Entries : e.seq \in Nat
  BY <1>0, WrittenAreEntries
<1>2. /\ db.up = "open" /\ db'.up = "open" /\ UNCHANGED <<queue, group>>
      /\ db'.log = db.log /\ db'.memtables = db.memtables
      /\ writer' = writer \/ writer' = Wake(writer)
  BY <1>0, BackgroundFrame
<1>3. /\ db'.lastSeq = db.lastSeq
      /\ disk'.logs = disk.logs \/ disk'.logs = Restrict(disk.logs, LiveLogs)
  <2>1. BackgroundEffect
    BY <1>0, BackgroundDoes
  <2>2. ToManifest(bg.edit).logs = disk.logs
    BY <1>0, Fields DEF ToManifest, Shape
  <2> QED
    BY <2>1, <2>2 DEF BackgroundEffect
<1>4. LogEntries' \subseteq LogEntries /\ MemEntries' = MemEntries
  <2>1. DOMAIN disk'.logs \subseteq DOMAIN disk.logs
        /\ \A n \in DOMAIN disk'.logs : disk'.logs[n] = disk.logs[n]
    BY <1>3 DEF Restrict, LiveLogs
  <2> QED
    BY <1>2, <2>1 DEF LogEntries, MemEntries
<1>5. ImmEntries' \subseteq ImmEntries
  BY <1>2 DEF ImmEntries
<1>6. EntriesIn(disk.tables, EditNumbers) \subseteq InTables
      /\ EntriesIn(disk.tables, EditNumbers)' \subseteq InTables'
  BY DEF InTables, InUse, EntriesIn
<1>7. Written' \subseteq Written
  <2>1. InTables' \subseteq Written /\ InManifest' \subseteq Written
    BY <1>1, <1>2, <1>6 DEF Written
  <2> QED
    BY <1>4, <2>1 DEF Written
<1>8. NoNumberTwice'
  BY <1>7 DEF NumbersInv, NoNumberTwice
<1>9. UpTo(InTables', db.lastSeq)
  BY <1>2 DEF NumbersInv, TablesBelow, LogsBelow, UpTo
<1>10. UpTo(InManifest', disk'.manifest.lastSeq) /\ disk'.manifest.lastSeq <= db.lastSeq
  <2>1. CASE disk'.manifest = disk.manifest /\ InManifest' \subseteq InManifest
    BY <1>2, <2>1 DEF NumbersInv, TablesBelow, UpTo
  <2>2. CASE /\ bg.pc = "log" /\ disk'.manifest.lastSeq = bg.edit.lastSeq
             /\ InManifest' \subseteq InManifest \cup EntriesIn(disk.tables, EditNumbers)
    <3>1. /\ disk.manifest.lastSeq <= bg.edit.lastSeq /\ bg.edit.lastSeq <= db.lastSeq
          /\ UpTo(EntriesIn(disk.tables, EditNumbers), bg.edit.lastSeq)
          /\ UpTo(InManifest, disk.manifest.lastSeq)
      BY <2>2 DEF NumbersInv, TablesBelow
    <3>2. \A e \in InManifest : e.seq \in Nat
      BY <1>1 DEF Written
    <3>3. UpTo(InManifest, bg.edit.lastSeq)
      BY <1>1, <3>1, <3>2 DEF UpTo
    <3> QED
      BY <2>2, <3>1, <3>3 DEF UpTo
  <2> QED
    BY <2>1, <2>2
<1>11. TablesBelow'
  <2>1. disk'.manifest.lastSeq <= db'.lastSeq /\ UpTo(InTables', db'.lastSeq)
    BY <1>3, <1>9, <1>10
  <2>2. bg'.pc = "log" => /\ disk'.manifest.lastSeq <= bg'.edit.lastSeq
                          /\ bg'.edit.lastSeq <= db'.lastSeq
                          /\ UpTo(EntriesIn(disk.tables, EditNumbers)', bg'.edit.lastSeq)
    BY <1>1, <1>3, <1>6, <1>9, <1>10 DEF UpTo
  <2> QED
    BY <1>10, <2>1, <2>2 DEF TablesBelow
<1>12. \A v \in Writers : /\ Busy(v)' <=> Busy(v)
                          /\ Busy(v) => writer'[v].pc = writer[v].pc
  <2>1. CASE writer' = writer
    BY <2>1 DEF Busy
  <2>2. CASE writer' = Wake(writer)
    BY <1>0, <2>2, Woken DEF Busy
  <2> QED
    BY <1>2, <2>1, <2>2
<1>13. Unpublished' = Unpublished
  BY <1>2, <1>12, SameUnpublished
<1>14. LogsBelow'
  BY <1>2, <1>3, <1>4, <1>5, <1>12, <1>13 DEF NumbersInv, LogsBelow, UpTo
<1> QED
  BY <1>8, <1>11, <1>14 DEF NumbersInv

-----------------------------------------------------------------------------
(* The numbers, step by step. *)

\* The parts of what is in tables, while the database is open.
LEMMA PartsOfTables ==
    ASSUME db.up = "open", db'.up = "open", db'.replay = db.replay
    PROVE  /\ EntriesIn(disk.tables, Numbers(db.current)) \subseteq InTables
           /\ EntriesIn(disk.tables, Made) \subseteq InTables
           /\ EntriesIn(disk.tables, EditNumbers) \subseteq InTables
           /\ UNION ToSet(bg.todo) \subseteq InTables
           /\ \A X : /\ EntriesIn(disk'.tables, Numbers(db'.current)) \subseteq X
                     /\ EntriesIn(disk'.tables, Made') \subseteq X
                     /\ EntriesIn(disk'.tables, EditNumbers') \subseteq X
                     /\ UNION ToSet(bg'.todo) \subseteq X
                     => InTables' \subseteq InTables \cup X
<1>1. Recovering = {} /\ Recovering' = {}
  BY DEF Recovering
<1>2. InTables = EntriesIn(disk.tables, Numbers(db.current)) \cup EntriesIn(disk.tables, Made)
                 \cup EntriesIn(disk.tables, EditNumbers) \cup (UNION ToSet(bg.todo)) \cup db.replay.mem
  BY <1>1 DEF InTables, InUse, EntriesIn
<1>3. InTables' = EntriesIn(disk'.tables, Numbers(db'.current)) \cup EntriesIn(disk'.tables, Made')
                  \cup EntriesIn(disk'.tables, EditNumbers') \cup (UNION ToSet(bg'.todo)) \cup db'.replay.mem
  BY <1>1 DEF InTables, InUse, EntriesIn
<1> DEFINE a == EntriesIn(disk.tables, Numbers(db.current))
           b == EntriesIn(disk.tables, Made)
           c == EntriesIn(disk.tables, EditNumbers)
           d == UNION ToSet(bg.todo)
           a2 == EntriesIn(disk'.tables, Numbers(db'.current))
           b2 == EntriesIn(disk'.tables, Made')
           c2 == EntriesIn(disk'.tables, EditNumbers')
           d2 == UNION ToSet(bg'.todo)
<1>4. InTables = a \cup b \cup c \cup d \cup db.replay.mem
  BY <1>2
<1>5. InTables' = a2 \cup b2 \cup c2 \cup d2 \cup db.replay.mem
  BY <1>3
<1> SUFFICES /\ a \subseteq InTables /\ b \subseteq InTables /\ c \subseteq InTables /\ d \subseteq InTables
             /\ \A X : a2 \subseteq X /\ b2 \subseteq X /\ c2 \subseteq X /\ d2 \subseteq X
                       => InTables' \subseteq InTables \cup X
  OBVIOUS
<1> HIDE DEF a, b, c, d, a2, b2, c2, d2
<1> QED
  BY <1>4, <1>5

\* What is left of a task that ends.
LEMMA AfterTask ==
    ASSUME Shape, NEW d, DOMAIN d = DOMAIN Closed, Resume(d) \/ EndBackground(d)
    PROVE  /\ bg'.pc # "log" /\ Made' \subseteq Made /\ EditNumbers' = {}
           /\ UNION ToSet(bg'.todo) \subseteq UNION ToSet(bg.todo)
           /\ db'.current = d.current /\ db'.imm = d.imm
<1>1. bg'.pc # "log" /\ db'.current = d.current /\ db'.imm = d.imm
  BY AfterResume, Fields
<1>2. bg'.todo \in {<<>>, bg.todo}
  BY ResumeTodo
<1>3. ToSet(<<>>) = {}
  BY DEF ToSet
<1>4. Made' \subseteq Made
  <2>1. CASE EndBackground(d)
    <3>1. bg' = BgIdle
      BY <2>1 DEF EndBackground
    <3>2. Made' = {}
      BY <3>1, IdleNamesNothing DEF Made
    <3> QED
      BY <3>2
  <2>2. CASE ~EndBackground(d)
    <3>1. bg' = [bg EXCEPT !.pc = "merge", !.num = 0, !.edit = NoEdit]
      BY <2>2 DEF Resume
    <3>2. bg'.made = bg.made
      BY <3>1, Fields DEF Shape
    <3> QED
      BY <3>2 DEF Made
  <2> QED
    BY <2>1, <2>2
<1>5. EditNumbers' = {}
  BY <1>1 DEF EditNumbers
<1> QED
  BY <1>1, <1>2, <1>3, <1>4, <1>5

\* The end of a task: nothing is written.
LEMMA NumbersTaskEnds ==
    ASSUME CrashInv, EntriesInv, NumbersInv, Background,
           NEW d, DOMAIN d = DOMAIN Closed, Resume(d) \/ EndBackground(d), d.imm = db.imm,
           d.current = db.current,
           \/ disk' = disk \/ disk' = WithoutObsolete(disk)
           \/ bg.pc = "log" /\ disk' = ToManifest(bg.edit)
    PROVE  NumbersInv'
<1>0. Shape /\ NothingBeforeOpen /\ NamesFiles /\ KeepsLogs
  BY DEF CrashInv, LogsInv, FilesInv, NamesFiles, KeepsLogs
<1>1. db.up = "open" /\ db'.up = "open" /\ db'.replay = db.replay
  BY <1>0, BackgroundFrame, BackgroundDoes DEF BackgroundEffect
<1>2. /\ bg'.pc # "log" /\ Made' \subseteq Made /\ EditNumbers' = {}
      /\ UNION ToSet(bg'.todo) \subseteq UNION ToSet(bg.todo)
      /\ db'.current = db.current /\ db'.imm = db.imm
  BY <1>0, AfterTask
<1>3. \A N : EntriesIn(disk'.tables, N) \subseteq EntriesIn(disk.tables, N)
  <2>1. disk'.tables = disk.tables
        \/ disk'.tables = Restrict(disk.tables, DOMAIN disk.tables \cap LiveFiles)
    BY <1>0, Fields DEF WithoutObsolete, ToManifest, Shape
  <2> QED
    BY <2>1, EntriesInSteps
<1>4. InTables' \subseteq InTables
  <2>1. EntriesIn(disk'.tables, Numbers(db'.current)) \subseteq InTables
    BY <1>1, <1>2, <1>3, PartsOfTables
  <2>2. EntriesIn(disk'.tables, Made') \subseteq InTables
    <3>1. EntriesIn(disk'.tables, Made') \subseteq EntriesIn(disk.tables, Made)
      BY <1>2, <1>3, EntriesInSteps
    <3> QED
      BY <1>1, <3>1, PartsOfTables
  <2>3. EntriesIn(disk'.tables, EditNumbers') \subseteq InTables
    BY <1>2, EntriesInSteps
  <2>4. UNION ToSet(bg'.todo) \subseteq InTables
    BY <1>1, <1>2, PartsOfTables
  <2> QED
    BY <1>1, <2>1, <2>2, <2>3, <2>4, PartsOfTables
<1>5. \/ disk'.manifest = disk.manifest /\ InManifest' \subseteq InManifest
      \/ /\ bg.pc = "log" /\ disk'.manifest.lastSeq = bg.edit.lastSeq
         /\ InManifest' \subseteq InManifest \cup EntriesIn(disk.tables, EditNumbers)
  <2>1. CASE bg.pc = "log" /\ disk' = ToManifest(bg.edit)
    <3>1. /\ disk'.manifest = Logged(disk.manifest, bg.edit)
          /\ disk'.tables = disk.tables
      BY <1>0, <2>1, Fields DEF ToManifest, Shape
    <3>2. disk'.manifest.lastSeq = bg.edit.lastSeq
          /\ disk'.manifest.version = Apply(disk.manifest.version, bg.edit)
      BY <3>1 DEF Logged
    <3>3. Numbers(disk'.manifest.version) \subseteq Numbers(disk.manifest.version) \cup EditNumbers
      BY <2>1, <3>2, NumbersOfApply DEF EditNumbers
    <3>4. EntriesIn(disk.tables, Numbers(disk'.manifest.version))
          \subseteq EntriesIn(disk.tables, Numbers(disk.manifest.version))
                       \cup EntriesIn(disk.tables, EditNumbers)
      BY <3>3 DEF EntriesIn
    <3> QED
      BY <2>1, <3>1, <3>2, <3>4 DEF InManifest
  <2>2. CASE disk' = disk \/ disk' = WithoutObsolete(disk)
    <3>1. disk'.manifest = disk.manifest
      BY <1>0, <2>2, ObsoleteIsNotNamed
    <3> QED
      BY <1>3, <3>1 DEF InManifest
  <2> QED
    BY <2>1, <2>2
<1> QED
  BY <1>2, <1>4, <1>5, NothingNewBehind

\* Each step of the background thread.
LEMMA NumbersBackground ==
    ASSUME CrashInv, EntriesInv, NumbersInv, Background
    PROVE  NumbersInv'
<1>0. Shape /\ NothingBeforeOpen /\ NamesFiles /\ KeepsLogs /\ FinitelyMany
  BY DEF CrashInv, LogsInv, FilesInv, NamesFiles, KeepsLogs
<1>a. DOMAIN db = DOMAIN Closed /\ DOMAIN disk = {"tables", "logs", "manifest"}
      /\ DOMAIN bg = DOMAIN BgIdle
  BY <1>0, Fields DEF Shape
<1>1. db.up = "open" /\ db'.up = "open" /\ db'.replay = db.replay
  BY <1>0, BackgroundFrame, BackgroundDoes DEF BackgroundEffect
<1>2. /\ db.nextFile \notin Numbers(db.current) /\ db.nextFile \notin Numbers(disk.manifest.version)
      /\ db.nextFile \notin Made
  <2>1. /\ db.nextFile \notin Below(db.nextFile) /\ Made \subseteq db.pending
        /\ Numbers(db.current) \subseteq Below(db.nextFile) /\ db.pending \subseteq Below(db.nextFile)
        /\ Numbers(disk.manifest.version) \subseteq Below(disk.manifest.nextFile)
        /\ Below(disk.manifest.nextFile) \subseteq Below(db.nextFile)
    BY <1>0, <1>1, NamesFacts DEF Below
  <2> QED
    BY <2>1
<1>3. CASE BackgroundAfterError
  <2>1. EndBackground(db) /\ disk' = disk
    BY <1>3 DEF BackgroundAfterError
  <2> QED
    BY <1>a, <2>1, NumbersTaskEnds
<1>4. CASE BeginCompactMemTable
  <2>1. /\ \E n : bg' = [bg EXCEPT !.pc = "build", !.kind = "flush", !.num = n]
        /\ \E n, s : db' = [db EXCEPT !.nextFile = n, !.pending = s]
        /\ UNCHANGED disk
    BY <1>4 DEF BeginCompactMemTable
  <2>2. /\ bg'.todo = bg.todo /\ bg'.made = bg.made /\ bg'.pc = "build"
        /\ db'.current = db.current /\ db'.imm = db.imm
    BY <1>a, <2>1, Fields
  <2>3. Made' = Made /\ EditNumbers' = {}
    BY <2>2 DEF Made, EditNumbers
  <2>4. InTables' \subseteq InTables
    BY <1>1, <2>1, <2>2, <2>3, PartsOfTables, EntriesInSteps
  <2>5. InManifest' = InManifest
    BY <2>1 DEF InManifest
  <2> QED
    BY <2>1, <2>2, <2>4, <2>5, NothingNewBehind
<1>5. CASE BuildTable
  <2> DEFINE E == UNION {db.memtables[m] : m \in db.imm}
             x == bg.num
             e == bg'.edit
  <2>1. /\ bg.pc = "build" /\ disk' = IF E = {} THEN disk ELSE [disk EXCEPT !.tables = With(@, x, E)]
        /\ \E y, z : e = FlushEdit(IF E = {} THEN {} ELSE {<<y, Meta(x, E)>>})
                     /\ bg' = [bg EXCEPT !.pc = "log", !.edit = FlushEdit(IF E = {} THEN {} ELSE {<<y, Meta(x, E)>>})]
        /\ \E s : db' = [db EXCEPT !.pending = s]
    BY <1>5, <1>a, Fields DEF BuildTable
  <2>2. E = ImmEntries
    BY DEF ImmEntries
  <2> HIDE DEF E
  <2>3. /\ bg'.todo = bg.todo /\ bg'.made = bg.made /\ bg'.pc = "log"
        /\ db'.current = db.current /\ db'.imm = db.imm
    BY <1>a, <2>1, Fields
  <2>4. Made' = Made
    BY <2>3 DEF Made
  <2>5. /\ e.lastSeq = db.lastSeq
        /\ EditNumbers' \subseteq IF E = {} THEN {} ELSE {x}
    BY <2>1, <2>3 DEF FlushEdit, Edit, EditNumbers, Added, Meta
  <2>6. x \notin Numbers(db.current) /\ x \notin Numbers(disk.manifest.version) /\ x \notin Made
    BY <1>0, <2>1 DEF NamesFiles, BackgroundNamesFiles
  <2>7. \A N : /\ EntriesIn(disk'.tables, N) \subseteq EntriesIn(disk.tables, N) \cup E
               /\ x \notin N => EntriesIn(disk'.tables, N) = EntriesIn(disk.tables, N)
               /\ (N \subseteq IF E = {} THEN {} ELSE {x}) => EntriesIn(disk'.tables, N) \subseteq E
    <3>1. CASE E = {}
      BY <2>1, <3>1, EntriesInSteps
    <3>2. CASE E # {}
      <4>1. disk'.tables = With(disk.tables, x, E)
        BY <1>a, <2>1, <3>2
      <4> TAKE N
      <4>2. EntriesIn(disk.tables, N \ {x}) \subseteq EntriesIn(disk.tables, N)
        BY EntriesInSteps
      <4>3. N \subseteq {x} => N \ {x} = {}
        OBVIOUS
      <4>4. EntriesIn(disk'.tables, N) \subseteq EntriesIn(disk.tables, N \ {x}) \cup E
            /\ (x \notin N => EntriesIn(disk'.tables, N) = EntriesIn(disk.tables, N))
            /\ EntriesIn(disk.tables, {}) = {}
        BY <4>1, EntriesInSteps
      <4> QED
        BY <3>2, <4>2, <4>3, <4>4
    <3> QED
      BY <3>1, <3>2
  <2>8. InManifest' = InManifest /\ disk'.manifest = disk.manifest
    <3>1. disk'.manifest = disk.manifest
      BY <1>a, <2>1
    <3> QED
      BY <2>6, <2>7, <3>1 DEF InManifest
  <2>9. InTables' \subseteq InTables \cup E
    <3> DEFINE X == InTables \cup E
    <3>1. EntriesIn(disk'.tables, Numbers(db'.current)) \subseteq X
      BY <1>1, <2>3, <2>6, <2>7, PartsOfTables
    <3>2. EntriesIn(disk'.tables, Made') \subseteq X
      BY <1>1, <2>4, <2>6, <2>7, PartsOfTables
    <3>3. EntriesIn(disk'.tables, EditNumbers') \subseteq X
      BY <2>5, <2>7
    <3>4. UNION ToSet(bg'.todo) \subseteq X
      BY <1>1, <2>3, PartsOfTables
    <3> HIDE DEF X
    <3>5. InTables' \subseteq InTables \cup X
      BY <1>1, <3>1, <3>2, <3>3, <3>4, PartsOfTables
    <3> QED
      BY <3>5 DEF X
  <2> QED
    BY <2>2, <2>3, <2>5, <2>8, <2>9, NothingNewBehind
<1>6. CASE BeginCompaction
  <2>1. PICK p \in ToCompact(db.current, db.pointers, db.seek) :
          LET c == PickCompaction(db.current, p[1], p[2])
              E == UNION {disk.tables[f.num] : f \in c.inputs0 \cup c.inputs1}
          IN  /\ bg' = IF IsTrivialMove(c)
                       THEN [bg EXCEPT !.pc = "log", !.kind = "move",
                                !.edit = Edit({<<c.level + 1, f>> : f \in c.inputs0},
                                              {<<c.level, f.num>> : f \in c.inputs0},
                                              db.logNumber, Pointer(c))]
                       ELSE [bg EXCEPT !.pc = "merge", !.c = c,
                                !.todo = Outputs(c, E, IF Taken = {} THEN db.lastSeq
                                                       ELSE Min(Taken))]
              /\ db' = [db EXCEPT !.pointers = Overlay(@, Pointer(c))]
    BY <1>6 DEF BeginCompaction
  <2>2. PICK c : c = PickCompaction(db.current, p[1], p[2])
    OBVIOUS
  <2> DEFINE E == UNION {disk.tables[f.num] : f \in c.inputs0 \cup c.inputs1}
             a == {<<c.level, f.num>> : f \in c.inputs0}
             b == db.logNumber
             g == Pointer(c)
             s == IF Taken = {} THEN db.lastSeq ELSE Min(Taken)
  <2>3. /\ E \in MemContents /\ Lined(E) /\ E \subseteq EntriesIn(disk.tables, Numbers(db.current))
        /\ c.inputs0 \subseteq db.current[p[1]] /\ p[1] \in Levels
    BY <1>0, <2>2, PickedIsWritten
  <2>4. /\ \/ bg' = [bg EXCEPT !.pc = "log", !.kind = "move",
                 !.edit = Edit({<<c.level + 1, f>> : f \in c.inputs0}, a, b, g)]
           \/ bg' = [bg EXCEPT !.pc = "merge", !.c = c, !.todo = Outputs(c, E, s)]
        /\ \E y : db' = [db EXCEPT !.pointers = y]
        /\ UNCHANGED disk
    <3>1. /\ bg' = IF IsTrivialMove(c)
                   THEN [bg EXCEPT !.pc = "log", !.kind = "move",
                            !.edit = Edit({<<c.level + 1, f>> : f \in c.inputs0},
                                          {<<c.level, f.num>> : f \in c.inputs0},
                                          db.logNumber, Pointer(c))]
                   ELSE [bg EXCEPT !.pc = "merge", !.c = c,
                            !.todo = Outputs(c, E, IF Taken = {} THEN db.lastSeq ELSE Min(Taken))]
          /\ db' = [db EXCEPT !.pointers = Overlay(@, Pointer(c))]
      BY <2>1, <2>2
    <3> HIDE DEF E
    <3>2. \E y : db' = [db EXCEPT !.pointers = y]
      BY <3>1
    <3>3. UNCHANGED disk
      BY <1>6 DEF BeginCompaction
    <3>4. CASE IsTrivialMove(c)
      BY <3>1, <3>2, <3>3, <3>4
    <3>5. CASE ~IsTrivialMove(c)
      BY <3>1, <3>2, <3>3, <3>5
    <3> QED
      BY <3>4, <3>5
  <2> HIDE DEF E, a, b, g, s
  <2>5. db'.current = db.current /\ db'.imm = db.imm
    BY <1>a, <2>4, Fields
  <2>6. bg'.made = bg.made /\ Made' = Made
    <3>1. bg'.made = bg.made
      BY <1>a, <2>4, Fields
    <3> QED
      BY <3>1 DEF Made
  <2>7. InManifest' = InManifest
    BY <2>4 DEF InManifest
  <2>8. EntriesIn(disk'.tables, Numbers(db'.current)) \subseteq InTables
        /\ EntriesIn(disk'.tables, Made') \subseteq InTables
    BY <1>1, <2>4, <2>5, <2>6, PartsOfTables
  <2>9. CASE bg' = [bg EXCEPT !.pc = "log", !.kind = "move",
                 !.edit = Edit({<<c.level + 1, f>> : f \in c.inputs0}, a, b, g)]
    <3>2. /\ bg'.todo = bg.todo /\ bg'.pc = "log"
          /\ bg'.edit = Edit({<<c.level + 1, f>> : f \in c.inputs0}, a, b, g)
      BY <1>a, <2>9, Fields
    <3>3. bg'.edit.lastSeq = db.lastSeq /\ bg'.edit.added = {<<c.level + 1, f>> : f \in c.inputs0}
      BY <3>2 DEF Edit
    <3>4. EditNumbers' \subseteq Numbers(db.current)
      <4>1. \A f \in c.inputs0 : f.num \in Numbers(db.current)
        BY <2>3, NumberOfFile
      <4> QED
        BY <3>2, <3>3, <4>1 DEF EditNumbers, Added
    <3>5. EntriesIn(disk'.tables, EditNumbers') \subseteq InTables
      <4>1. EntriesIn(disk.tables, EditNumbers') \subseteq EntriesIn(disk.tables, Numbers(db.current))
        BY <3>4, EntriesInSteps
      <4> QED
        BY <1>1, <2>4, <4>1, PartsOfTables
    <3>6. UNION ToSet(bg'.todo) \subseteq InTables
      BY <1>1, <3>2, PartsOfTables
    <3>7. InTables' \subseteq InTables
      BY <1>1, <2>8, <3>5, <3>6, PartsOfTables
    <3> QED
      BY <2>4, <2>5, <2>7, <3>3, <3>7, NothingNewBehind
  <2>10. CASE bg' = [bg EXCEPT !.pc = "merge", !.c = c, !.todo = Outputs(c, E, s)]
    <3>2. bg'.todo = Outputs(c, E, s) /\ bg'.pc = "merge"
      BY <1>a, <2>10, Fields
    <3>3. PiecesOf(Kept(c, E, s), Outputs(c, E, s)) /\ Kept(c, E, s) \subseteq E
      BY <2>3, OutputsAreInOrder
    <3>4. UNION ToSet(bg'.todo) \subseteq E
      <4> DEFINE K == Kept(c, E, s)
                 o == Outputs(c, E, s)
      <4>1. o \in Seq((SUBSET K) \ {{}}) /\ K \subseteq E
        BY <3>3 DEF PiecesOf
      <4> HIDE DEF K, o
      <4>2. \A y \in ToSet(o) : y \in (SUBSET K) \ {{}}
        BY <4>1, LenProperties, ElementOfSeq DEF ToSet
      <4>3. UNION ToSet(o) \subseteq E
        BY <4>1, <4>2
      <4> QED
        BY <3>2, <4>3 DEF o
    <3>5. UNION ToSet(bg'.todo) \subseteq InTables
      BY <1>1, <2>3, <3>4, PartsOfTables
    <3>6. EditNumbers' = {}
      BY <3>2 DEF EditNumbers
    <3>7. EntriesIn(disk'.tables, EditNumbers') \subseteq InTables
      BY <3>6, EntriesInSteps
    <3>8. InTables' \subseteq InTables
      BY <1>1, <2>8, <3>5, <3>7, PartsOfTables
    <3> QED
      BY <2>4, <2>5, <2>7, <3>2, <3>8, NothingNewBehind
  <2> QED
    BY <2>4, <2>9, <2>10
<1>7. CASE WriteOutput
  <2> DEFINE n == db.nextFile
             p == Head(bg.todo)
  <2>1. /\ bg.pc = "merge" /\ bg.todo # <<>> /\ disk' = [disk EXCEPT !.tables = With(@, n, p)]
        /\ bg' = [bg EXCEPT !.todo = Tail(@), !.made = Append(@, Meta(n, p))]
        /\ \E y, s : db' = [db EXCEPT !.nextFile = y, !.pending = s]
    BY <1>7 DEF WriteOutput
  <2>2. /\ bg'.todo = Tail(bg.todo) /\ bg'.made = Append(bg.made, Meta(n, p)) /\ bg'.pc = "merge"
        /\ db'.current = db.current /\ db'.imm = db.imm
        /\ disk'.tables = With(disk.tables, n, p) /\ disk'.manifest = disk.manifest
    BY <1>a, <2>1, Fields
  <2>3. p \in ToSet(bg.todo) /\ ToSet(bg'.todo) \subseteq ToSet(bg.todo)
    <3>1. bg.todo \in Seq(TableContents)
      BY DEF EntriesInv
    <3>2. /\ Len(bg.todo) \in Nat /\ Len(bg.todo) # 0 /\ p = bg.todo[1] /\ Len(Tail(bg.todo)) = Len(bg.todo) - 1
          /\ \A i \in 1..Len(Tail(bg.todo)) : Tail(bg.todo)[i] = bg.todo[i + 1]
      BY <2>1, <3>1, LenProperties, EmptySeq, HeadTailProperties
    <3>3. DOMAIN bg.todo = 1..Len(bg.todo) /\ DOMAIN Tail(bg.todo) = 1..(Len(bg.todo) - 1)
      <4>1. Tail(bg.todo) \in Seq(TableContents)
        BY <2>1, <3>1, HeadTailProperties
      <4> QED
        BY <3>1, <3>2, <4>1, LenProperties
    <3>4. \A i \in 1..(Len(bg.todo) - 1) : i + 1 \in 1..Len(bg.todo)
      BY <3>2
    <3> QED
      BY <2>2, <3>2, <3>3, <3>4 DEF ToSet
  <2>4. Made' \subseteq Made \cup {n}
    <3> DEFINE s == bg.made
               y == Meta(n, p)
    <3>1. s \in Seq(Range(s)) /\ y.num = n
      BY <1>0 DEF Shape, Meta
    <3> HIDE DEF y
    <3>2. s \in Seq(Range(s) \cup {y}) /\ y \in Range(s) \cup {y}
      BY <3>1
    <3> HIDE DEF s
    <3>3. /\ Len(Append(s, y)) = Len(s) + 1 /\ Len(s) \in Nat /\ DOMAIN s = 1..Len(s)
          /\ DOMAIN Append(s, y) = 1..(Len(s) + 1)
          /\ \A i \in 1..Len(s) : Append(s, y)[i] = s[i]
          /\ Append(s, y)[Len(s) + 1] = y
      BY <3>2, AppendProperties, LenProperties
    <3>4. \A i \in DOMAIN Append(s, y) : Append(s, y)[i].num \in {s[j].num : j \in DOMAIN s} \cup {n}
      <4> TAKE i \in DOMAIN Append(s, y)
      <4>1. i \in 1..Len(s) \/ i = Len(s) + 1
        BY <3>3
      <4> QED
        BY <3>1, <3>3, <4>1
    <3> QED
      BY <2>2, <3>4 DEF Made, s, y
  <2> HIDE DEF p, n
  <2>5. p \subseteq InTables /\ UNION ToSet(bg'.todo) \subseteq InTables
    <3>1. UNION ToSet(bg.todo) \subseteq InTables
      BY <1>1, PartsOfTables
    <3> QED
      BY <2>3, <3>1
  <2>6. \A N : /\ EntriesIn(disk'.tables, N) \subseteq EntriesIn(disk.tables, N \ {n}) \cup p
               /\ n \notin N => EntriesIn(disk'.tables, N) = EntriesIn(disk.tables, N)
    BY <2>2, EntriesInSteps
  <2>7. InManifest' = InManifest
    BY <1>2, <2>2, <2>6 DEF InManifest, n
  <2>8. EntriesIn(disk'.tables, Numbers(db'.current)) \subseteq InTables
    <3>1. EntriesIn(disk'.tables, Numbers(db'.current)) = EntriesIn(disk.tables, Numbers(db.current))
      BY <1>2, <2>2, <2>6 DEF n
    <3> QED
      BY <1>1, <3>1, PartsOfTables
  <2>9. EntriesIn(disk'.tables, Made') \subseteq InTables
    <3>1. Made' \ {n} \subseteq Made
      BY <2>4
    <3>2. EntriesIn(disk.tables, Made' \ {n}) \subseteq EntriesIn(disk.tables, Made)
      BY <3>1, EntriesInSteps
    <3>3. EntriesIn(disk'.tables, Made') \subseteq EntriesIn(disk.tables, Made' \ {n}) \cup p
      BY <2>6
    <3>4. EntriesIn(disk.tables, Made) \subseteq InTables
      BY <1>1, PartsOfTables
    <3> QED
      BY <2>5, <3>2, <3>3, <3>4
  <2>10. EditNumbers' = {}
    BY <2>2 DEF EditNumbers
  <2>11. InTables' \subseteq InTables
    BY <1>1, <2>5, <2>8, <2>9, <2>10, PartsOfTables, EntriesInSteps
  <2> QED
    BY <2>2, <2>7, <2>11, NothingNewBehind
<1>8. CASE EndMerge
  <2>1. /\ UNCHANGED <<disk, db>>
        /\ \E a, b, g : bg' = [bg EXCEPT !.pc = "log", !.kind = "merge",
               !.edit = Edit({<<bg.c.level + 1, bg.made[i]>> : i \in DOMAIN bg.made}, a, b, g)]
    BY <1>8 DEF EndMerge
  <2>2. PICK a, b, g : bg' = [bg EXCEPT !.pc = "log", !.kind = "merge",
               !.edit = Edit({<<bg.c.level + 1, bg.made[i]>> : i \in DOMAIN bg.made}, a, b, g)]
    BY <2>1
  <2>3. /\ bg'.todo = bg.todo /\ bg'.made = bg.made /\ bg'.pc = "log"
        /\ bg'.edit = Edit({<<bg.c.level + 1, bg.made[i]>> : i \in DOMAIN bg.made}, a, b, g)
    BY <1>a, <2>2, Fields
  <2>4. /\ bg'.edit.lastSeq = db.lastSeq
        /\ bg'.edit.added = {<<bg.c.level + 1, bg.made[i]>> : i \in DOMAIN bg.made}
    BY <2>3 DEF Edit
  <2>5. Made' = Made /\ EditNumbers' \subseteq Made
    <3>1. Made' = Made
      BY <2>3 DEF Made
    <3>2. \A y \in bg'.edit.added : y[2].num \in Made
      BY <2>4 DEF Made
    <3> QED
      BY <2>3, <3>1, <3>2 DEF EditNumbers, Added
  <2>6. EntriesIn(disk'.tables, EditNumbers') \subseteq InTables
    <3>1. EntriesIn(disk.tables, EditNumbers') \subseteq EntriesIn(disk.tables, Made)
      BY <2>5, EntriesInSteps
    <3> QED
      BY <1>1, <2>1, <3>1, PartsOfTables
  <2>7. InTables' \subseteq InTables
    BY <1>1, <2>1, <2>3, <2>5, <2>6, PartsOfTables
  <2>8. InManifest' = InManifest
    BY <2>1 DEF InManifest
  <2> QED
    BY <2>1, <2>4, <2>7, <2>8, NothingNewBehind
<1>9. CASE InstallVersion
  <2> DEFINE d == [db EXCEPT !.current = Apply(@, bg.edit), !.logNumber = bg.edit.log, !.seek = {}]
  <2>1. DOMAIN d = DOMAIN Closed /\ d.current = Apply(db.current, bg.edit) /\ d.imm = db.imm
    BY <1>a, Fields
  <2>2. /\ bg.pc = "log" /\ disk' = [disk EXCEPT !.manifest = Logged(@, bg.edit)]
        /\ \/ EndBackground(d)
           \/ db' = [d EXCEPT !.imm = {}] /\ bg' = [bg EXCEPT !.pc = "cleanup"]
           \/ db' = Unpend(d) /\ bg' = [BgIdle EXCEPT !.pc = "cleanup", !.kind = "merge"]
    BY <1>9 DEF InstallVersion
  <2> HIDE DEF d
  <2>3. /\ db'.current = Apply(db.current, bg.edit) /\ db'.imm \subseteq db.imm
        /\ Made' \subseteq Made /\ EditNumbers' = {} /\ bg'.pc # "log"
        /\ UNION ToSet(bg'.todo) \subseteq UNION ToSet(bg.todo)
    <3>1. CASE EndBackground(d)
      BY <1>0, <2>1, <3>1, AfterTask
    <3>2. CASE db' = [d EXCEPT !.imm = {}] /\ bg' = [bg EXCEPT !.pc = "cleanup"]
      <4>1. /\ db'.current = d.current /\ db'.imm = {} /\ bg'.pc = "cleanup"
            /\ bg'.made = bg.made /\ bg'.todo = bg.todo
        BY <1>a, <2>1, <3>2, Fields
      <4> QED
        BY <2>1, <4>1 DEF Made, EditNumbers
    <3>3. CASE db' = Unpend(d) /\ bg' = [BgIdle EXCEPT !.pc = "cleanup", !.kind = "merge"]
      <4>1. db'.current = d.current /\ db'.imm = d.imm
        BY <2>1, <3>3, Fields DEF Unpend
      <4>2. bg'.pc = "cleanup" /\ bg'.todo = <<>> /\ bg'.made = BgIdle.made
        BY <3>3 DEF BgIdle
      <4>3. Made' = {} /\ ToSet(<<>>) = {}
        BY <4>2, IdleNamesNothing DEF Made, ToSet
      <4> QED
        BY <2>1, <4>1, <4>2, <4>3 DEF EditNumbers
    <3> QED
      BY <2>2, <3>1, <3>2, <3>3
  <2>4. disk'.tables = disk.tables /\ disk'.manifest = Logged(disk.manifest, bg.edit)
    BY <1>a, <2>2
  <2>5. \A v : EntriesIn(disk.tables, Numbers(Apply(v, bg.edit)))
               \subseteq EntriesIn(disk.tables, Numbers(v)) \cup EntriesIn(disk.tables, EditNumbers)
    <3> TAKE v
    <3>1. Numbers(Apply(v, bg.edit)) \subseteq Numbers(v) \cup EditNumbers
      BY <2>2, NumbersOfApply DEF EditNumbers
    <3> QED
      BY <3>1 DEF EntriesIn
  <2>6. InTables' \subseteq InTables
    <3>1. EntriesIn(disk'.tables, Numbers(db'.current)) \subseteq InTables
      BY <1>1, <2>3, <2>4, <2>5, PartsOfTables
    <3>2. EntriesIn(disk'.tables, Made') \subseteq InTables
      <4>1. EntriesIn(disk.tables, Made') \subseteq EntriesIn(disk.tables, Made)
        BY <2>3, EntriesInSteps
      <4> QED
        BY <1>1, <2>4, <4>1, PartsOfTables
    <3>3. UNION ToSet(bg'.todo) \subseteq InTables
      BY <1>1, <2>3, PartsOfTables
    <3>4. EntriesIn(disk'.tables, EditNumbers') \subseteq InTables
      BY <2>3, EntriesInSteps
    <3> QED
      BY <1>1, <3>1, <3>2, <3>3, <3>4, PartsOfTables
  <2>7. /\ disk'.manifest.lastSeq = bg.edit.lastSeq
        /\ InManifest' \subseteq InManifest \cup EntriesIn(disk.tables, EditNumbers)
    <3>1. disk'.manifest.lastSeq = bg.edit.lastSeq
          /\ disk'.manifest.version = Apply(disk.manifest.version, bg.edit)
      BY <2>4 DEF Logged
    <3> QED
      BY <2>4, <2>5, <3>1 DEF InManifest
  <2> QED
    BY <2>2, <2>3, <2>6, <2>7, NothingNewBehind
<1>10. CASE BackgroundError
  <2> DEFINE d == [db EXCEPT !.bgError = TRUE, !.pending = @ \ {bg.num}]
  <2>1. DOMAIN d = DOMAIN Closed /\ d.imm = db.imm /\ d.current = db.current
    BY <1>a, Fields
  <2>2. /\ UNCHANGED disk \/ (bg.pc = "log" /\ disk' = ToManifest(bg.edit))
        /\ EndBackground(Unpend(d)) \/ Resume(d)
    BY <1>10 DEF BackgroundError, ToManifest
  <2> HIDE DEF d
  <2> DEFINE u == Unpend(d)
  <2>3. DOMAIN u = DOMAIN Closed /\ u.imm = db.imm /\ u.current = db.current
    BY <2>1, Fields DEF Unpend
  <2>4. EndBackground(u) \/ Resume(d)
    BY <2>2
  <2> HIDE DEF u
  <2>5. CASE Resume(d)
    BY <2>1, <2>2, <2>5, NumbersTaskEnds
  <2>6. CASE EndBackground(u)
    BY <2>2, <2>3, <2>6, NumbersTaskEnds
  <2> QED
    BY <2>4, <2>5, <2>6
<1>11. CASE DeleteObsoleteFiles
  <2>1. Resume(db) /\ (UNCHANGED disk \/ disk' = WithoutObsolete(disk))
    BY <1>11 DEF DeleteObsoleteFiles
  <2> QED
    BY <1>a, <2>1, NumbersTaskEnds
<1> QED
  BY <1>3, <1>4, <1>5, <1>6, <1>7, <1>8, <1>9, <1>10, <1>11 DEF Background

\* Before the database is open, tables are what is current and what is recovered.
LEMMA TablesAtRest ==
    ASSUME NothingBeforeOpen, db.up # "open"
    PROVE  /\ InTables = EntriesIn(disk.tables, Numbers(db.current) \cup Recovering) \cup db.replay.mem
           /\ EditNumbers = {}
<1>1. bg = BgIdle
  BY DEF NothingBeforeOpen
<1>2. bg.todo = <<>> /\ bg.pc = "idle" /\ bg.made = <<>>
  BY <1>1 DEF BgIdle
<1>3. Made = {}
  BY <1>1, IdleNamesNothing DEF Made
<1>4. EditNumbers = {} /\ ToSet(bg.todo) = {}
  BY <1>2 DEF EditNumbers, ToSet
<1>5. InUse = Numbers(db.current) \cup Recovering
  BY <1>3, <1>4 DEF InUse
<1> QED
  BY <1>2, <1>4, <1>5 DEF InTables

\* While a database opens nothing is written that was not, and what is in tables
\* comes from there.
LEMMA NumbersAtRest ==
    ASSUME CrashInv, CrashInv', EntriesInv, NumbersInv, db.up # "open",
           LogEntries' \subseteq LogEntries, MemEntries' = {}, InTables' \subseteq Written,
           InManifest' \subseteq Written, UpTo(InManifest', disk'.manifest.lastSeq),
           db'.up # "closed" => disk'.manifest.lastSeq <= db'.lastSeq /\ UpTo(InTables', db'.lastSeq),
           \A w \in Writers : writer'[w].pc = "idle", bg'.pc = "idle",
           db'.up = "open" => LogEntries' = {} /\ db'.imm = {},
           db'.up \in {"replayed", "installed"} =>
               \A n \in DOMAIN disk'.logs : n >= db'.log => disk'.logs[n] = EmptyLog,
           db'.up = "installed" => db'.logNumber = db'.log
    PROVE  NumbersInv'
<1>1. Written' \subseteq Written
  BY DEF Written
<1>2. NoNumberTwice'
  BY <1>1 DEF NumbersInv, NoNumberTwice
<1>3. TablesBelow'
  BY DEF TablesBelow
<1>4. ImmEntries' = {} \/ db'.up # "open"
  BY DEF ImmEntries
<1>5. \A w \in Writers : ~Busy(w)'
  BY DEF Busy
<1>6. LogsBelow'
  BY <1>4, <1>5 DEF LogsBelow, UpTo
<1> QED
  BY <1>2, <1>3, <1>6 DEF NumbersInv

\* The steps of an opening.
LEMMA NumbersOpening ==
    ASSUME CrashInv, CrashInv', EntriesInv, NumbersInv, Opening
    PROVE  NumbersInv'
<1>0. Shape /\ NothingBeforeOpen /\ NamesFiles /\ LogsExist /\ LogsPart /\ LogsOK /\ FinitelyMany
  BY DEF CrashInv, LogsInv, FilesInv, NamesFiles, LogsPart
<1>a. DOMAIN db = DOMAIN Closed /\ DOMAIN disk = {"tables", "logs", "manifest"}
      /\ DOMAIN db.replay = {"logs", "pos", "mem"}
  BY <1>0, Fields DEF Shape
<1>1. db.up # "open" /\ UNCHANGED <<queue, writer, group, bg, history, events>>
  BY <1>0, LogsPartOpening
<1>2. /\ Written \subseteq Entries /\ db.lastSeq \in Nat /\ disk.manifest.lastSeq \in Nat
      /\ \A e \in Entries : e.seq \in Nat
  BY <1>0, WrittenAreEntries
<1>3. /\ \A w \in Writers : writer'[w].pc = "idle"
      /\ bg'.pc = "idle" /\ db.imm = {}
  BY <1>0, <1>1 DEF NothingBeforeOpen, BgIdle
<1>4. /\ MemEntries = {} /\ UpTo(InManifest, disk.manifest.lastSeq)
      /\ db.up # "closed" => disk.manifest.lastSeq <= db.lastSeq /\ UpTo(InTables, db.lastSeq)
  BY <1>1 DEF NumbersInv, TablesBelow, LogsBelow
<1>5. InTables \subseteq Written /\ InManifest \subseteq Written /\ LogEntries \subseteq Written
  BY DEF Written
<1>6. InTables = EntriesIn(disk.tables, Numbers(db.current) \cup Recovering) \cup db.replay.mem
  BY <1>0, <1>1, TablesAtRest
<1>7. db'.up # "open" =>
        InTables' = EntriesIn(disk'.tables, Numbers(db'.current) \cup Recovering') \cup db'.replay.mem
  <2>1. bg' = BgIdle
    BY <1>0, <1>1 DEF NothingBeforeOpen
  <2>2. bg'.todo = <<>> /\ bg'.pc = "idle" /\ bg'.made = BgIdle.made
    BY <2>1 DEF BgIdle
  <2>3. Made' = {}
    BY <2>2, IdleNamesNothing DEF Made
  <2>4. EditNumbers' = {} /\ ToSet(bg'.todo) = {}
    BY <2>2 DEF EditNumbers, ToSet
  <2>5. InUse' = Numbers(db'.current) \cup Recovering'
    BY <2>3, <2>4 DEF InUse
  <2> QED
    BY <2>4, <2>5 DEF InTables
<1>8. db.up # "closed" =>
          db.nextFile \notin Numbers(disk.manifest.version) /\ db.nextFile \notin Numbers(db.current)
  <2>1. db.nextFile \in Nat /\ disk.manifest.nextFile \in Nat
        /\ Numbers(db.current) \subseteq Below(db.nextFile)
        /\ Numbers(disk.manifest.version) \subseteq Below(disk.manifest.nextFile)
        /\ (db.up # "closed" => disk.manifest.nextFile <= db.nextFile)
    BY <1>0 DEF NamesFiles, ManifestNamesFiles, VersionsNameFiles
  <2> QED
    BY <2>1 DEF Below
<1>9. CASE Recover
  <2>1. /\ db.up = "closed" /\ UNCHANGED disk
        /\ db' = [Closed EXCEPT !.up = "replaying", !.lastSeq = disk.manifest.lastSeq,
                    !.nextFile = disk.manifest.nextFile + 1, !.logNumber = disk.manifest.log,
                    !.current = disk.manifest.version, !.pointers = disk.manifest.pointers,
                    !.replay = [NoReplay EXCEPT !.logs = LogsToReplay(disk.manifest)]]
    BY <1>9 DEF Recover
  <2>2. /\ db'.up = "replaying" /\ db'.lastSeq = disk.manifest.lastSeq /\ db'.pending = {}
        /\ db'.current = disk.manifest.version /\ db'.memtables = <<>>
        /\ db'.replay.mem = {}
    BY <2>1 DEF Closed, NoReplay
  <2>3. InTables' = InManifest
    BY <1>7, <2>1, <2>2 DEF InManifest, Recovering
  <2>4. MemEntries' = {} /\ LogEntries' = LogEntries /\ InManifest' = InManifest
    BY <2>1, <2>2 DEF MemEntries, LogEntries, InManifest
  <2>5. disk'.manifest.lastSeq <= db'.lastSeq
    BY <1>2, <2>1, <2>2
  <2> QED
    BY <1>1, <1>3, <1>4, <1>5, <2>1, <2>2, <2>3, <2>4, <2>5, NumbersAtRest
<1>10. ASSUME db.up = "replaying", NEW mem, NEW d, DOMAIN d = DOMAIN Closed,
              DOMAIN d.replay = DOMAIN NoReplay, d.up = db.up, d.current = db.current,
              d.pending = db.pending, d.memtables = db.memtables, d.imm = db.imm,
              mem \subseteq Written, UpTo(mem, d.lastSeq), UpTo(InTables, d.lastSeq),
              disk.manifest.lastSeq <= d.lastSeq,
              WriteReplayed(mem, d)
       PROVE  NumbersInv'
  <2> DEFINE n == db.nextFile
  <2>1. /\ disk' = [disk EXCEPT !.tables = With(@, n, mem)]
        /\ \E y : db' = [d EXCEPT !.nextFile = y, !.pending = @ \cup {n}, !.replay.mem = {}]
    BY <1>10 DEF WriteReplayed
  <2>2. /\ disk'.tables = With(disk.tables, n, mem) /\ disk'.manifest = disk.manifest
        /\ disk'.logs = disk.logs
    BY <1>a, <2>1
  <2>3. /\ db'.up = "replaying" /\ db'.current = db.current /\ db'.pending = db.pending \cup {n}
        /\ db'.memtables = db.memtables /\ db'.lastSeq = d.lastSeq /\ db'.replay.mem = {}
    BY <1>10, <2>1, Fields
  <2> HIDE DEF n
  <2>4. \A N : /\ EntriesIn(disk'.tables, N) \subseteq EntriesIn(disk.tables, N \ {n}) \cup mem
               /\ n \notin N => EntriesIn(disk'.tables, N) = EntriesIn(disk.tables, N)
    BY <2>2, EntriesInSteps
  <2>5. InManifest' = InManifest
    BY <1>8, <1>10, <2>2, <2>4 DEF InManifest, n
  <2>6. InTables' \subseteq InTables \cup mem
    <3>1. InTables' = EntriesIn(disk'.tables, Numbers(db.current) \cup db.pending \cup {n})
      BY <1>7, <2>3 DEF Recovering
    <3>2. (Numbers(db.current) \cup db.pending \cup {n}) \ {n}
             \subseteq Numbers(db.current) \cup Recovering
      BY <1>10 DEF Recovering
    <3>3. EntriesIn(disk.tables, (Numbers(db.current) \cup db.pending \cup {n}) \ {n}) \subseteq InTables
      BY <1>6, <3>2, EntriesInSteps
    <3> QED
      BY <3>1, <3>3, <2>4
  <2>7. MemEntries' = {} /\ LogEntries' = LogEntries
    BY <1>4, <2>2, <2>3 DEF MemEntries, LogEntries
  <2>8. UpTo(InTables', db'.lastSeq) /\ disk'.manifest.lastSeq <= db'.lastSeq
    BY <1>10, <2>2, <2>3, <2>6 DEF UpTo
  <2>9. InTables' \subseteq Written
    BY <1>5, <1>10, <2>6
  <2> QED
    BY <1>1, <1>3, <1>4, <1>5, <2>2, <2>3, <2>5, <2>7, <2>8, <2>9, NumbersAtRest
<1>11. ASSUME db.up = "replaying", NEW mem, NEW d, DOMAIN d = DOMAIN Closed,
              DOMAIN d.replay = DOMAIN NoReplay, d.up = db.up, d.current = db.current,
              d.pending = db.pending, d.memtables = db.memtables,
              mem \subseteq Written, UpTo(mem, d.lastSeq), UpTo(InTables, d.lastSeq),
              disk.manifest.lastSeq <= d.lastSeq,
              d.replay.mem = mem, db' = d, UNCHANGED disk
       PROVE  NumbersInv'
  <2>1. InTables' \subseteq InTables \cup mem
    BY <1>6, <1>7, <1>11 DEF Recovering
  <2>2. MemEntries' = {} /\ LogEntries' = LogEntries /\ InManifest' = InManifest
    BY <1>4, <1>11 DEF MemEntries, LogEntries, InManifest
  <2>3. UpTo(InTables', db'.lastSeq) /\ InTables' \subseteq Written
    BY <1>5, <1>11, <2>1 DEF UpTo
  <2>4. db'.up = "replaying" /\ disk'.manifest.lastSeq <= db'.lastSeq
    BY <1>11
  <2> QED
    BY <1>1, <1>3, <1>4, <1>5, <1>11, <2>2, <2>3, <2>4, NumbersAtRest
<1>12. CASE ReplayRecord
  <2> DEFINE r == disk.logs[OldestLog].records[db.replay.pos + 1]
             mem == db.replay.mem \cup InsertInto(r.ops, r.seq)
             d == [db EXCEPT !.lastSeq = Max({@, r.seq + Len(r.ops) - 1}), !.replay.pos = @ + 1]
             d2 == [d EXCEPT !.replay.mem = mem]
  <2>1. /\ db.up = "replaying" /\ db.replay.logs # {}
        /\ db.replay.pos < Len(disk.logs[OldestLog].records)
        /\ \/ WriteReplayed(mem, d)
           \/ db' = d2 /\ UNCHANGED disk
    BY <1>12 DEF ReplayRecord, Replaying
  <2>2. r \in LogRecords /\ r \in ToSet(disk.logs[OldestLog].records) /\ OldestLog \in DOMAIN disk.logs
    <3>1. OldestLog \in DOMAIN disk.logs
      BY <1>0, <2>1, OldestIsLog
    <3>2. disk.logs[OldestLog].records \in Seq(LogRecords) /\ db.replay.pos \in Nat
      BY <1>0, <3>1 DEF LogsOK
    <3> DEFINE s == disk.logs[OldestLog].records
    <3>3. s \in Seq(LogRecords) /\ Len(s) \in Nat /\ DOMAIN s = 1..Len(s)
          /\ db.replay.pos < Len(s)
      BY <2>1, <3>2, LenProperties
    <3> HIDE DEF s
    <3>4. db.replay.pos + 1 \in 1..Len(s)
      BY <3>2, <3>3
    <3>5. s[db.replay.pos + 1] \in LogRecords
      BY <3>3, <3>4, ElementOfSeq
    <3> QED
      BY <3>1, <3>3, <3>4, <3>5 DEF s, ToSet
  <2> HIDE DEF r
  <2>3. /\ r.seq \in Nat \ {0} /\ r.ops \in Seq(Operations) /\ Len(r.ops) \in Nat
    BY <2>2, LenProperties DEF LogRecords
  <2>4. \A e \in InsertInto(r.ops, r.seq) : e.seq \in r.seq..r.seq + Len(r.ops) - 1
    BY <2>3, InsertedNumbers
  <2>5. InsertInto(r.ops, r.seq) \subseteq LogEntries
    BY <2>2 DEF LogEntries
  <2> DEFINE m == Max({db.lastSeq, r.seq + Len(r.ops) - 1})
  <2>6. m \in Nat /\ m >= db.lastSeq /\ m >= r.seq + Len(r.ops) - 1
    <3>1. r.seq + Len(r.ops) - 1 \in Nat
      BY <2>3
    <3> QED
      BY <1>2, <3>1, MaxOfTwo
  <2>7. /\ DOMAIN d = DOMAIN Closed /\ d.up = db.up /\ d.current = db.current
        /\ d.pending = db.pending /\ d.memtables = db.memtables /\ d.imm = db.imm
        /\ d.lastSeq = m /\ DOMAIN d.replay = DOMAIN NoReplay
    BY <1>a, Fields
  <2>8. /\ DOMAIN d2 = DOMAIN Closed /\ d2.up = db.up /\ d2.current = db.current
        /\ d2.pending = db.pending /\ d2.memtables = db.memtables
        /\ d2.lastSeq = m /\ DOMAIN d2.replay = DOMAIN NoReplay /\ d2.replay.mem = mem
    BY <1>a, Fields
  <2>9. db.replay.mem \subseteq InTables
    BY DEF InTables
  <2> HIDE DEF d, d2, m
  <2>10. mem \subseteq Written
    BY <1>5, <2>5, <2>9
  <2>11. UpTo(InTables, m) /\ disk.manifest.lastSeq <= m
    <3>1. \A e \in InTables : e.seq \in Nat /\ e.seq <= db.lastSeq
      BY <1>2, <1>4, <1>5, <2>1 DEF UpTo
    <3> QED
      BY <1>2, <1>4, <2>1, <2>6, <3>1 DEF UpTo
  <2>12. UpTo(mem, m)
    <3>1. \A e \in InsertInto(r.ops, r.seq) : e.seq <= m
      BY <2>3, <2>4, <2>6
    <3> QED
      BY <2>9, <2>11, <3>1 DEF UpTo
  <2> HIDE DEF mem
  <2>13. CASE WriteReplayed(mem, d)
    BY <1>10, <2>1, <2>7, <2>10, <2>11, <2>12, <2>13
  <2>14. CASE db' = d2 /\ UNCHANGED disk
    BY <1>11, <2>1, <2>8, <2>10, <2>11, <2>12, <2>14
  <2> QED
    BY <2>1, <2>13, <2>14
<1>13. CASE EndOfLog
  <2> DEFINE mem == db.replay.mem
             d == [db EXCEPT !.nextFile = Max({@, OldestLog + 1}),
                        !.replay.logs = @ \ {OldestLog}, !.replay.pos = 0]
  <2>1. /\ db.up = "replaying"
        /\ \/ WriteReplayed(mem, d)
           \/ db' = d /\ UNCHANGED disk
    BY <1>13 DEF EndOfLog, Replaying
  <2>2. /\ DOMAIN d = DOMAIN Closed /\ d.up = db.up /\ d.current = db.current
        /\ d.pending = db.pending /\ d.memtables = db.memtables /\ d.imm = db.imm
        /\ d.lastSeq = db.lastSeq /\ DOMAIN d.replay = DOMAIN NoReplay /\ d.replay.mem = mem
    BY <1>a, Fields
  <2>3. mem \subseteq InTables
    BY DEF InTables
  <2> HIDE DEF d, mem
  <2>4. /\ mem \subseteq Written /\ UpTo(mem, d.lastSeq) /\ UpTo(InTables, d.lastSeq)
        /\ disk.manifest.lastSeq <= d.lastSeq
    BY <1>4, <1>5, <2>1, <2>2, <2>3 DEF UpTo
  <2>5. CASE WriteReplayed(mem, d)
    BY <1>10, <2>1, <2>2, <2>4, <2>5
  <2>6. CASE db' = d /\ UNCHANGED disk
    BY <1>11, <2>1, <2>2, <2>4, <2>6
  <2> QED
    BY <2>1, <2>5, <2>6
<1>14. CASE BeginLog
  <2> DEFINE n == db.nextFile
  <2>1. /\ db.up = "replaying" /\ db.replay.logs = {}
        /\ disk' = [disk EXCEPT !.logs = With(@, n, EmptyLog)]
        /\ db' = [db EXCEPT !.up = "replayed", !.nextFile = @ + 1, !.log = n,
                            !.memtables = With(<<>>, n, {})]
    BY <1>14 DEF BeginLog
  <2>2. /\ disk'.tables = disk.tables /\ disk'.manifest = disk.manifest
        /\ disk'.logs = With(disk.logs, n, EmptyLog)
        /\ db'.up = "replayed" /\ db'.log = n /\ db'.memtables = With(<<>>, n, {})
        /\ \A x \in {"current", "pending", "replay", "lastSeq"} : db'[x] = db[x]
    BY <1>a, <2>1, Fields
  <2>3. \A x \in DOMAIN disk.logs : x < n
    BY <1>0, <2>1 DEF LogsPart, LogNumbersUsed
  <2> HIDE DEF n
  <2>4. /\ DOMAIN disk'.logs = DOMAIN disk.logs \cup {n} /\ disk'.logs[n] = EmptyLog
        /\ \A m \in DOMAIN disk.logs \ {n} : disk'.logs[m] = disk.logs[m]
    BY <2>2 DEF With, Overlay
  <2>5. ToSet(EmptyLog.records) = {}
    BY DEF EmptyLog, ToSet
  <2>6. LogEntries' \subseteq LogEntries
    BY <2>4, <2>5 DEF LogEntries
  <2>7. \A m \in DOMAIN db'.memtables : db'.memtables[m] = {}
    BY <2>2 DEF With, Overlay
  <2>8. MemEntries' = {}
    BY <2>7 DEF MemEntries
  <2>9. Recovering' = Recovering
    BY <2>1, <2>2 DEF Recovering
  <2>10. InTables' = InTables /\ InManifest' = InManifest
    BY <1>6, <1>7, <2>2, <2>9 DEF InManifest
  <2>11. \A m \in DOMAIN disk'.logs : m >= n => disk'.logs[m] = EmptyLog
    <3>1. DOMAIN disk.logs \subseteq Nat /\ n \in Nat
      BY <1>0 DEF NamesFiles, ManifestNamesFiles, VersionsNameFiles, n
    <3> QED
      BY <2>3, <2>4, <3>1
  <2> QED
    BY <1>1, <1>3, <1>4, <1>5, <2>1, <2>2, <2>6, <2>8, <2>10, <2>11, NumbersAtRest
<1>15. CASE InstallRecovered
  <2> DEFINE e == Edit({<<0, Meta(n, disk.tables[n])>> : n \in db.pending}, {}, db.log, <<>>)
  <2>1. /\ db.up = "replayed" /\ disk' = [disk EXCEPT !.manifest = Logged(@, e)]
        /\ db' = [db EXCEPT !.up = "installed", !.current = Apply(@, e),
                            !.logNumber = db.log, !.pending = {}]
    BY <1>15 DEF InstallRecovered
  <2>2. Added(e) \subseteq db.pending /\ e.lastSeq = db.lastSeq
    BY DEF Added, Edit, Meta
  <2> HIDE DEF e
  <2>3. /\ disk'.tables = disk.tables /\ disk'.manifest = Logged(disk.manifest, e)
        /\ disk'.logs = disk.logs
        /\ db'.up = "installed" /\ db'.current = Apply(db.current, e) /\ db'.logNumber = db.log
        /\ \A x \in {"replay", "lastSeq", "log", "memtables"} : db'[x] = db[x]
    BY <1>a, <2>1, Fields
  <2>4. disk'.manifest.lastSeq = db.lastSeq /\ disk'.manifest.version = Apply(disk.manifest.version, e)
    BY <2>2, <2>3 DEF Logged
  <2>5. Recovering = db.pending /\ Recovering' = {}
    BY <2>1, <2>3 DEF Recovering
  <2>6. Numbers(db'.current) \subseteq Numbers(db.current) \cup Recovering
        /\ Numbers(disk'.manifest.version) \subseteq Numbers(disk.manifest.version)
                                                      \cup (Numbers(db.current) \cup Recovering)
    <3>1. \A v : Numbers(Apply(v, e)) \subseteq Numbers(v) \cup Recovering
      BY <2>2, <2>5, NumbersOfApply
    <3> QED
      BY <2>3, <2>4, <3>1
  <2>7. EntriesIn(disk'.tables, Numbers(db'.current) \cup Recovering')
           \subseteq EntriesIn(disk.tables, Numbers(db.current) \cup Recovering)
    <3>1. Numbers(db'.current) \cup Recovering' \subseteq Numbers(db.current) \cup Recovering
      BY <2>5, <2>6
    <3> QED
      BY <2>3, <3>1, EntriesInSteps
  <2>8. InTables' \subseteq InTables
    BY <1>6, <1>7, <2>3, <2>7
  <2>9. InManifest' \subseteq InManifest \cup InTables
    <3> DEFINE A == Numbers(disk.manifest.version)
               B == Numbers(db.current) \cup Recovering
    <3>1. EntriesIn(disk.tables, A \cup B) = InManifest \cup EntriesIn(disk.tables, B)
      BY EntriesInSteps DEF InManifest
    <3>2. EntriesIn(disk.tables, Numbers(disk'.manifest.version)) \subseteq EntriesIn(disk.tables, A \cup B)
      <4> HIDE DEF A, B
      <4> QED
        BY <2>6, EntriesInSteps DEF A, B
    <3>3. InManifest' = EntriesIn(disk.tables, Numbers(disk'.manifest.version))
      BY <2>3 DEF InManifest
    <3> QED
      BY <1>6, <3>1, <3>2, <3>3
  <2>10. UpTo(InManifest', disk'.manifest.lastSeq)
    <3>1. \A x \in InManifest : x.seq \in Nat /\ x.seq <= disk.manifest.lastSeq
      BY <1>2, <1>4, <1>5 DEF UpTo
    <3>2. \A x \in InTables : x.seq <= db.lastSeq
      BY <1>4, <2>1 DEF UpTo
    <3>3. \A x \in InManifest : x.seq <= db.lastSeq
      BY <1>2, <1>4, <2>1, <3>1
    <3> QED
      BY <2>4, <2>9, <3>2, <3>3 DEF UpTo
  <2>11. MemEntries' = {} /\ LogEntries' = LogEntries
    BY <1>4, <2>3 DEF MemEntries, LogEntries
  <2>12. \A n \in DOMAIN disk'.logs : n >= db'.log => disk'.logs[n] = EmptyLog
    BY <2>1, <2>3 DEF NumbersInv, LogsBelow
  <2>13. disk'.manifest.lastSeq <= db'.lastSeq /\ UpTo(InTables', db'.lastSeq)
    BY <1>2, <1>4, <2>1, <2>3, <2>4, <2>8 DEF UpTo
  <2> QED
    BY <1>1, <1>3, <1>5, <2>3, <2>8, <2>9, <2>10, <2>11, <2>12, <2>13, NumbersAtRest
<1>16. CASE FinishOpen
  <2> DEFINE d == [db EXCEPT !.up = "open"]
  <2>1. db.up = "installed" /\ disk' = WithoutObsolete(disk) /\ db' = MaybeSchedule(d)
    BY <1>16 DEF FinishOpen
  <2>2. DOMAIN d = DOMAIN Closed /\ d.up = "open"
        /\ \A x \in {"current", "pending", "replay", "lastSeq", "memtables", "imm", "log"} : d[x] = db[x]
    BY <1>a, Fields
  <2> HIDE DEF d
  <2>3. db'.up = "open"
        /\ \A x \in {"current", "pending", "replay", "lastSeq", "memtables", "imm", "log"} : db'[x] = db[x]
    BY <2>1, <2>2, MaybeScheduleShape, Fields
  <2>4. /\ disk'.manifest = disk.manifest /\ DOMAIN disk'.logs = LiveLogs
        /\ \A n \in LiveLogs : disk'.logs[n] = disk.logs[n]
        /\ disk'.tables = Restrict(disk.tables, DOMAIN disk.tables \cap LiveFiles)
    <3>1. /\ disk'.manifest = disk.manifest /\ DOMAIN disk'.logs = LiveLogs
          /\ \A n \in LiveLogs : disk'.logs[n] = disk.logs[n]
      BY <1>0, <2>1, ObsoleteIsNotNamed
    <3>2. disk'.tables = Restrict(disk.tables, DOMAIN disk.tables \cap LiveFiles)
      BY <1>a, <2>1 DEF WithoutObsolete
    <3> QED
      BY <3>1, <3>2
  <2>5. LogEntries' = {}
    <3>1. \A n \in LiveLogs : disk.logs[n] = EmptyLog
      BY <2>1 DEF NumbersInv, LogsBelow, LiveLogs
    <3>2. ToSet(EmptyLog.records) = {}
      BY DEF EmptyLog, ToSet
    <3> QED
      BY <2>4, <3>1, <3>2 DEF LogEntries
  <2>6. \A N : EntriesIn(disk'.tables, N) \subseteq EntriesIn(disk.tables, N)
    BY <2>4, EntriesInSteps
  <2>7. InManifest' \subseteq InManifest
    BY <2>4, <2>6 DEF InManifest
  <2>8. InTables' \subseteq InTables
    <3>1. bg' = BgIdle
      BY <1>0, <1>1 DEF NothingBeforeOpen
    <3>2. Made' = {} /\ EditNumbers' = {} /\ Recovering' = {} /\ ToSet(bg'.todo) = {}
      <4>1. bg'.todo = <<>> /\ bg'.pc = "idle" /\ bg'.made = BgIdle.made
        BY <3>1 DEF BgIdle
      <4>2. Made' = {}
        BY <4>1, IdleNamesNothing DEF Made
      <4> QED
        BY <2>3, <4>1, <4>2 DEF EditNumbers, Recovering, ToSet
    <3>3. InTables' = EntriesIn(disk'.tables, Numbers(db.current)) \cup db.replay.mem
      BY <2>3, <3>2 DEF InTables, InUse
    <3>4. EntriesIn(disk.tables, Numbers(db.current)) \subseteq InTables
      BY DEF InTables, InUse, EntriesIn
    <3>5. db.replay.mem \subseteq InTables
      BY DEF InTables
    <3> QED
      BY <2>6, <3>3, <3>4, <3>5
  <2>9. MemEntries' = {}
    BY <1>4, <2>3 DEF MemEntries
  <2>10. /\ UpTo(InManifest', disk'.manifest.lastSeq) /\ UpTo(InTables', db'.lastSeq)
         /\ disk'.manifest.lastSeq <= db'.lastSeq
    BY <1>4, <2>1, <2>3, <2>4, <2>7, <2>8 DEF UpTo
  <2> QED
    BY <1>1, <1>3, <1>5, <2>3, <2>5, <2>7, <2>8, <2>9, <2>10, NumbersAtRest
<1> QED
  BY <1>9, <1>12, <1>13, <1>14, <1>15, <1>16 DEF Opening

\* A crash leaves what is on the disk.
LEMMA NumbersCrash ==
    ASSUME CrashInv, NumbersInv, Crash
    PROVE  NumbersInv'
<1>0. Shape /\ LogsOK
  BY DEF CrashInv, LogsInv, FilesInv
<1>1. /\ db' = Closed /\ bg' = BgIdle /\ writer' = [w \in Writers |-> Idle]
      /\ disk' = disk \/ \E x : disk' = [disk EXCEPT !.logs = x]
  BY DEF Crash
<1>2. disk'.tables = disk.tables /\ disk'.manifest = disk.manifest
  BY <1>0, <1>1, Fields DEF Shape
<1>3. /\ db'.up = "closed" /\ db'.memtables = <<>> /\ db'.current = NoFiles
      /\ db'.replay.mem = {} /\ bg'.todo = <<>> /\ bg'.pc = "idle"
  BY <1>1 DEF Closed, NoReplay, BgIdle
<1>4. InTables' = {}
  <2>1. Made' = {}
    BY <1>1, IdleNamesNothing DEF Made
  <2>2. EditNumbers' = {} /\ Recovering' = {} /\ ToSet(bg'.todo) = {} /\ Numbers(db'.current) = {}
    BY <1>3, NoNumbers DEF EditNumbers, Recovering, ToSet
  <2> QED
    BY <1>3, <2>1, <2>2, EntriesInSteps DEF InTables, InUse
<1>5. MemEntries' = {}
  BY <1>3 DEF MemEntries
<1>6. LogEntries' \subseteq LogEntries
  <2>1. DOMAIN disk'.logs = DOMAIN disk.logs
        /\ \A n \in DOMAIN disk.logs : LogIsCut(disk.logs[n], disk'.logs[n])
    BY <1>0, CrashCuts
  <2>2. \A n \in DOMAIN disk.logs : ToSet(disk'.logs[n].records) \subseteq ToSet(disk.logs[n].records)
    <3> TAKE n \in DOMAIN disk.logs
    <3>1. GoodLog(disk.logs[n]) /\ LogIsCut(disk.logs[n], disk'.logs[n])
      BY <1>0, <2>1, LogsAreGood
    <3> DEFINE s == disk.logs[n].records
               t == disk'.logs[n].records
    <3>2. /\ s \in Seq(LogRecords) /\ t \in Seq(LogRecords) /\ Len(t) <= Len(s)
          /\ \A i \in 1..Len(t) : t[i] = s[i]
      BY <3>1 DEF GoodLog, LogIsCut
    <3> HIDE DEF s, t
    <3>3. DOMAIN s = 1..Len(s) /\ DOMAIN t = 1..Len(t) /\ Len(s) \in Nat /\ Len(t) \in Nat
      BY <3>2, LenProperties
    <3>4. \A i \in DOMAIN t : i \in DOMAIN s
      BY <3>2, <3>3
    <3>5. ToSet(t) \subseteq ToSet(s)
      BY <3>2, <3>3, <3>4 DEF ToSet
    <3> QED
      BY <3>5 DEF s, t
  <2> QED
    BY <2>1, <2>2 DEF LogEntries
<1>7. InManifest' = InManifest
  BY <1>2 DEF InManifest
<1>8. Written' \subseteq Written
  BY <1>4, <1>5, <1>6, <1>7 DEF Written
<1>9. NoNumberTwice' /\ TablesBelow'
  BY <1>2, <1>3, <1>7, <1>8 DEF NumbersInv, NoNumberTwice, TablesBelow
<1>10. \A w \in Writers : ~Busy(w)'
  BY <1>1 DEF Busy, Idle
<1>11. LogsBelow'
  BY <1>3, <1>5, <1>10 DEF LogsBelow
<1> QED
  BY <1>9, <1>11 DEF NumbersInv

\* Every step.
LEMMA NumbersNext ==
    ASSUME CrashInv, CrashInv', EntriesInv, NumbersInv, [Next]_vars
    PROVE  NumbersInv'
<1>1. CASE UNCHANGED vars
  <2>1. UNCHANGED <<disk, db, queue, writer, group, bg>>
    BY <1>1 DEF vars
  <2> QED
    BY <2>1 DEF NumbersInv, NoNumberTwice, TablesBelow, LogsBelow, Written, InTables, InManifest,
       LogEntries, MemEntries, ImmEntries, EditNumbers, InUse, Recovering, Unpublished, Made, Added,
       EntriesIn, Busy, GroupOps
<1>2. CASE Next
  BY <1>2, NumbersWriter, NumbersReader, NumbersBackground, NumbersOpening, NumbersCrash DEF Next
<1> QED
  BY <1>1, <1>2

\* No sequence number is given twice, across flushes, compactions, crashes and
\* recoveries, and each is at most the last one that a writer, an edit on its way or a
\* recovery would go on from.
THEOREM NumbersInvariant == Spec => []NumbersInv
<1>1. Init => NumbersInv
  BY NumbersInit
<1>2. CrashInv /\ CrashInv' /\ EntriesInv /\ NumbersInv /\ [Next]_vars => NumbersInv'
  BY NumbersNext
<1> QED
  BY <1>1, <1>2, CrashInvariant, EntriesInvariant, PTL DEF Spec

-----------------------------------------------------------------------------
(* What a compaction takes in. *)

\* g goes through N steps s from b.
Goes(g, N, X, b, s) == g \in [0..N -> X] /\ \A i \in 0..N : g[i] = IF i = 0 THEN b ELSE s[g[i - 1]]

\* There is one for every number of steps.
LEMMA Unrolls ==
    ASSUME NEW N \in Nat, NEW X, NEW b \in X, NEW s \in [X -> X]
    PROVE  \E g : Goes(g, N, X, b, s)
<1> DEFINE Is(n, g) == g \in [0..n -> X] /\ \A i \in 0..n : g[i] = IF i = 0 THEN b ELSE s[g[i - 1]]
           T == {n \in Nat : \E g : Is(n, g)}
<1>1. 0 \in T
  <2>1. Is(0, [i \in 0..0 |-> b])
    OBVIOUS
  <2> QED
    BY <2>1
<1>2. \A n \in 1..N : n - 1 \in T => n \in T
  <2> SUFFICES ASSUME NEW n \in 1..N, n - 1 \in T PROVE \E g : Is(n, g)
    OBVIOUS
  <2>1. PICK g : Is(n - 1, g)
    OBVIOUS
  <2> DEFINE h == [i \in 0..n |-> IF i = n THEN s[g[n - 1]] ELSE g[i]]
  <2>2. n - 1 \in 0..n - 1 /\ \A i \in 0..n : i # n => i \in 0..n - 1
    OBVIOUS
  <2>3. g[n - 1] \in X /\ s[g[n - 1]] \in X
    BY <2>1, <2>2
  <2>4. h \in [0..n -> X]
    BY <2>1, <2>2, <2>3
  <2>5. \A i \in 0..n : h[i] = IF i = 0 THEN b ELSE s[h[i - 1]]
    <3> TAKE i \in 0..n
    <3>1. CASE i = n
      <4>1. i # 0 /\ i - 1 \in 0..n /\ i - 1 # n
        BY <3>1
      <4> QED
        BY <4>1, <3>1
    <3>2. CASE i # n
      <4>1. i \in 0..n - 1 /\ h[i] = g[i] /\ (i # 0 => i - 1 \in 0..n /\ i - 1 # n)
        BY <3>2
      <4> QED
        BY <4>1, <2>1
    <3> QED
      BY <3>1, <3>2
  <2> HIDE DEF h
  <2> QED
    BY <2>4, <2>5
<1>3. N \in T
  <2> HIDE DEF T
  <2>1. \A n \in 0..N : n \in T
    BY <1>1, <1>2, StepByStep
  <2> QED
    BY <2>1
<1>4. PICK g : Is(N, g)
  BY <1>3
<1> QED
  BY <1>4 DEF Goes

\* Files with a range: it does not end before it begins.
Ranged(F) ==
    \A f \in F : f.smallest \in InternalKey /\ f.largest \in InternalKey /\ NotAfter(f.smallest, f.largest)

\* What their keys are.
LEMMA KeysOfFiles ==
    ASSUME NEW F, Ranged(F)
    PROVE  \A f \in F : /\ f.smallest.key \in Keys /\ f.largest.key \in Keys
                        /\ f.smallest.key \in Nat /\ f.largest.key \in Nat
                        /\ f.smallest.seq \in Nat /\ f.largest.seq \in Nat
                        /\ f.smallest.key <= f.largest.key
                        /\ Covers(f, f.smallest.key) /\ Covers(f, f.largest.key)
<1> TAKE f \in F
<1>1. f.smallest \in InternalKey /\ f.largest \in InternalKey /\ NotAfter(f.smallest, f.largest)
  BY DEF Ranged
<1>2. /\ f.smallest.key \in Keys /\ f.largest.key \in Keys
      /\ f.smallest.key \in Nat /\ f.largest.key \in Nat
      /\ f.smallest.seq \in Nat /\ f.largest.seq \in Nat
  BY <1>1, KeysAssumption DEF InternalKey
<1>3. f.smallest.key <= f.largest.key
  BY <1>1, <1>2 DEF NotAfter, Before
<1> QED
  BY <1>2, <1>3 DEF Covers

\* Files that have a key in common with some that are connected connect with them.
LEMMA JoinConnected ==
    ASSUME NEW F, NEW H, Ranged(F), Ranged(H), Connected(F),
           \A h \in H : \E f \in F : \E k \in Keys : Covers(h, k) /\ Covers(f, k)
    PROVE  Connected(F \cup H)
<1> SUFFICES ASSUME NEW f \in F \cup H, NEW g \in F \cup H, NEW k \in Keys,
                    f.smallest.key <= k, k <= g.largest.key
             PROVE  \E h \in F \cup H : Covers(h, k)
  BY DEF Connected
<1>1. Ranged(F \cup H)
  BY DEF Ranged
<1>2. k \in Nat
  BY KeysAssumption
<1>3. PICK f2 \in F, a \in Keys : Covers(f, a) /\ Covers(f2, a)
  <2>1. CASE f \in F
    BY <2>1, KeysOfFiles, <1>1
  <2>2. CASE f \in H
    BY <2>2
  <2> QED
    BY <2>1, <2>2
<1>4. PICK g2 \in F, b \in Keys : Covers(g, b) /\ Covers(g2, b)
  <2>1. CASE g \in F
    BY <2>1, KeysOfFiles, <1>1
  <2>2. CASE g \in H
    BY <2>2
  <2> QED
    BY <2>1, <2>2
<1>5. a \in Nat /\ b \in Nat
  BY KeysAssumption
<1>6. CASE k <= a
  <2>1. Covers(f, k)
    BY <1>6, <1>3, <1>2, <1>5, <1>1, KeysOfFiles DEF Covers
  <2> QED
    BY <2>1
<1>7. CASE b <= k
  <2>1. Covers(g, k)
    BY <1>7, <1>4, <1>2, <1>5, <1>1, KeysOfFiles DEF Covers
  <2> QED
    BY <2>1
<1>8. CASE ~(k <= a) /\ ~(b <= k)
  <2>1. f2.smallest.key <= a /\ b <= g2.largest.key
    BY <1>3, <1>4 DEF Covers
  <2>2. f2.smallest.key \in Nat /\ g2.largest.key \in Nat
    BY KeysOfFiles
  <2>3. f2.smallest.key <= k /\ k <= g2.largest.key
    BY <2>1, <2>2, <1>8, <1>2, <1>5
  <2> QED
    BY <2>3 DEF Connected
<1> QED
  BY <1>6, <1>7, <1>8

\* A file that overlaps the range from where one of the connected files begins to
\* where one ends has a key in common with one of them.
LEMMA OverlapTouches ==
    ASSUME NEW F, Ranged(F), Connected(F), NEW a \in F, NEW b \in F, NEW h, Ranged({h}),
           Overlaps(h, a.smallest.key, b.largest.key),
           a.smallest.key <= b.largest.key
    PROVE  \E f \in F : \E k \in Keys : Covers(h, k) /\ Covers(f, k)
<1> DEFINE k == IF a.smallest.key <= h.smallest.key THEN h.smallest.key ELSE a.smallest.key
<1>1. /\ a.smallest.key \in Keys /\ a.smallest.key \in Nat /\ b.largest.key \in Nat
      /\ a.smallest.key <= a.largest.key
  BY KeysOfFiles
<1>2. h.smallest.key \in Keys /\ h.smallest.key \in Nat /\ h.largest.key \in Nat
      /\ h.smallest.key <= h.largest.key
  BY KeysOfFiles
<1>3. a.smallest.key <= h.largest.key /\ h.smallest.key <= b.largest.key
  BY DEF Overlaps
<1>4. k \in Keys /\ h.smallest.key <= k /\ k <= h.largest.key
  BY <1>1, <1>2, <1>3
<1>5. a.smallest.key <= k /\ k <= b.largest.key
  BY <1>1, <1>2, <1>3
<1> HIDE DEF k
<1>6. PICK f \in F : Covers(f, k)
  BY <1>4, <1>5 DEF Connected
<1>7. Covers(h, k)
  BY <1>4 DEF Covers
<1> QED
  BY <1>4, <1>6, <1>7

\* Where files begin and end: at the smallest and the largest of their keys.
LEMMA EndsOfFiles ==
    ASSUME NEW F, Ranged(F), IsFiniteSet(F), F # {}
    PROVE  /\ \E f \in F : SmallestKey(F) = f.smallest
           /\ \E f \in F : LargestKey(F) = f.largest
           /\ SmallestKey(F).key \in Nat /\ LargestKey(F).key \in Nat
           /\ \A f \in F : /\ SmallestKey(F).key <= f.smallest.key
                           /\ f.largest.key <= LargestKey(F).key
           /\ SmallestKey(F).key <= LargestKey(F).key
<1> DEFINE S == {f.smallest : f \in F}
           L == {f.largest : f \in F}
           s == [f \in F |-> f.smallest]
           l == [f \in F |-> f.largest]
<1>1. S = {s[f] : f \in DOMAIN s} /\ L = {l[f] : f \in DOMAIN l}
  OBVIOUS
<1>2. IsFiniteSet(S) /\ IsFiniteSet(L)
  <2>1. DOMAIN s = F /\ DOMAIN l = F
    OBVIOUS
  <2> HIDE DEF s, l, S, L
  <2> QED
    BY <1>1, <2>1, FiniteImage
<1>3. S \subseteq InternalKey /\ L \subseteq InternalKey
  BY DEF Ranged
<1>4. S # {} /\ L # {}
  OBVIOUS
<1>a. \A x \in S : \E f \in F : x = f.smallest
  OBVIOUS
<1>b. \A x \in L : \E f \in F : x = f.largest
  OBVIOUS
<1>c. \A f \in F : f.smallest \in S /\ f.largest \in L
  OBVIOUS
<1>d. SmallestKey(F) = Smallest(S) /\ LargestKey(F) = Largest(L)
  BY DEF SmallestKey, LargestKey
<1> HIDE DEF S, L
<1>5. \A x \in InternalKey : x.key \in Nat /\ x.seq \in Nat
  BY KeysAssumption DEF InternalKey
<1>6. \A x, y \in InternalKey : x # y => Before(x, y) \/ Before(y, x)
  <2> TAKE x, y \in InternalKey
  <2> HAVE x # y
  <2>1. x.key # y.key \/ x.seq # y.seq
    BY DEF InternalKey
  <2> QED
    BY <2>1, <1>5 DEF Before
<1>7. Lined(S) /\ Lined(L)
  BY <1>2, <1>3, <1>5, <1>6 DEF Lined
<1>8. Smallest(S) \in S /\ \A x \in S : x = Smallest(S) \/ Before(Smallest(S), x)
  BY <1>4, <1>7, EndsAre
<1>9. Largest(L) \in L /\ \A x \in L : x = Largest(L) \/ Before(x, Largest(L))
  BY <1>4, <1>7, EndsAre
<1>10. PICK f \in F : SmallestKey(F) = f.smallest
  BY <1>8, <1>d, <1>a
<1>11. PICK g \in F : LargestKey(F) = g.largest
  BY <1>9, <1>d, <1>b
<1>12. SmallestKey(F).key \in Nat /\ LargestKey(F).key \in Nat
  BY <1>10, <1>11, KeysOfFiles
<1>13. \A h \in F : SmallestKey(F).key <= h.smallest.key /\ h.largest.key <= LargestKey(F).key
  <2> TAKE h \in F
  <2>1. h.smallest.key \in Nat /\ h.largest.key \in Nat
    BY KeysOfFiles
  <2>2. h.smallest = SmallestKey(F) \/ Before(SmallestKey(F), h.smallest)
    BY <1>8, <1>c, <1>d
  <2>3. h.largest = LargestKey(F) \/ Before(h.largest, LargestKey(F))
    BY <1>9, <1>c, <1>d
  <2> QED
    BY <2>1, <2>2, <2>3, <1>12 DEF Before
<1>14. SmallestKey(F).key <= LargestKey(F).key
  <2>1. f.smallest.key \in Nat /\ f.largest.key \in Nat /\ f.smallest.key <= f.largest.key
    BY KeysOfFiles
  <2> QED
    BY <2>1, <1>12, <1>13
<1> QED
  BY <1>10, <1>11, <1>12, <1>13, <1>14

\* AddBoundaryInputs adds files of the level that connect with those it starts from.
LEMMA BoundaryConnects ==
    ASSUME NEW F, IsFiniteSet(F), Ranged(F), NEW I \in SUBSET F, I # {},
           NEW X, Ranged(X), Connected(I \cup X)
    PROVE  LET J == AddBoundaryInputs(F, I)
           IN  J \subseteq F /\ I \subseteq J /\ Connected(J \cup X)
<1> DEFINE Boundary(J) == {f \in F : /\ Before(LargestKey(J), f.smallest)
                                     /\ f.smallest.key = LargestKey(J).key}
           N == Cardinality(F)
           Step(J) == J \cup FirstFile(Boundary(J))
           s == [J \in SUBSET F |-> Step(J)]
           Is(g) == g = [i \in 0..N |-> IF i = 0 THEN I ELSE Step(g[i - 1])]
           Grown == CHOOSE g : Is(g)
           OK(J) == J \in SUBSET F /\ I \subseteq J /\ Connected(J \cup X)
<1>1. N \in Nat
  BY FS_CardinalityType
<1>2. AddBoundaryInputs(F, I) = Grown[N]
  BY DEF AddBoundaryInputs
<1>3. \A J : FirstFile(Boundary(J)) \subseteq Boundary(J)
  BY DEF FirstFile
<1>4. \A J \in SUBSET F : Step(J) \in SUBSET F
  BY <1>3
<1>5. s \in [SUBSET F -> SUBSET F] /\ \A J \in SUBSET F : s[J] = Step(J)
  BY <1>4
<1>6. ASSUME NEW J, OK(J) PROVE OK(Step(J))
  <2> DEFINE H == FirstFile(Boundary(J))
  <2>1. H \subseteq Boundary(J)
    BY <1>3
  <2>2. J # {} /\ IsFiniteSet(J) /\ Ranged(J)
    BY <1>6, FS_Subset DEF Ranged
  <2>3. PICK i \in J : LargestKey(J) = i.largest
    BY <2>2, EndsOfFiles
  <2>4. \A h \in H : h \in F /\ h.smallest.key = i.largest.key
    BY <2>1, <2>3
  <2> HIDE DEF H, Boundary
  <2>5. Covers(i, i.largest.key) /\ i.largest.key \in Keys
    BY <2>2, KeysOfFiles
  <2>6. \A h \in H : \E f \in J \cup X : \E k \in Keys : Covers(h, k) /\ Covers(f, k)
    <3> TAKE h \in H
    <3>1. Covers(h, h.smallest.key)
      BY <2>4, KeysOfFiles
    <3> QED
      BY <3>1, <2>4, <2>5
  <2>7. Ranged(J \cup X) /\ Ranged(H)
    BY <1>6, <2>4 DEF Ranged
  <2>8. Connected((J \cup X) \cup H)
    BY <1>6, <2>6, <2>7, JoinConnected
  <2>9. (J \cup X) \cup H = (J \cup H) \cup X
    OBVIOUS
  <2>10. J \cup H \in SUBSET F /\ I \subseteq J \cup H
    BY <1>6, <2>4
  <2> QED
    BY <2>8, <2>9, <2>10 DEF H
<1>7. OK(I)
  OBVIOUS
<1> HIDE DEF N, Step, s
<1>8. PICK g : Goes(g, N, SUBSET F, I, s)
  <2>1. I \in SUBSET F
    OBVIOUS
  <2> QED
    BY <2>1, <1>1, <1>5, Unrolls
<1>a. g \in [0..N -> SUBSET F] /\ \A i \in 0..N : g[i] = IF i = 0 THEN I ELSE s[g[i - 1]]
  BY <1>8 DEF Goes
<1>9. g[0] = I /\ \A i \in 1..N : i - 1 \in 0..N /\ i \in 0..N /\ i # 0
  BY <1>1, <1>a
<1>10. \A i \in 0..N : g[i] = IF i = 0 THEN I ELSE Step(g[i - 1])
  <2> TAKE i \in 0..N
  <2>1. CASE i = 0
    BY <2>1, <1>9
  <2>2. CASE i # 0
    <3>1. i - 1 \in 0..N
      BY <2>2, <1>1
    <3>2. g[i] = s[g[i - 1]] /\ g[i - 1] \in SUBSET F
      BY <3>1, <2>2, <1>a
    <3> QED
      BY <3>2, <2>2, <1>5
  <2> QED
    BY <2>1, <2>2
<1>11. Is(g)
  BY <1>a, <1>10
<1>12. Is(Grown)
  BY <1>11
<1> HIDE DEF Grown, OK
<1>13. Grown[0] = I /\ \A i \in 1..N : Grown[i] = Step(Grown[i - 1])
  <2>1. 0 \in 0..N
    BY <1>1
  <2> QED
    BY <1>12, <1>9, <2>1
<1> DEFINE T == {n \in 0..N : OK(Grown[n])}
<1>14. 0 \in T
  BY <1>1, <1>7, <1>13
<1>15. \A n \in 1..N : n - 1 \in T => n \in T
  BY <1>6, <1>9, <1>13
<1> HIDE DEF T
<1>16. \A n \in 0..N : n \in T
  BY <1>1, <1>14, <1>15, StepByStep
<1>17. OK(Grown[N])
  BY <1>16, <1>1 DEF T
<1> QED
  BY <1>17, <1>2 DEF OK

\* The least and the greatest of finitely many numbers.
LEMMA EndsOfNumbers ==
    ASSUME NEW S \in SUBSET Nat, IsFiniteSet(S), S # {}
    PROVE  /\ Min(S) \in S /\ \A n \in S : Min(S) <= n
           /\ Max(S) \in S /\ \A n \in S : n <= Max(S)
<1>1. Min(S) \in S /\ \A n \in S : Min(S) <= n
  <2>1. \E n \in S : \A m \in S : n <= m
    BY LeastNat
  <2> QED
    BY <2>1 DEF Min
<1> DEFINE P(n) == [key |-> n, seq |-> 0]
           p == [n \in S |-> P(n)]
           L == {p[n] : n \in DOMAIN p}
<1>2. DOMAIN p = S /\ \A n \in S : p[n].key = n /\ p[n].seq = 0
  OBVIOUS
<1> HIDE DEF p
<1>3. IsFiniteSet(L)
  BY <1>2, FiniteImage
<1>4. \A x \in L : \E n \in S : x = p[n] /\ x.key = n /\ x.seq = 0
  <2> TAKE x \in L
  <2>1. PICK n \in DOMAIN p : x = p[n]
    OBVIOUS
  <2>2. n \in S /\ p[n].key = n /\ p[n].seq = 0
    BY <1>2
  <2> QED
    BY <2>1, <2>2
<1>5. \A n \in S : p[n] \in L
  BY <1>2
<1> HIDE DEF L
<1>6. Lined(L)
  <2>1. \A e \in L : e.key \in Nat /\ e.seq \in Nat
    BY <1>4
  <2>2. \A e, f \in L : e # f => Before(e, f) \/ Before(f, e)
    <3> TAKE e, f \in L
    <3> HAVE e # f
    <3>1. e.key # f.key
      BY <1>4
    <3> QED
      BY <3>1, <2>1 DEF Before
  <2> QED
    BY <1>3, <2>1, <2>2 DEF Lined
<1>7. L # {}
  BY <1>5
<1>8. Largest(L) \in L /\ \A x \in L : x = Largest(L) \/ Before(x, Largest(L))
  BY <1>6, <1>7, EndsAre
<1>9. PICK b \in S : Largest(L) = p[b] /\ p[b].key = b
  BY <1>8, <1>4
<1>10. \A n \in S : n <= b
  <2> TAKE n \in S
  <2>1. p[n] = p[b] \/ Before(p[n], p[b])
    BY <1>5, <1>8, <1>9
  <2> QED
    BY <2>1, <1>2 DEF Before
<1>11. Max(S) \in S /\ \A n \in S : Max(S) >= n
  BY <1>10, MaxIsGreatest
<1>12. \A n \in S : n <= Max(S)
  BY <1>11
<1> QED
  BY <1>1, <1>11, <1>12

\* A range that is widened, as GetOverlappingInputs widens it, to the files that
\* overlap it, if these and the files F are connected and it ends where they do.
Spanned(F, H, r) ==
    /\ Connected(F \cup H) /\ r[1] \in Nat /\ r[2] \in Nat /\ r[1] <= r[2]
    /\ \E f \in F \cup H : f.smallest.key = r[1]
    /\ \E f \in F \cup H : f.largest.key = r[2]

\* The range r widened once, with the files of V that overlap it before and after.
Widens(V, r, H, r2, H2) ==
    /\ H = {f \in V : Overlaps(f, r[1], r[2])} /\ H2 = {f \in V : Overlaps(f, r2[1], r2[2])}
    /\ r2 = <<Min({r[1]} \cup {f.smallest.key : f \in H}),
              Max({r[2]} \cup {f.largest.key : f \in H})>>

\* The files found stay connected, and are found again.
LEMMA WidenStep ==
    ASSUME NEW V, IsFiniteSet(V), Ranged(V), NEW F, Ranged(F), NEW r, NEW r2, NEW H, NEW H2,
           Widens(V, r, H, r2, H2), Spanned(F, H, r)
    PROVE  Spanned(F, H2, r2) /\ H \subseteq H2
<1> DEFINE s == [f \in H |-> f.smallest.key]
           l == [f \in H |-> f.largest.key]
           S == {r[1]} \cup {f.smallest.key : f \in H}
           L == {r[2]} \cup {f.largest.key : f \in H}
<1>0. /\ H = {f \in V : Overlaps(f, r[1], r[2])} /\ H2 = {f \in V : Overlaps(f, r2[1], r2[2])}
      /\ r2 = <<Min(S), Max(L)>>
  BY DEF Widens
<1>a. /\ \A f : f \in H <=> f \in V /\ Overlaps(f, r[1], r[2])
      /\ \A f : f \in H2 <=> f \in V /\ Overlaps(f, r2[1], r2[2])
  BY <1>0
<1>1. IsFiniteSet(H) /\ H \subseteq V /\ Ranged(H)
  BY <1>a, FS_Subset DEF Ranged
<1>2. IsFiniteSet(S) /\ IsFiniteSet(L)
  <2>1. {f.smallest.key : f \in H} = {s[f] : f \in DOMAIN s} /\ {f.largest.key : f \in H} = {l[f] : f \in DOMAIN l}
    OBVIOUS
  <2>2. DOMAIN s = H /\ DOMAIN l = H
    OBVIOUS
  <2> HIDE DEF s, l
  <2>3. IsFiniteSet({s[f] : f \in DOMAIN s}) /\ IsFiniteSet({l[f] : f \in DOMAIN l})
    BY <1>1, <2>2, FiniteImage
  <2>4. IsFiniteSet({r[1]}) /\ IsFiniteSet({r[2]})
    BY FiniteSteps
  <2>5. IsFiniteSet({f.smallest.key : f \in H}) /\ IsFiniteSet({f.largest.key : f \in H})
    BY <2>1, <2>3
  <2> QED
    BY <2>4, <2>5, FS_Union
<1>3. r[1] \in Nat /\ r[2] \in Nat /\ r[1] <= r[2]
  BY DEF Spanned
<1>4. S \in SUBSET Nat /\ L \in SUBSET Nat /\ S # {} /\ L # {}
  BY <1>1, <1>3, KeysOfFiles
<1>5. r2[1] = Min(S) /\ r2[2] = Max(L)
  BY <1>0
<1>6. \A x \in S : x = r[1] \/ \E f \in H : x = f.smallest.key
  OBVIOUS
<1>7. \A x \in L : x = r[2] \/ \E f \in H : x = f.largest.key
  OBVIOUS
<1>8. r[1] \in S /\ r[2] \in L
  OBVIOUS
<1> HIDE DEF S, L
<1>9. r2[1] \in S /\ r2[1] <= r[1] /\ r2[2] \in L /\ r[2] <= r2[2]
  <2>1. Min(S) \in S /\ \A n \in S : Min(S) <= n
    BY <1>2, <1>4, EndsOfNumbers
  <2>2. Max(L) \in L /\ \A n \in L : n <= Max(L)
    BY <1>2, <1>4, EndsOfNumbers
  <2> QED
    BY <2>1, <2>2, <1>5, <1>8
<1>10. r2[1] \in Nat /\ r2[2] \in Nat /\ r2[1] <= r2[2]
  <2>1. r2[1] \in Nat /\ r2[2] \in Nat
    BY <1>9, <1>4
  <2>2. \A x, y, x2, y2 \in Nat : x2 <= x /\ x <= y /\ y <= y2 => x2 <= y2
    OBVIOUS
  <2> QED
    BY <2>1, <2>2, <1>3, <1>9
<1>11. H \subseteq H2
  <2> SUFFICES ASSUME NEW f \in H PROVE Overlaps(f, r2[1], r2[2])
    BY <1>1, <1>a
  <2>1. Overlaps(f, r[1], r[2]) /\ f.smallest.key \in Nat /\ f.largest.key \in Nat
    BY <1>1, <1>a, KeysOfFiles
  <2> QED
    BY <2>1, <1>3, <1>9, <1>10 DEF Overlaps
<1>12. PICK a \in F \cup H : a.smallest.key = r2[1]
  <2>1. CASE r2[1] = r[1]
    BY <2>1 DEF Spanned
  <2>2. CASE r2[1] # r[1]
    BY <2>2, <1>6, <1>9
  <2> QED
    BY <2>1, <2>2
<1>13. PICK b \in F \cup H : b.largest.key = r2[2]
  <2>1. CASE r2[2] = r[2]
    BY <2>1 DEF Spanned
  <2>2. CASE r2[2] # r[2]
    BY <2>2, <1>7, <1>9
  <2> QED
    BY <2>1, <2>2
<1>14. Connected(F \cup H) /\ Ranged(F \cup H)
  BY <1>1 DEF Spanned, Ranged
<1>15. \A h \in H2 : \E f \in F \cup H : \E k \in Keys : Covers(h, k) /\ Covers(f, k)
  <2> TAKE h \in H2
  <2>1. Ranged({h}) /\ Overlaps(h, a.smallest.key, b.largest.key)
    BY <1>a, <1>12, <1>13 DEF Ranged
  <2> QED
    BY <2>1, <1>10, <1>12, <1>13, <1>14, OverlapTouches
<1>16. Ranged(H2)
  BY <1>a DEF Ranged
<1>17. Connected((F \cup H) \cup H2)
  BY <1>14, <1>15, <1>16, JoinConnected
<1>18. (F \cup H) \cup H2 = F \cup H2
  BY <1>11
<1>19. Connected(F \cup H2) /\ a \in F \cup H2 /\ b \in F \cup H2
  BY <1>17, <1>18, <1>11
<1> QED
  BY <1>10, <1>11, <1>12, <1>13, <1>19 DEF Spanned

\* GetOverlappingInputs finds all files that overlap the range, and files that
\* connect with those between whose ends the range is.
LEMMA OverlappingConnects ==
    ASSUME NEW v, NEW l, IsFiniteSet(v[l]), Ranged(v[l]),
           NEW F, Ranged(F), Connected(F), NEW a \in F, NEW b \in F,
           a.smallest.key <= b.largest.key
    PROVE  LET J == OverlappingInputs(v, l, a.smallest.key, b.largest.key)
           IN  /\ \A f \in v[l] : Overlaps(f, a.smallest.key, b.largest.key) => f \in J
               /\ l # 0 => J = {f \in v[l] : Overlaps(f, a.smallest.key, b.largest.key)}
               /\ Connected(F \cup J)
<1> DEFINE lo == a.smallest.key
           hi == b.largest.key
           At(r) == {f \in v[l] : Overlaps(f, r[1], r[2])}
           Widen(r) == <<Min({r[1]} \cup {f.smallest.key : f \in At(r)}),
                         Max({r[2]} \cup {f.largest.key : f \in At(r)})>>
           N == Cardinality(v[0])
           Is(g) == g = [n \in 0..N |-> IF n = 0 THEN <<lo, hi>> ELSE Widen(g[n - 1])]
           Widened == CHOOSE g : Is(g)
           J == OverlappingInputs(v, l, lo, hi)
           X == Nat \X Nat
           s == [r \in X |-> Widen(r)]
           first == {f \in v[l] : Overlaps(f, lo, hi)}
<1>1. J = At(IF l = 0 THEN Widened[N] ELSE <<lo, hi>>)
  BY DEF OverlappingInputs
<1>2. At(<<lo, hi>>) = first
  OBVIOUS
<1>3. lo \in Nat /\ hi \in Nat /\ lo <= hi
  BY KeysOfFiles
<1>4. Connected(F \cup first)
  <2>1. \A h \in first : Ranged({h}) /\ Overlaps(h, a.smallest.key, b.largest.key)
    BY DEF Ranged
  <2>2. Ranged(first)
    BY DEF Ranged
  <2> HIDE DEF first
  <2>3. \A h \in first : \E f \in F : \E k \in Keys : Covers(h, k) /\ Covers(f, k)
    BY <2>1, OverlapTouches
  <2> QED
    BY <2>2, <2>3, JoinConnected
<1>5. Spanned(F, At(<<lo, hi>>), <<lo, hi>>)
  <2>1. <<lo, hi>>[1] = lo /\ <<lo, hi>>[2] = hi
    OBVIOUS
  <2>2. \E f \in F \cup first : f.smallest.key = lo
    OBVIOUS
  <2>3. \E f \in F \cup first : f.largest.key = hi
    OBVIOUS
  <2> HIDE DEF lo, hi, At, first
  <2> QED
    BY <2>1, <2>2, <2>3, <1>2, <1>3, <1>4 DEF Spanned
<1>6. \A r : Spanned(F, At(r), r) => Spanned(F, At(Widen(r)), Widen(r)) /\ At(r) \subseteq At(Widen(r))
  <2> SUFFICES ASSUME NEW r, Spanned(F, At(r), r)
               PROVE  Spanned(F, At(Widen(r)), Widen(r)) /\ At(r) \subseteq At(Widen(r))
    OBVIOUS
  <2> DEFINE V == v[l]
             H == At(r)
             r2 == Widen(r)
             H2 == At(Widen(r))
  <2>1. Widens(V, r, H, r2, H2) /\ Spanned(F, H, r)
    BY DEF Widens
  <2>2. IsFiniteSet(V) /\ Ranged(V)
    OBVIOUS
  <2> HIDE DEF V, H, r2, H2
  <2>3. Spanned(F, H2, r2) /\ H \subseteq H2
    BY <2>1, <2>2, WidenStep
  <2> QED
    BY <2>3 DEF H, r2, H2
<1>7. \A r \in X : Widen(r) \in X
  <2> TAKE r \in X
  <2> DEFINE H == At(r)
             sm == [f \in H |-> f.smallest.key]
             la == [f \in H |-> f.largest.key]
             S == {r[1]} \cup {f.smallest.key : f \in H}
             L == {r[2]} \cup {f.largest.key : f \in H}
  <2>1. IsFiniteSet(H) /\ Ranged(H)
    BY FS_Subset DEF Ranged
  <2> HIDE DEF H
  <2>2. IsFiniteSet(S) /\ IsFiniteSet(L)
    <3>1. {f.smallest.key : f \in H} = {sm[f] : f \in DOMAIN sm}
          /\ {f.largest.key : f \in H} = {la[f] : f \in DOMAIN la}
      OBVIOUS
    <3>2. DOMAIN sm = H /\ DOMAIN la = H
      OBVIOUS
    <3> HIDE DEF sm, la
    <3>3. IsFiniteSet({sm[f] : f \in DOMAIN sm}) /\ IsFiniteSet({la[f] : f \in DOMAIN la})
      BY <2>1, <3>2, FiniteImage
    <3>4. IsFiniteSet({r[1]}) /\ IsFiniteSet({r[2]})
      BY FiniteSteps
    <3>5. IsFiniteSet({f.smallest.key : f \in H}) /\ IsFiniteSet({f.largest.key : f \in H})
      BY <3>1, <3>3
    <3> QED
      BY <3>4, <3>5, FS_Union
  <2>3. S \in SUBSET Nat /\ L \in SUBSET Nat /\ S # {} /\ L # {}
    BY <2>1, KeysOfFiles
  <2>4. Widen(r) = <<Min(S), Max(L)>>
    BY DEF H
  <2> HIDE DEF S, L
  <2>5. Min(S) \in Nat /\ Max(L) \in Nat
    BY <2>2, <2>3, EndsOfNumbers
  <2> QED
    BY <2>4, <2>5
<1> HIDE DEF At, Widen, J, lo, hi
<1>8. CASE l # 0
  <2>1. J = first
    BY <1>8, <1>1, <1>2
  <2>2. \A f \in v[l] : Overlaps(f, lo, hi) => f \in J
    BY <2>1
  <2>3. Connected(F \cup J)
    BY <2>1, <1>4
  <2> QED
    BY <2>1, <2>2, <2>3 DEF J, lo, hi
<1>9. CASE l = 0
  <2>1. N \in Nat
    BY <1>9, FS_CardinalityType
  <2>2. s \in [X -> X] /\ <<lo, hi>> \in X /\ \A r \in X : s[r] = Widen(r)
    BY <1>3, <1>7
  <2> HIDE DEF s, X, N
  <2> DEFINE start == <<lo, hi>>
  <2>0. start \in X
    BY <2>2
  <2> HIDE DEF start
  <2>c. PICK g : Goes(g, N, X, start, s)
    BY <2>0, <2>1, <2>2, Unrolls
  <2>3. g \in [0..N -> X] /\ \A i \in 0..N : g[i] = IF i = 0 THEN start ELSE s[g[i - 1]]
    BY <2>c DEF Goes
  <2>4. \A i \in 1..N : i - 1 \in 0..N /\ i \in 0..N /\ i # 0
    BY <2>1
  <2>5. \A i \in 0..N : g[i] = IF i = 0 THEN <<lo, hi>> ELSE Widen(g[i - 1])
    <3> TAKE i \in 0..N
    <3>1. CASE i = 0
      BY <3>1, <2>3 DEF start
    <3>2. CASE i # 0
      <4>1. i - 1 \in 0..N
        BY <3>2, <2>1
      <4>2. g[i] = s[g[i - 1]] /\ g[i - 1] \in X
        BY <4>1, <3>2, <2>3
      <4> QED
        BY <4>2, <3>2, <2>2
    <3> QED
      BY <3>1, <3>2
  <2>6. Is(g)
    BY <2>3, <2>5
  <2>7. Is(Widened)
    BY <2>6
  <2> HIDE DEF Widened
  <2>8. Widened[0] = <<lo, hi>> /\ \A i \in 1..N : Widened[i] = Widen(Widened[i - 1])
    <3>1. 0 \in 0..N
      BY <2>1
    <3> QED
      BY <2>7, <2>4, <3>1
  <2> DEFINE T == {n \in 0..N : Spanned(F, At(Widened[n]), Widened[n]) /\ first \subseteq At(Widened[n])}
  <2>9. 0 \in T
    BY <2>1, <2>8, <1>2, <1>5
  <2>10. \A n \in 1..N : n - 1 \in T => n \in T
    <3> TAKE n \in 1..N
    <3> HAVE n - 1 \in T
    <3>1. Widened[n] = Widen(Widened[n - 1]) /\ n \in 0..N
      BY <2>4, <2>8
    <3>2. Spanned(F, At(Widened[n - 1]), Widened[n - 1]) /\ first \subseteq At(Widened[n - 1])
      OBVIOUS
    <3>3. Spanned(F, At(Widened[n]), Widened[n]) /\ At(Widened[n - 1]) \subseteq At(Widened[n])
      BY <3>1, <3>2, <1>6
    <3> QED
      BY <3>1, <3>2, <3>3
  <2> HIDE DEF T
  <2>11. \A n \in 0..N : n \in T
    BY <2>1, <2>9, <2>10, StepByStep
  <2>12. Spanned(F, At(Widened[N]), Widened[N]) /\ first \subseteq At(Widened[N])
    BY <2>11, <2>1 DEF T
  <2>13. J = At(Widened[N])
    BY <1>1, <1>9
  <2>14. Connected(F \cup J) /\ first \subseteq J
    BY <2>12, <2>13 DEF Spanned
  <2> QED
    BY <2>14, <1>9 DEF J, lo, hi
<1> QED
  BY <1>8, <1>9

\* The files of level m that the range of the files F overlaps.
Within(v, m, F) == OverlappingInputs(v, m, SmallestKey(F).key, LargestKey(F).key)

\* What GetOverlappingInputs finds for the range of connected files.
LEMMA WithinConnects ==
    ASSUME NEW v, NEW m, IsFiniteSet(v[m]), Ranged(v[m]),
           NEW F, IsFiniteSet(F), F # {}, Ranged(F), Connected(F)
    PROVE  /\ Within(v, m, F) \subseteq v[m] /\ \A f \in F : f \in v[m] => f \in Within(v, m, F)
           /\ Connected(F \cup Within(v, m, F))
<1> DEFINE lo == SmallestKey(F).key
           hi == LargestKey(F).key
<1>1. PICK a \in F : SmallestKey(F) = a.smallest
  BY EndsOfFiles
<1>2. PICK b \in F : LargestKey(F) = b.largest
  BY EndsOfFiles
<1>3. a.smallest.key <= b.largest.key
  BY <1>1, <1>2, EndsOfFiles
<1>4. Within(v, m, F) = OverlappingInputs(v, m, a.smallest.key, b.largest.key)
  BY <1>1, <1>2 DEF Within
<1>5. /\ \A f \in v[m] : Overlaps(f, a.smallest.key, b.largest.key) => f \in Within(v, m, F)
      /\ Connected(F \cup Within(v, m, F))
  BY <1>3, <1>4, OverlappingConnects
<1>6. \A f \in F : Overlaps(f, a.smallest.key, b.largest.key)
  <2> TAKE f \in F
  <2>1. f.smallest.key \in Nat /\ f.largest.key \in Nat /\ f.smallest.key <= f.largest.key
    BY KeysOfFiles
  <2>2. a.smallest.key \in Nat /\ b.largest.key \in Nat
    BY KeysOfFiles
  <2>3. a.smallest.key <= f.smallest.key /\ f.largest.key <= b.largest.key
    BY <1>1, <1>2, EndsOfFiles
  <2> QED
    BY <2>1, <2>2, <2>3 DEF Overlaps
<1>7. Within(v, m, F) \subseteq v[m]
  BY OverlapsInside DEF Within
<1> QED
  BY <1>5, <1>6, <1>7

\* Below level 0 the range is not widened.
LEMMA WithinBelow ==
    ASSUME NEW v, NEW m, m # 0, NEW F
    PROVE  Within(v, m, F) = {f \in v[m] : Overlaps(f, SmallestKey(F).key, LargestKey(F).key)}
BY DEF Within, OverlappingInputs

\* The files that SetupOtherInputs puts together are connected, and those of the next
\* level are all that overlap those of this one.
Selected(v, l, c) ==
    /\ c.inputs0 \subseteq v[l] /\ c.inputs0 # {}
    /\ c.inputs1 = Within(v, l + 1, c.inputs0)
    /\ Connected(c.inputs0 \cup c.inputs1)

\* So it does, when it starts from files that are connected.
LEMMA SetupConnects ==
    ASSUME NEW v, NEW l \in Levels, l + 1 \in Levels, FiniteLevels(v),
           \A m \in Levels : Ranged(v[m]),
           NEW picked \in SUBSET v[l], picked # {}, Connected(picked)
    PROVE  Selected(v, l, SetupOtherInputs(v, l, picked))
<1> DEFINE in0 == AddBoundaryInputs(v[l], picked)
           in1 == Within(v, l + 1, in0)
           W == Within(v, l, in0 \cup in1)
           grown0 == AddBoundaryInputs(v[l], W)
           W1 == Within(v, l + 1, grown0)
           grows == /\ in1 # {}
                    /\ Cardinality(grown0) > Cardinality(in0)
                    /\ TotalFileSize(in1 \cup grown0) < ExpandedLimit
                    /\ Cardinality(W1) = Cardinality(in1)
           c == SetupOtherInputs(v, l, picked)
<1>1. /\ c.inputs0 = IF grows THEN grown0 ELSE in0
      /\ c.inputs1 = in1
  BY DEF SetupOtherInputs, Within
<1> HIDE DEF c
<1>2. IsFiniteSet(v[l]) /\ IsFiniteSet(v[l + 1]) /\ Ranged(v[l]) /\ Ranged(v[l + 1]) /\ l + 1 # 0
  BY DEF FiniteLevels, Levels
<1>3. in0 \subseteq v[l] /\ picked \subseteq in0 /\ Connected(in0)
  <2>1. Ranged({}) /\ Connected(picked \cup {})
    <3>1. picked \cup {} = picked
      OBVIOUS
    <3> QED
      BY <3>1 DEF Ranged
  <2>2. in0 \subseteq v[l] /\ picked \subseteq in0 /\ Connected(in0 \cup {})
    BY <1>2, <2>1, BoundaryConnects
  <2>3. in0 \cup {} = in0
    OBVIOUS
  <2> QED
    BY <2>2, <2>3
<1> HIDE DEF in0
<1>4. IsFiniteSet(in0) /\ in0 # {} /\ Ranged(in0)
  BY <1>2, <1>3, FS_Subset DEF Ranged
<1>5. in1 \subseteq v[l + 1] /\ Connected(in0 \cup in1)
  BY <1>2, <1>3, <1>4, WithinConnects
<1>6. in1 = {f \in v[l + 1] : Overlaps(f, SmallestKey(in0).key, LargestKey(in0).key)}
  BY <1>2, WithinBelow
<1>7. IsFiniteSet(in1) /\ Ranged(in1)
  <2> HIDE DEF in1
  <2> QED
    BY <1>2, <1>5, FS_Subset DEF Ranged
<1>d. in1 = Within(v, l + 1, in0)
  OBVIOUS
<1> HIDE DEF in1
<1>8. CASE ~grows
  <2>1. c.inputs0 = in0 /\ c.inputs1 = in1
    BY <1>1, <1>8
  <2> HIDE DEF grows
  <2> QED
    BY <2>1, <1>d, <1>3, <1>4, <1>5 DEF Selected, c
<1>9. CASE grows
  <2>1. c.inputs0 = grown0 /\ c.inputs1 = in1 /\ Cardinality(W1) = Cardinality(in1)
    BY <1>1, <1>9
  <2> HIDE DEF grows
  <2>2. IsFiniteSet(in0 \cup in1) /\ in0 \cup in1 # {} /\ Ranged(in0 \cup in1)
    BY <1>4, <1>7, FS_Union DEF Ranged
  <2>3. /\ W \subseteq v[l] /\ \A f \in in0 \cup in1 : f \in v[l] => f \in W
        /\ Connected((in0 \cup in1) \cup W)
    BY <2>2, <1>2, <1>5, WithinConnects
  <2> HIDE DEF W
  <2>4. in0 \subseteq W
    BY <2>3, <1>3
  <2>5. (in0 \cup in1) \cup W = W \cup in1
    BY <2>4
  <2>6. Connected(W \cup in1) /\ W # {} /\ W \in SUBSET v[l]
    BY <2>3, <2>4, <2>5, <1>4
  <2>7. grown0 \subseteq v[l] /\ W \subseteq grown0 /\ Connected(grown0 \cup in1)
    BY <2>6, <1>2, <1>7, BoundaryConnects
  <2> HIDE DEF grown0
  <2>8. IsFiniteSet(grown0) /\ grown0 # {} /\ Ranged(grown0)
    BY <2>6, <2>7, <1>2, FS_Subset DEF Ranged
  <2>9. W1 = {f \in v[l + 1] : Overlaps(f, SmallestKey(grown0).key, LargestKey(grown0).key)}
    BY <1>2, WithinBelow
  <2>10. PICK a \in in0, b \in in0 : SmallestKey(in0) = a.smallest /\ LargestKey(in0) = b.largest
    BY <1>4, EndsOfFiles
  <2>11. /\ SmallestKey(grown0).key <= SmallestKey(in0).key /\ LargestKey(in0).key <= LargestKey(grown0).key
         /\ SmallestKey(grown0).key \in Nat /\ LargestKey(grown0).key \in Nat
         /\ SmallestKey(in0).key \in Nat /\ LargestKey(in0).key \in Nat
    <3>1. a \in grown0 /\ b \in grown0
      BY <2>4, <2>7, <2>10
    <3>2. /\ SmallestKey(grown0).key <= a.smallest.key /\ b.largest.key <= LargestKey(grown0).key
          /\ SmallestKey(grown0).key \in Nat /\ LargestKey(grown0).key \in Nat
      BY <2>8, <3>1, EndsOfFiles
    <3> QED
      BY <3>2, <2>10, <1>4, EndsOfFiles
  <2>12. in1 \subseteq W1
    <3> SUFFICES ASSUME NEW f \in in1 PROVE Overlaps(f, SmallestKey(grown0).key, LargestKey(grown0).key)
      BY <1>5, <2>9
    <3>1. Overlaps(f, SmallestKey(in0).key, LargestKey(in0).key)
      BY <1>6
    <3>2. f.smallest.key \in Nat /\ f.largest.key \in Nat
      BY <1>7, KeysOfFiles
    <3> QED
      BY <3>1, <3>2, <2>11 DEF Overlaps
  <2>13. IsFiniteSet(W1)
    <3>1. W1 \subseteq v[l + 1]
      BY <2>9
    <3> QED
      BY <3>1, <1>2, FS_Subset
  <2>14. W1 = in1
    BY <2>1, <2>12, <2>13, FS_Subset
  <2> QED
    BY <2>1, <2>7, <2>8, <2>14 DEF Selected, c
<1> QED
  BY <1>8, <1>9

\* PickCompaction starts from a file, or on level 0 from files connected with it.
LEMMA PickConnects ==
    ASSUME NEW v, NEW l \in Levels, l + 1 \in Levels, FiniteLevels(v),
           \A m \in Levels : Ranged(v[m]), NEW f \in v[l]
    PROVE  Selected(v, l, PickCompaction(v, l, f))
<1> DEFINE picked == IF l > 0 THEN {f} ELSE OverlappingInputs(v, 0, f.smallest.key, f.largest.key)
<1>1. PickCompaction(v, l, f) = SetupOtherInputs(v, l, picked)
  BY DEF PickCompaction
<1>2. Ranged({f})
  BY DEF Ranged
<1>3. f.smallest.key \in Nat /\ f.largest.key \in Nat /\ f.smallest.key <= f.largest.key
  BY <1>2, KeysOfFiles
<1>4. Connected({f})
  BY DEF Connected, Covers
<1>5. picked \in SUBSET v[l] /\ picked # {} /\ Connected(picked)
  <2>1. CASE l > 0
    BY <2>1, <1>4
  <2>2. CASE ~(l > 0)
    <3>0. l = 0
      BY <2>2 DEF Levels
    <3>1. IsFiniteSet(v[0]) /\ Ranged(v[0]) /\ f \in v[0]
      BY <3>0 DEF FiniteLevels
    <3>2. picked = OverlappingInputs(v, 0, f.smallest.key, f.largest.key)
      BY <2>2
    <3> HIDE DEF picked
    <3>3. /\ \A g \in v[0] : Overlaps(g, f.smallest.key, f.largest.key) => g \in picked
          /\ Connected({f} \cup picked)
      <4>1. f \in {f}
        OBVIOUS
      <4> QED
        BY <4>1, <3>1, <3>2, <1>2, <1>3, <1>4, OverlappingConnects
    <3>4. Overlaps(f, f.smallest.key, f.largest.key)
      BY <1>3 DEF Overlaps
    <3>5. f \in picked
      BY <3>1, <3>3, <3>4
    <3>6. {f} \cup picked = picked
      BY <3>5
    <3>7. picked \subseteq v[0]
      BY <3>2, OverlapsInside
    <3> QED
      BY <3>0, <3>3, <3>5, <3>6, <3>7
  <2> QED
    BY <2>1, <2>2
<1> HIDE DEF picked
<1> QED
  BY <1>1, <1>5, SetupConnects

-----------------------------------------------------------------------------
(* Ranges, and a version after an edit. *)

\* NotAfter is the order of the internal keys.
LEMMA OrderOfKeys ==
    ASSUME NEW a, NEW b, NEW c, a.key \in Nat, a.seq \in Nat, b.key \in Nat, b.seq \in Nat,
           c.key \in Nat, c.seq \in Nat
    PROVE  /\ NotAfter(a, b) /\ Before(b, c) => Before(a, c)
           /\ Before(a, b) /\ NotAfter(b, c) => Before(a, c)
           /\ Before(a, b) /\ Before(b, c) => Before(a, c)
           /\ NotAfter(a, b) => a.key <= b.key
           /\ Before(a, b) => a.key <= b.key
           /\ a.key < b.key => Before(a, b)
           /\ ~(Before(a, b) /\ NotAfter(b, a))
BY DEF NotAfter, Before

\* The range of entries: from one of them to one of them, with all of them inside.
LEMMA RangeOfEntries ==
    ASSUME NEW E \in TableContents, Lined(E), NEW r, r.smallest = KeyOf(Smallest(E)),
           r.largest = KeyOf(Largest(E))
    PROVE  /\ Ranged({r})
           /\ \E e \in E : r.smallest.key = e.key /\ r.smallest.seq = e.seq
           /\ \E e \in E : r.largest.key = e.key /\ r.largest.seq = e.seq
           /\ \A e \in E : NotAfter(r.smallest, e) /\ NotAfter(e, r.largest)
<1>1. E # {} /\ \A e \in E : e \in Entries
  BY DEF TableContents, MemContents
<1>2. /\ Smallest(E) \in E /\ \A f \in E : f = Smallest(E) \/ Before(Smallest(E), f)
      /\ Largest(E) \in E /\ \A f \in E : f = Largest(E) \/ Before(f, Largest(E))
  BY <1>1, EndsAre
<1>3. PICK s \in E : s = Smallest(E)
  BY <1>2
<1>4. PICK l \in E : l = Largest(E)
  BY <1>2
<1>5. /\ r.smallest = KeyOf(s) /\ r.largest = KeyOf(l)
      /\ \A e \in E : (e = s \/ Before(s, e)) /\ (e = l \/ Before(e, l))
  BY <1>2, <1>3, <1>4
<1>6. \A e \in E : /\ KeyOf(e) \in InternalKey /\ KeyOf(e).key = e.key /\ KeyOf(e).seq = e.seq
                   /\ e.key \in Nat /\ e.seq \in Nat
  BY <1>1, KeysAssumption DEF Entries, KeyOf, InternalKey
<1>7. \A e \in E : NotAfter(r.smallest, e) /\ NotAfter(e, r.largest)
  <2> TAKE e \in E
  <2>1. /\ r.smallest.key = s.key /\ r.smallest.seq = s.seq
        /\ r.largest.key = l.key /\ r.largest.seq = l.seq
    BY <1>5, <1>6
  <2>2. (e = s \/ Before(s, e)) /\ (e = l \/ Before(e, l))
    BY <1>5
  <2> QED
    BY <2>1, <2>2 DEF NotAfter, Before
<1>8. NotAfter(r.smallest, r.largest)
  <2>1. NotAfter(r.smallest, l)
    BY <1>7
  <2>2. r.largest.key = l.key /\ r.largest.seq = l.seq
    BY <1>5, <1>6
  <2> QED
    BY <2>1, <2>2 DEF NotAfter, Before
<1>9. Ranged({r})
  BY <1>5, <1>6, <1>8 DEF Ranged
<1> QED
  BY <1>5, <1>6, <1>7, <1>9

\* So it is for the description of a file that holds them.
LEMMA MetaIsOK ==
    ASSUME NEW E \in TableContents, Lined(E), NEW n, NEW tables, n \in DOMAIN tables => tables[n] = E
    PROVE  FileOK(Meta(n, E), tables)
<1> DEFINE f == Meta(n, E)
<1>1. f.num = n /\ f.smallest = KeyOf(Smallest(E)) /\ f.largest = KeyOf(Largest(E))
  BY DEF Meta
<1> HIDE DEF f
<1>2. Ranged({f}) /\ \A e \in E : NotAfter(f.smallest, e) /\ NotAfter(e, f.largest)
  BY <1>1, RangeOfEntries
<1>3. FileOK(f, tables)
  BY <1>1, <1>2 DEF FileOK, Ranged
<1> QED
  BY <1>3 DEF f

\* Files of a version have ranges.
LEMMA VersionIsRanged ==
    ASSUME NEW v, NEW tables, VersionOK(v, tables)
    PROVE  \A l \in Levels : Ranged(v[l])
BY DEF VersionOK, FileOK, Ranged

\* What does not overlap is apart.
LEMMA NoOverlapIsApart ==
    ASSUME NEW f, Ranged({f}), NEW r, Ranged({r}), ~Overlaps(f, r.smallest.key, r.largest.key)
    PROVE  Apart(f, r) /\ Apart(r, f)
<1>1. /\ f.smallest.key \in Nat /\ f.largest.key \in Nat
      /\ r.smallest.key \in Nat /\ r.largest.key \in Nat
  BY KeysOfFiles
<1>2. f.largest.key < r.smallest.key \/ r.largest.key < f.smallest.key
  BY <1>1 DEF Overlaps
<1> QED
  BY <1>2 DEF Apart, Before

\* What overlaps none of some connected files is apart from what is between them.
LEMMA ConnectedIsApart ==
    ASSUME NEW F, Ranged(F), Connected(F), NEW r, Ranged({r}), NEW x, Ranged({x}),
           \E f, g \in F : Covers(f, r.smallest.key) /\ Covers(g, r.largest.key),
           \A f \in F : ~Overlaps(f, x.smallest.key, x.largest.key)
    PROVE  Apart(r, x) /\ Apart(x, r)
<1>1. PICK f \in F, g \in F : Covers(f, r.smallest.key) /\ Covers(g, r.largest.key)
  OBVIOUS
<1>2. ~Overlaps(r, x.smallest.key, x.largest.key)
  <2> SUFFICES ASSUME Overlaps(r, x.smallest.key, x.largest.key) PROVE FALSE
    OBVIOUS
  <2> DEFINE k == IF x.smallest.key <= r.smallest.key THEN r.smallest.key ELSE x.smallest.key
  <2>1. /\ r.smallest.key \in Keys /\ r.smallest.key \in Nat /\ r.largest.key \in Nat
        /\ r.smallest.key <= r.largest.key
        /\ x.smallest.key \in Keys /\ x.smallest.key \in Nat /\ x.largest.key \in Nat
        /\ x.smallest.key <= x.largest.key
    BY KeysOfFiles
  <2>2. /\ f.smallest.key \in Nat /\ f.largest.key \in Nat
        /\ g.smallest.key \in Nat /\ g.largest.key \in Nat
    BY KeysOfFiles
  <2>3. /\ f.smallest.key <= r.smallest.key /\ r.largest.key <= g.largest.key
        /\ x.smallest.key <= r.largest.key /\ r.smallest.key <= x.largest.key
    BY <1>1 DEF Covers, Overlaps
  <2>4. /\ k \in Keys /\ k \in Nat /\ f.smallest.key <= k /\ k <= g.largest.key
        /\ x.smallest.key <= k /\ k <= x.largest.key
    BY <2>1, <2>2, <2>3
  <2> HIDE DEF k
  <2>5. PICK h \in F : Covers(h, k)
    BY <2>4 DEF Connected
  <2>6. h.smallest.key \in Nat /\ h.largest.key \in Nat
    BY KeysOfFiles
  <2>7. Overlaps(h, x.smallest.key, x.largest.key)
    BY <2>1, <2>4, <2>5, <2>6 DEF Covers, Overlaps
  <2> QED
    BY <2>7
<1> QED
  BY <1>2, NoOverlapIsApart

\* A new table goes below level 0 only if no file overlaps it down to its level.
LEMMA FlushIsClear ==
    ASSUME NEW v, NEW lo, NEW hi, NEW l, l = PickLevelForMemTableOutput(v, lo, hi), l # 0
    PROVE  l \in Levels /\ \A m \in 0..l : m \in Levels /\ \A f \in v[m] : ~Overlaps(f, lo, hi)
<1> DEFINE MayPass(m) ==
             /\ ~OverlapInLevel(v, m + 1, lo, hi)
             /\ m + 2 < NumLevels =>
                    TotalFileSize(OverlappingInputs(v, m + 2, lo, hi)) <= MaxGrandParentOverlap
           T == {m \in 0..MaxMemCompactLevel : \A k \in 0..m - 1 : MayPass(k)}
<1>1. PickLevelForMemTableOutput(v, lo, hi) = IF OverlapInLevel(v, 0, lo, hi) THEN 0 ELSE Max(T)
  BY DEF PickLevelForMemTableOutput
<1>2. \A m : MayPass(m) => \A f \in v[m + 1] : ~Overlaps(f, lo, hi)
  BY DEF OverlapInLevel
<1> HIDE DEF MayPass
<1>3. MaxMemCompactLevel \in Nat /\ 0..MaxMemCompactLevel \subseteq Levels
  BY VersionSetAssumption DEF Levels
<1>4. 0 \in T /\ T \in SUBSET Nat /\ \A n \in T : n <= MaxMemCompactLevel
  BY <1>3
<1>5. \A m \in T : m \in 0..MaxMemCompactLevel /\ \A k \in 0..m - 1 : MayPass(k)
  OBVIOUS
<1> HIDE DEF T
<1>6. Max(T) \in T
  BY <1>3, <1>4, MaxIsGreatest
<1>7. l \in T /\ ~OverlapInLevel(v, 0, lo, hi)
  BY <1>1, <1>6
<1>8. l \in 0..MaxMemCompactLevel /\ \A k \in 0..l - 1 : MayPass(k)
  BY <1>5, <1>7
<1>9. \A m \in 0..l : m \in Levels
  BY <1>3, <1>8
<1>10. \A m \in 0..l : \A f \in v[m] : ~Overlaps(f, lo, hi)
  <2> TAKE m \in 0..l
  <2>1. CASE m = 0
    BY <2>1, <1>7 DEF OverlapInLevel
  <2>2. CASE m # 0
    <3>1. m - 1 \in 0..l - 1 /\ (m - 1) + 1 = m
      BY <2>2, <1>3, <1>8
    <3>2. MayPass(m - 1)
      BY <3>1, <1>8
    <3>3. \A f \in v[(m - 1) + 1] : ~Overlaps(f, lo, hi)
      BY <3>2, <1>2
    <3> QED
      BY <3>1, <3>3
  <2> QED
    BY <2>1, <2>2
<1> QED
  BY <1>3, <1>8, <1>9, <1>10

\* A version after an edit whose files fit in.
FitsIn(v, e) ==
    /\ \A l \in Levels \ {0} : \A f \in v[l] : \A a \in e.added :
           <<l, f.num>> \notin e.deleted /\ a[1] = l => Apart(f, a[2]) \/ SameRange(f, a[2])
    /\ \A a, b \in e.added : a[1] = b[1] /\ a[1] # 0 => Apart(a[2], b[2]) \/ SameRange(a[2], b[2])

\* Its files are disjoint or copies.
LEMMA DisjointApply ==
    ASSUME NEW v, NEW e, DisjointOrCopies(v), FitsIn(v, e)
    PROVE  DisjointOrCopies(Apply(v, e))
<1> SUFFICES ASSUME NEW l \in Levels \ {0}, NEW f \in Apply(v, e)[l], NEW g \in Apply(v, e)[l]
             PROVE  Apart(f, g) \/ SameRange(f, g)
  BY DEF DisjointOrCopies
<1>1. \A x \in Apply(v, e)[l] : \/ x \in v[l] /\ <<l, x.num>> \notin e.deleted
                                \/ \E a \in e.added : a[2] = x /\ a[1] = l
  <2>1. Apply(v, e)[l] = {x \in v[l] : <<l, x.num>> \notin e.deleted}
                         \cup {x \in {a[2] : a \in e.added} : <<l, x>> \in e.added}
    BY DEF Apply
  <2>2. ASSUME NEW x, <<l, x>> \in e.added PROVE \E a \in e.added : a[2] = x /\ a[1] = l
    <3>1. <<l, x>>[2] = x /\ <<l, x>>[1] = l
      OBVIOUS
    <3> QED
      BY <2>2, <3>1
  <2> QED
    BY <2>1, <2>2
<1>2. \A x, y : /\ Apart(x, y) => Apart(y, x)
                /\ SameRange(x, y) => SameRange(y, x)
  BY DEF Apart, SameRange
<1>3. CASE f \in v[l] /\ <<l, f.num>> \notin e.deleted
  <2>1. CASE g \in v[l]
    BY <1>3, <2>1 DEF DisjointOrCopies
  <2>2. CASE \E a \in e.added : a[2] = g /\ a[1] = l
    BY <1>3, <2>2 DEF FitsIn
  <2> QED
    BY <1>1, <2>1, <2>2
<1>4. CASE \E a \in e.added : a[2] = f /\ a[1] = l
  <2>1. CASE g \in v[l] /\ <<l, g.num>> \notin e.deleted
    <3>1. Apart(g, f) \/ SameRange(g, f)
      BY <1>4, <2>1 DEF FitsIn
    <3> QED
      BY <3>1, <1>2
  <2>2. CASE \E a \in e.added : a[2] = g /\ a[1] = l
    BY <1>4, <2>2 DEF FitsIn
  <2> QED
    BY <1>1, <2>1, <2>2
<1> QED
  BY <1>1, <1>3, <1>4

\* Its files have their ranges.
LEMMA VersionApply ==
    ASSUME NEW v, NEW e, NEW tables, VersionOK(v, tables), \A a \in e.added : FileOK(a[2], tables)
    PROVE  VersionOK(Apply(v, e), tables)
<1> SUFFICES ASSUME NEW l \in Levels, NEW f \in Apply(v, e)[l] PROVE FileOK(f, tables)
  BY DEF VersionOK
<1>1. Apply(v, e)[l] \subseteq v[l] \cup {a[2] : a \in e.added}
  BY DEF Apply
<1>2. CASE f \in v[l]
  BY <1>2 DEF VersionOK
<1>3. CASE f \in {a[2] : a \in e.added}
  BY <1>3
<1> QED
  BY <1>1, <1>2, <1>3

\* Files stay as described when tables are added under other numbers, or removed.
LEMMA FilesStayOK ==
    ASSUME NEW tables, NEW t2, NEW f, FileOK(f, tables),
           f.num \in DOMAIN t2 => f.num \in DOMAIN tables /\ t2[f.num] = tables[f.num]
    PROVE  FileOK(f, t2)
BY DEF FileOK

\* The tables that a merge writes have ranges of their own, in order.
LEMMA PiecesAreApart ==
    ASSUME NEW E \in MemContents, Lined(E), NEW K, K \subseteq E, NEW s, PiecesOf(K, s)
    PROVE  \A p \in ToSet(s) :
               /\ p \in TableContents /\ Lined(p) /\ p \subseteq E
               /\ \A q \in ToSet(s) : Apart(RangeOf(p), RangeOf(q)) \/ RangeOf(p) = RangeOf(q)
<1>1. s \in Seq((SUBSET K) \ {{}}) /\ DOMAIN s = 1..Len(s)
  BY DEF PiecesOf
<1>2. \A i \in 1..Len(s) : s[i] \subseteq K /\ s[i] # {}
  BY <1>1
<1>3. ToSet(s) = {s[i] : i \in 1..Len(s)}
  BY <1>1 DEF ToSet
<1>4. ASSUME NEW p, p \subseteq E, p # {} PROVE p \in TableContents /\ Lined(p)
  <2>1. IsFiniteSet(E) /\ E \subseteq Entries
    BY DEF MemContents
  <2>2. IsFiniteSet(p)
    BY <1>4, <2>1, FS_Subset
  <2> QED
    BY <1>4, <2>1, <2>2 DEF TableContents, MemContents, Lined
<1>5. \A i \in 1..Len(s) : s[i] \in TableContents /\ Lined(s[i]) /\ s[i] \subseteq E
  BY <1>2, <1>4
<1>6. ASSUME NEW i \in 1..Len(s), NEW j \in 1..Len(s), i < j
      PROVE  Before(RangeOf(s[i]).largest, RangeOf(s[j]).smallest)
  <2> DEFINE r == RangeOf(s[i])
             t == RangeOf(s[j])
  <2>1. r.smallest = KeyOf(Smallest(s[i])) /\ r.largest = KeyOf(Largest(s[i]))
    BY DEF RangeOf
  <2>2. t.smallest = KeyOf(Smallest(s[j])) /\ t.largest = KeyOf(Largest(s[j]))
    BY DEF RangeOf
  <2> HIDE DEF r, t
  <2> DEFINE p == s[i]
             q == s[j]
  <2>a. p \in TableContents /\ Lined(p) /\ q \in TableContents /\ Lined(q)
    BY <1>5
  <2>b. \A x \in p, y \in q : Before(x, y)
    BY <1>6 DEF PiecesOf
  <2>c. r.largest = KeyOf(Largest(p)) /\ r.smallest = KeyOf(Smallest(p))
        /\ t.largest = KeyOf(Largest(q)) /\ t.smallest = KeyOf(Smallest(q))
    BY <2>1, <2>2
  <2> HIDE DEF p, q
  <2>3. PICK e \in p : r.largest.key = e.key /\ r.largest.seq = e.seq
    BY <2>a, <2>c, RangeOfEntries
  <2>4. PICK f \in q : t.smallest.key = f.key /\ t.smallest.seq = f.seq
    BY <2>a, <2>c, RangeOfEntries
  <2>5. Before(e, f)
    BY <2>b
  <2> QED
    BY <2>3, <2>4, <2>5 DEF Before, r, t
<1>7. ASSUME NEW i \in 1..Len(s), NEW j \in 1..Len(s)
      PROVE  Apart(RangeOf(s[i]), RangeOf(s[j])) \/ RangeOf(s[i]) = RangeOf(s[j])
  <2>1. CASE i < j
    BY <2>1, <1>6 DEF Apart
  <2>2. CASE j < i
    BY <2>2, <1>6 DEF Apart
  <2>3. CASE i = j
    BY <2>3
  <2> QED
    BY <2>1, <2>2, <2>3
<1> QED
  BY <1>3, <1>5, <1>7

\* What a compaction takes in: connected files with all their entries, and on the next
\* level no other file is among them.
TakesIn(c, E) ==
    /\ c.level \in Levels /\ c.level + 1 \in Levels
    /\ c.inputs0 \subseteq db.current[c.level] /\ c.inputs0 # {}
    /\ c.inputs1 \subseteq db.current[c.level + 1]
    /\ Connected(c.inputs0 \cup c.inputs1)
    /\ \A e \in E : \E f \in c.inputs0 \cup c.inputs1 : Covers(f, e.key)
    /\ \A g \in db.current[c.level + 1] \ c.inputs1 :
           (\A e \in E : Before(g.largest, e)) \/ (\A e \in E : Before(e, g.smallest))

\* So it is for every compaction that is picked, and a file that moves down meets none.
LEMMA PickedIsApart ==
    ASSUME NamesFiles, FinitelyMany, EntriesInv, NumbersInv,
           VersionOK(db.current, disk.tables), DisjointOrCopies(db.current),
           NEW p \in ToCompact(db.current, db.pointers, db.seek),
           NEW c, c = PickCompaction(db.current, p[1], p[2])
    PROVE  /\ TakesIn(c, UNION {disk.tables[f.num] : f \in c.inputs0 \cup c.inputs1})
           /\ \A f : c.inputs0 = {f} /\ c.inputs1 = {} => Clear(db.current, c.level + 1, f)
<1> DEFINE v == db.current
           l == p[1]
           F == c.inputs0 \cup c.inputs1
           E == UNION {disk.tables[f.num] : f \in F}
           lo == SmallestKey(c.inputs0).key
           hi == LargestKey(c.inputs0).key
<1>1. l \in Levels /\ p[2] \in v[l] /\ l + 1 \in Levels /\ l + 1 # 0
  BY StartsAboveLast DEF Levels
<1>2. FiniteLevels(v) /\ \A m \in Levels : Ranged(v[m])
  BY VersionIsRanged DEF FinitelyMany
<1>3. Selected(v, l, c)
  BY <1>1, <1>2, PickConnects
<1>4. c.level = l
  BY <1>1, <1>2, PickedFiles
<1>5. /\ c.inputs0 \subseteq v[l] /\ c.inputs0 # {} /\ Connected(F)
      /\ c.inputs1 = {f \in v[l + 1] : Overlaps(f, lo, hi)}
  BY <1>1, <1>3, WithinBelow DEF Selected
<1>6. IsFiniteSet(c.inputs0) /\ Ranged(c.inputs0) /\ Ranged(v[l + 1])
  <2>1. IsFiniteSet(v[l]) /\ Ranged(v[l]) /\ Ranged(v[l + 1])
    BY <1>1, <1>2 DEF FiniteLevels
  <2> QED
    BY <2>1, <1>5, FS_Subset DEF Ranged
<1>7. /\ lo \in Nat /\ hi \in Nat
      /\ \A f \in c.inputs0 : lo <= f.smallest.key /\ f.largest.key <= hi
  BY <1>5, <1>6, EndsOfFiles
<1>a. \A f \in c.inputs1 : f \in v[l + 1] /\ Overlaps(f, lo, hi)
  BY <1>5
<1>b. \A g \in v[l + 1] : g \notin c.inputs1 => ~Overlaps(g, lo, hi)
  BY <1>5
<1> HIDE DEF lo, hi
<1>8. \A f \in F : /\ Ranged({f}) /\ FileOK(f, disk.tables)
                   /\ f.num \in DOMAIN disk.tables
  <2>1. \A f \in F : f \in v[l] \/ f \in v[l + 1]
    BY <1>5, <1>a
  <2>2. \A f \in F : f.num \in Numbers(v)
    BY <1>1, <2>1, NumberOfFile
  <2>3. Numbers(v) \subseteq DOMAIN disk.tables
    BY DEF NamesFiles, VersionsNameFiles
  <2>4. \A f \in F : FileOK(f, disk.tables)
    BY <1>1, <2>1 DEF VersionOK
  <2> HIDE DEF F
  <2> QED
    BY <2>2, <2>3, <2>4 DEF FileOK, Ranged
<1>9. \A e \in E : /\ e.key \in Nat /\ e.seq \in Nat
                   /\ \E f \in F : NotAfter(f.smallest, e) /\ NotAfter(e, f.largest)
  <2> TAKE e \in E
  <2>1. PICK f \in F : e \in disk.tables[f.num]
    OBVIOUS
  <2>2. disk.tables[f.num] \in TableContents /\ FileOK(f, disk.tables) /\ f.num \in DOMAIN disk.tables
    BY <1>8 DEF EntriesInv
  <2>3. e \in Entries
    BY <2>1, <2>2 DEF TableContents, MemContents
  <2> QED
    BY <2>1, <2>2, <2>3, KeysAssumption DEF FileOK, Entries
<1>10. \A e \in E : \E f \in F : Covers(f, e.key)
  <2> TAKE e \in E
  <2>1. PICK f \in F : NotAfter(f.smallest, e) /\ NotAfter(e, f.largest)
    BY <1>9
  <2>2. /\ f.smallest.key \in Nat /\ f.largest.key \in Nat /\ f.smallest.seq \in Nat /\ f.largest.seq \in Nat
    BY <1>8, KeysOfFiles
  <2>3. f.smallest.key <= e.key /\ e.key <= f.largest.key
    BY <1>9, <2>1, <2>2, OrderOfKeys
  <2>4. Covers(f, e.key)
    BY <2>3 DEF Covers
  <2> QED
    BY <2>4
<1>11. ASSUME NEW g \in v[l + 1] \ c.inputs1
       PROVE  (\A e \in E : Before(g.largest, e)) \/ (\A e \in E : Before(e, g.smallest))
  <2>1. Ranged({g}) /\ ~Overlaps(g, lo, hi)
    BY <1>b, <1>6 DEF Ranged
  <2>2. /\ g.smallest.key \in Nat /\ g.largest.key \in Nat /\ g.smallest.seq \in Nat /\ g.largest.seq \in Nat
        /\ g.smallest.key <= g.largest.key
    BY <2>1, KeysOfFiles
  <2>3. \A f \in F : /\ f.smallest.key \in Nat /\ f.largest.key \in Nat
                     /\ f.smallest.seq \in Nat /\ f.largest.seq \in Nat
                     /\ f.smallest.key <= f.largest.key
    BY <1>8, KeysOfFiles
  <2>4. \A f \in c.inputs1 : Apart(f, g) \/ SameRange(f, g)
    BY <1>1, <1>a DEF DisjointOrCopies
  <2>5. CASE g.largest.key < lo
    <3>1. \A f \in c.inputs0 : Before(g.largest, f.smallest)
      <4> TAKE f \in c.inputs0
      <4>1. lo <= f.smallest.key /\ f.smallest.key \in Nat
        BY <1>7, <2>3
      <4> QED
        BY <4>1, <2>2, <2>5, <1>7 DEF Before
    <3>2. \A f \in c.inputs1 : Before(g.largest, f.smallest)
      <4> TAKE f \in c.inputs1
      <4>1. lo <= f.largest.key /\ f.largest.key \in Nat
        BY <1>a, <2>3 DEF Overlaps
      <4>2. ~SameRange(f, g)
        BY <4>1, <2>2, <2>5, <1>7 DEF SameRange
      <4>3. ~Before(f.largest, g.smallest)
        BY <4>1, <2>2, <2>5, <1>7 DEF Before
      <4> QED
        BY <4>2, <4>3, <2>4 DEF Apart
    <3>3. \A e \in E : Before(g.largest, e)
      <4> TAKE e \in E
      <4>1. PICK f \in F : NotAfter(f.smallest, e)
        BY <1>9
      <4>2. Before(g.largest, f.smallest)
        BY <3>1, <3>2
      <4>3. e.key \in Nat /\ e.seq \in Nat
        BY <1>9
      <4> QED
        BY <4>1, <4>2, <4>3, <2>2, <2>3, OrderOfKeys
    <3> QED
      BY <3>3
  <2>6. CASE hi < g.smallest.key
    <3>1. \A f \in c.inputs0 : Before(f.largest, g.smallest)
      <4> TAKE f \in c.inputs0
      <4>1. f.largest.key <= hi /\ f.largest.key \in Nat
        BY <1>7, <2>3
      <4> QED
        BY <4>1, <2>2, <2>6, <1>7 DEF Before
    <3>2. \A f \in c.inputs1 : Before(f.largest, g.smallest)
      <4> TAKE f \in c.inputs1
      <4>1. f.smallest.key <= hi /\ f.smallest.key \in Nat
        BY <1>a, <2>3 DEF Overlaps
      <4>2. ~SameRange(f, g)
        BY <4>1, <2>2, <2>6, <1>7 DEF SameRange
      <4>3. ~Before(g.largest, f.smallest)
        BY <4>1, <2>2, <2>6, <1>7 DEF Before
      <4> QED
        BY <4>2, <4>3, <2>4 DEF Apart
    <3>3. \A e \in E : Before(e, g.smallest)
      <4> TAKE e \in E
      <4>1. PICK f \in F : NotAfter(e, f.largest)
        BY <1>9
      <4>2. Before(f.largest, g.smallest)
        BY <3>1, <3>2
      <4>3. e.key \in Nat /\ e.seq \in Nat
        BY <1>9
      <4> QED
        BY <4>1, <4>2, <4>3, <2>2, <2>3, OrderOfKeys
    <3> QED
      BY <3>3
  <2>7. g.largest.key < lo \/ hi < g.smallest.key
    BY <2>1, <2>2, <1>7 DEF Overlaps
  <2> HIDE DEF E
  <2> QED
    BY <2>5, <2>6, <2>7
<1>12. ASSUME NEW f, c.inputs0 = {f}, c.inputs1 = {}
       PROVE  Clear(v, l + 1, f)
  <2>1. lo = f.smallest.key /\ hi = f.largest.key
    BY <1>5, <1>6, <1>12, EndsOfFiles DEF lo, hi
  <2>2. \A g \in v[l + 1] : ~Overlaps(g, f.smallest.key, f.largest.key)
    BY <2>1, <1>b, <1>12
  <2> QED
    BY <2>2 DEF Clear, OverlapInLevel
<1>13. c.inputs1 \subseteq v[l + 1]
  BY <1>a
<1> HIDE DEF E
<1>14. TakesIn(c, E)
  BY <1>1, <1>4, <1>5, <1>10, <1>11, <1>13 DEF TakesIn
<1> QED
  BY <1>4, <1>12, <1>14 DEF E

-----------------------------------------------------------------------------
(* The levels, step by step. *)

\* What a merge and the files it makes depend on.
LEMMA SameMerge ==
    ASSUME bg' = bg, db'.current = db.current, disk'.tables = disk.tables, MergeOK
    PROVE  MergeOK'
<1>1. /\ Merging' <=> Merging
      /\ Inputs' = Inputs /\ OthersBelow' = OthersBelow /\ Ranges' = Ranges
  BY DEF Merging, Inputs, OthersBelow, Ranges
<1>2. \A r : RangeOK(r)' <=> RangeOK(r)
  BY <1>1 DEF RangeOK
<1> QED
  BY <1>1, <1>2 DEF MergeOK

\* What a step leaves that changes no version, no table and no memtable that is being
\* flushed.
LEMMA LevelsKept ==
    ASSUME LevelsInv, bg' = bg, disk'.manifest = disk.manifest, disk'.tables = disk.tables,
           db'.up = db.up, db'.current = db.current,
           db.imm # {} => db'.imm = db.imm /\ ImmEntries' = ImmEntries,
           bg.pc = "log" /\ bg.kind = "flush" => db.imm # {}
    PROVE  LevelsInv'
<1>1. MergeOK'
  BY SameMerge DEF LevelsInv
<1>2. db.imm # {} => db'.imm # {} /\ ImmEntries' = ImmEntries /\ ImmRange' = ImmRange /\ FlushLevel' = FlushLevel
  BY DEF ImmRange, FlushLevel
<1>3. FlushOK'
  BY <1>2 DEF LevelsInv, FlushOK
<1>4. Merging' <=> Merging
  BY DEF Merging
<1>5. MoveOK' /\ MergeEditOK'
  BY <1>4 DEF LevelsInv, MoveOK, MergeEditOK
<1>6. \A l, f : CopyOf(l, f) => CopyOf(l, f)'
  BY <1>2, <1>4 DEF CopyOf
<1>7. CopiesInManifest'
  BY <1>6 DEF LevelsInv, CopiesInManifest, EditMayCome
<1> QED
  BY <1>1, <1>3, <1>5, <1>7 DEF LevelsInv

\* A reader changes none of them.
LEMMA LevelsReader ==
    ASSUME CrashInv, LevelsInv,
           \/ \E s \in Snapshots : GetSnapshot(s) \/ ReleaseSnapshot(s)
           \/ \E r \in Readers : BeginRead(r) \/ EndRead(r)
    PROVE  LevelsInv'
<1>0. Shape /\ EditsKeepLogs
  BY DEF CrashInv, LogsInv, FilesInv
<1>1. /\ UNCHANGED <<disk, bg>>
      /\ \A x \in DOMAIN Closed \ {"scheduled", "seek", "snapshots"} : db'[x] = db[x]
  BY <1>0, ReaderDoes
<1>2. \A x \in {"up", "current", "imm", "memtables"} : db'[x] = db[x]
  BY <1>1, Fields
<1>3. ImmEntries' = ImmEntries
  BY <1>2 DEF ImmEntries
<1> QED
  BY <1>0, <1>1, <1>2, <1>3, LevelsKept DEF EditsKeepLogs

\* Nor does a writer: it makes a memtable immutable only when there is none, and inserts
\* into the other one.
LEMMA LevelsWriter ==
    ASSUME CrashInv, LevelsInv, NEW w \in Writers, WriterStep(w) \/ \E b \in Batches : Write(w, b)
    PROVE  LevelsInv'
<1>0. Shape /\ EditsKeepLogs /\ NothingBeforeOpen /\ NamesFiles /\ LogsExist /\ GroupIsLogged
  BY DEF CrashInv, LogsInv, FilesInv, NamesFiles
<1>a. DOMAIN db = DOMAIN Closed /\ DOMAIN disk = {"tables", "logs", "manifest"}
  BY <1>0, Fields DEF Shape
<1>1. UNCHANGED bg /\ disk'.manifest = disk.manifest /\ db'.up = db.up
  BY <1>0, WriterDoes DEF WriterEffect
<1>2. disk'.tables = disk.tables
  BY <1>0, NamesWriter
<1>3. db'.current = db.current /\ (db.imm # {} => db'.imm = db.imm /\ ImmEntries' = ImmEntries)
  <2>1. CASE UNCHANGED db
    BY <2>1 DEF ImmEntries
  <2>2. CASE BeginWrite(w)
    <3> DEFINE d == [db EXCEPT !.nextFile = @ + 1, !.log = db.nextFile, !.imm = {db.log},
                               !.memtables = With(@, db.nextFile, {})]
    <3>1. db' = IF HasRoom THEN db ELSE MaybeSchedule(d)
      BY <2>2 DEF BeginWrite, SwitchMemTable
    <3>2. HasRoom \/ db.imm = {}
      BY <2>2 DEF BeginWrite, MustWait
    <3>3. DOMAIN d = DOMAIN Closed /\ d.current = db.current
      BY <1>a, Fields
    <3> HIDE DEF d
    <3>4. MaybeSchedule(d).current = db.current
      BY <3>3, MaybeScheduleShape, Fields
    <3>5. CASE HasRoom
      BY <2>1, <3>1, <3>5
    <3>6. CASE ~HasRoom
      BY <3>1, <3>2, <3>4, <3>6
    <3> QED
      BY <3>5, <3>6
  <2>3. CASE InsertIntoMemTable(w)
    <3> DEFINE m == group.log
               E == InsertInto(GroupOps, group.seq)
    <3>1. db' = [db EXCEPT !.memtables[m] = @ \cup E] /\ writer[w].pc = "insert" /\ Busy(w)
      BY <2>3 DEF InsertIntoMemTable, AtFront, Busy
    <3> HIDE DEF E
    <3>2. /\ db'.memtables = [db.memtables EXCEPT ![m] = @ \cup E]
          /\ db'.current = db.current /\ db'.imm = db.imm
      BY <1>a, <3>1, Fields
    <3>3. \A n \in db.imm : n # m /\ n \in DOMAIN db.memtables
      <4>1. m = db.log /\ db.up = "open"
        BY <1>0, <3>1, BusyIsOpen DEF GroupIsLogged
      <4>2. \A n \in db.imm : n < db.log /\ n \in Nat
        BY <1>0, <4>1 DEF LogsExist, NamesFiles, ManifestNamesFiles
      <4>3. db.log \in Nat /\ db.imm \subseteq DOMAIN db.memtables
        BY <1>0, <4>1 DEF LogsExist, Below
      <4> QED
        BY <4>1, <4>2, <4>3
    <3>4. \A n \in db.imm : db'.memtables[n] = db.memtables[n]
      BY <3>2, <3>3
    <3>5. ImmEntries' = ImmEntries
      BY <3>2, <3>4 DEF ImmEntries
    <3> QED
      BY <3>2, <3>5
  <2>4. CASE Publish(w)
    <3>1. \E x, y : db' = [db EXCEPT !.lastSeq = x, !.bgError = y]
      BY <2>4 DEF Publish
    <3>2. db'.current = db.current /\ db'.imm = db.imm /\ db'.memtables = db.memtables
      BY <1>a, <3>1, Fields
    <3> QED
      BY <3>2 DEF ImmEntries
  <2>5. UNCHANGED db \/ BeginWrite(w) \/ InsertIntoMemTable(w) \/ Publish(w)
    BY DEF WriterStep, Write, WaitForRoom, NoRoom, AppendToLog, Sync, SyncFails
  <2> QED
    BY <2>1, <2>2, <2>3, <2>4, <2>5
<1> QED
  BY <1>0, <1>1, <1>2, <1>3, LevelsKept DEF EditsKeepLogs

\* A version whose files are as described, with tables apart below level 0.
Fit(v, tables) == VersionOK(v, tables) /\ DisjointOrCopies(v)

\* So it stays when no table that it names is written.
LEMMA FitStays ==
    ASSUME NEW v, NEW tables, NEW t2, Fit(v, tables),
           \A n \in Numbers(v) : n \in DOMAIN t2 => n \in DOMAIN tables /\ t2[n] = tables[n]
    PROVE  Fit(v, t2)
<1>1. ASSUME NEW l \in Levels, NEW f \in v[l] PROVE FileOK(f, t2)
  <2>1. f.num \in Numbers(v)
    BY <1>1, NumberOfFile
  <2>2. FileOK(f, tables)
    BY <1>1 DEF Fit, VersionOK
  <2> QED
    BY <2>1, <2>2, FilesStayOK
<1> QED
  BY <1>1 DEF Fit, VersionOK

\* A version without files is such a version.
LEMMA FitNone == \A tables : Fit(NoFiles, tables)
BY DEF Fit, VersionOK, DisjointOrCopies, NoFiles

\* An earlier session leaves such a version.
Laid(d) == Numbered(d) /\ DiskOK(d) /\ Fit(d.manifest.version, d.tables)

\* Another session leaves one, too.
LEMMA FlushedLaid ==
    ASSUME NEW d, Laid(d), NEW ops \in Seq(Operations) \ {<<>>}
    PROVE  Laid(Flushed(d, ops))
<1> DEFINE m == d.manifest
           v == m.version
           E == InsertInto(ops, m.lastSeq + 1)
           f == Meta(m.nextFile + 1, E)
           k == Flushed(d, ops)
           level == PickLevelForMemTableOutput(v, f.smallest.key, f.largest.key)
<1>1. Numbered(k) /\ DiskOK(k)
  BY FlushedNumbers, FlushedOK DEF Laid
<1>2. /\ m.lastSeq \in Nat /\ DOMAIN m = DOMAIN NewDisk.manifest /\ DOMAIN v = Levels
      /\ m.nextFile \in Nat /\ Numbers(v) \subseteq Below(m.nextFile)
      /\ Fit(v, d.tables)
  BY DEF Laid, Numbered, StartOK, DiskOK
<1>3. k.tables = With(d.tables, f.num, E) /\ k.manifest.version = [v EXCEPT ![level] = @ \cup {f}]
  BY <1>2 DEF Flushed, NewDisk
<1>4. E \in TableContents /\ Lined(E)
  <2>1. E \in MemContents /\ E \in TableContents
    BY <1>2, InsertedEntries
  <2>2. \A e, g \in E : e.seq = g.seq => e = g
    BY <1>2, InsertedNumbers
  <2> HIDE DEF E
  <2> QED
    BY <2>1, <2>2, NumberedAreLined
<1>5. f.num = m.nextFile + 1 /\ f.num \notin Numbers(v)
  BY <1>2 DEF Meta, Below
<1>6. level \in Levels
  BY PickedLevel
<1>7. With(d.tables, f.num, E)[f.num] = E
      /\ \A n \in Numbers(v) : n \in DOMAIN With(d.tables, f.num, E) =>
             n \in DOMAIN d.tables /\ With(d.tables, f.num, E)[n] = d.tables[n]
  BY <1>5 DEF With, Overlay
<1>8. level # 0 => \A g \in v[level] : ~Overlaps(g, f.smallest.key, f.largest.key)
  <2> HIDE DEF f
  <2>1. level # 0 => \A g \in v[level] : level \in 0..level
    BY <1>6 DEF Levels
  <2> QED
    BY <2>1, FlushIsClear
<1> DEFINE t2 == k.tables
           w == k.manifest.version
<1>9. FileOK(f, t2)
  <2> HIDE DEF E, k
  <2>1. With(d.tables, f.num, E)[f.num] = E
    BY <1>7
  <2>2. f.num \in DOMAIN t2 => t2[f.num] = E
    BY <1>3, <2>1
  <2>3. m.nextFile + 1 \in DOMAIN t2 => t2[m.nextFile + 1] = E
    BY <2>2, <1>5
  <2> HIDE DEF m, t2
  <2> QED
    BY <1>4, <2>3, MetaIsOK
<1>10. Fit(v, t2)
  <2> HIDE DEF k, v, f, E
  <2>1. \A n \in Numbers(v) : n \in DOMAIN t2 => n \in DOMAIN d.tables /\ t2[n] = d.tables[n]
    BY <1>3, <1>7
  <2> QED
    BY <1>2, <2>1, FitStays
<1>11. w = [v EXCEPT ![level] = @ \cup {f}]
  BY <1>3
<1> HIDE DEF t2, w, f, E, level, v, k
<1>12. \A l \in Levels : \A g \in w[l] : g \in v[l] \/ (l = level /\ g = f)
  BY <1>2, <1>6, <1>11
<1>13. VersionOK(w, t2)
  BY <1>9, <1>10, <1>12 DEF VersionOK, Fit
<1>14. DisjointOrCopies(w)
  <2> SUFFICES ASSUME NEW l \in Levels \ {0}, NEW g \in w[l], NEW h \in w[l]
               PROVE  Apart(g, h) \/ SameRange(g, h)
    BY DEF DisjointOrCopies
  <2>1. g \in v[l] /\ h \in v[l] => Apart(g, h) \/ SameRange(g, h)
    BY <1>10 DEF Fit, DisjointOrCopies
  <2>2. ASSUME l = level, NEW x \in v[l] PROVE Apart(x, f) /\ Apart(f, x)
    <3>1. ~Overlaps(x, f.smallest.key, f.largest.key)
      BY <1>8, <2>2
    <3>2. Ranged({x}) /\ Ranged({f})
      BY <1>9, <1>10, <2>2 DEF Fit, VersionOK, FileOK, Ranged
    <3> QED
      BY <3>1, <3>2, NoOverlapIsApart
  <2>3. SameRange(f, f)
    BY DEF SameRange
  <2>4. (g \in v[l] \/ (l = level /\ g = f)) /\ (h \in v[l] \/ (l = level /\ h = f))
    BY <1>12
  <2> QED
    BY <2>1, <2>2, <2>3, <2>4
<1> QED
  BY <1>1, <1>13, <1>14 DEF Laid, Fit, w, t2, k

\* So do all of them.
LEMMA LeftByLaid == Laid(LeftBy[Len(Earlier)])
<1> DEFINE N == Len(Earlier)
           Good(i) == Laid(LeftBy[i])
           Bad == {i \in 0..N : ~Good(i)}
<1>1. N \in Nat /\ \A i \in 1..N : Earlier[i] \in Seq(Operations) \ {<<>>}
  <2>1. Earlier \in Seq(Seq(Operations) \ {<<>>})
    BY LevelDBAssumption DEF Operations
  <2> QED
    BY <2>1, LenProperties, ElementOfSeq
<1> HIDE DEF N
<1>2. Bad = {}
  <2>1. SUFFICES ASSUME Bad # {} PROVE FALSE
    OBVIOUS
  <2>2. Bad \in SUBSET Nat
    <3> HIDE DEF Good
    <3> QED
      BY <1>1
  <2>3. PICK n \in Bad : \A i \in Bad : n <= i
    BY <2>1, <2>2, LeastNat
  <2>4. n \in 0..N /\ ~Good(n)
    BY <2>3
  <2>5. LeftBy[n] = IF n = 0 THEN NewDisk ELSE Flushed(LeftBy[n - 1], Earlier[n])
    BY <2>4, LeftByIs DEF N
  <2>6. n # 0
    <3>1. StartOK(NewDisk) /\ TablesGood(NewDisk) /\ NewDisk.tables = <<>>
      BY DEF StartOK, TablesGood, NewDisk
    <3>2. EntriesIn(<<>>, DOMAIN <<>>) = {}
      BY DEF EntriesIn
    <3>3. Numbered(NewDisk)
      BY <3>1, <3>2 DEF Numbered, UpTo
    <3>4. NewDisk.manifest.version = NoFiles
      BY DEF NewDisk
    <3>5. Laid(NewDisk)
      BY <3>3, <3>4, NewDiskOK, FitNone DEF Laid
    <3> QED
      BY <2>4, <2>5, <3>5
  <2>7. n \in Nat /\ n \in 1..N /\ n - 1 \in 0..N /\ ~(n <= n - 1)
    BY <2>4, <2>6, <1>1
  <2>8. n - 1 \notin Bad
    <3> HIDE DEF Bad
    <3> QED
      BY <2>3, <2>7
  <2>9. Laid(LeftBy[n - 1])
    BY <2>7, <2>8
  <2> QED
    BY <1>1, <2>4, <2>5, <2>6, <2>7, <2>9, FlushedLaid
<1>3. Good(N)
  <2> HIDE DEF Good
  <2> QED
    BY <1>1, <1>2
<1> QED
  BY <1>3 DEF N

\* While the background thread is idle only the versions matter.
LEMMA IdleMerges == BgIdle.pc = "idle" /\ BgIdle.c = NoCompaction /\ DOMAIN BgIdle.made = {}
BY DEF BgIdle

\* So it is when nothing has been opened yet,
LEMMA LevelsInit == Init => LevelsInv
<1> SUFFICES ASSUME Init PROVE LevelsInv
  OBVIOUS
<1>1. disk = LeftBy[Len(Earlier)] /\ db = Closed /\ bg = BgIdle
  BY DEF Init
<1>2. Fit(disk.manifest.version, disk.tables)
  BY <1>1, LeftByLaid DEF Laid
<1>3. Fit(db.current, disk.tables)
  <2>1. db.current = NoFiles
    BY <1>1 DEF Closed
  <2> QED
    BY <2>1, FitNone
<1>4. bg.pc = "idle" /\ ~Merging /\ DOMAIN bg.made = {}
  BY <1>1, IdleMerges DEF Merging
<1> QED
  BY <1>1, <1>2, <1>3, <1>4 DEF LevelsInv, Fit, MergeOK, FlushOK, MoveOK, MergeEditOK, CopiesInManifest, EditMayCome

\* and after a step that ends with the background thread idle.
LEMMA LevelsAtRest ==
    ASSUME bg' = BgIdle, Fit(db'.current, disk'.tables), Fit(disk'.manifest.version, disk'.tables)
    PROVE  LevelsInv'
<1>1. bg'.pc = "idle" /\ ~Merging' /\ DOMAIN bg'.made = {}
  BY IdleMerges DEF Merging
<1> QED
  BY <1>1 DEF LevelsInv, Fit, MergeOK, FlushOK, MoveOK, MergeEditOK, CopiesInManifest, EditMayCome

\* A crash leaves the manifest.
LEMMA LevelsCrash ==
    ASSUME CrashInv, LevelsInv, Crash
    PROVE  LevelsInv'
<1>0. Shape
  BY DEF CrashInv, LogsInv, FilesInv
<1>1. /\ db' = Closed /\ bg' = BgIdle
      /\ disk' = disk \/ \E x : disk' = [disk EXCEPT !.logs = x]
  BY DEF Crash
<1>2. disk'.tables = disk.tables /\ disk'.manifest = disk.manifest
  BY <1>0, <1>1, Fields DEF Shape
<1>3. db'.current = NoFiles
  BY <1>1 DEF Closed
<1> QED
  BY <1>1, <1>2, <1>3, FitNone, LevelsAtRest DEF LevelsInv, Fit

\* An opening reads it, and adds the recovered tables to level 0.
LEMMA LevelsOpening ==
    ASSUME CrashInv, EntriesInv, NumbersInv, LevelsInv, Opening
    PROVE  LevelsInv'
<1>0. Shape /\ NothingBeforeOpen /\ NamesFiles /\ LogsExist /\ LogsPart
  BY DEF CrashInv, LogsInv, FilesInv, NamesFiles, LogsPart
<1>a. DOMAIN db = DOMAIN Closed /\ DOMAIN disk = {"tables", "logs", "manifest"}
  BY <1>0, Fields DEF Shape
<1>1. db.up # "open" /\ UNCHANGED bg
  BY <1>0, LogsPartOpening
<1>2. bg' = BgIdle
  BY <1>0, <1>1 DEF NothingBeforeOpen
<1>3. Fit(db.current, disk.tables) /\ Fit(disk.manifest.version, disk.tables)
  BY DEF LevelsInv, Fit
<1>4. db.up # "closed" =>
          db.nextFile \notin Numbers(disk.manifest.version) /\ db.nextFile \notin Numbers(db.current)
  <2>1. db.nextFile \in Nat /\ disk.manifest.nextFile \in Nat
        /\ Numbers(db.current) \subseteq Below(db.nextFile)
        /\ Numbers(disk.manifest.version) \subseteq Below(disk.manifest.nextFile)
        /\ (db.up # "closed" => disk.manifest.nextFile <= db.nextFile)
    BY <1>0 DEF NamesFiles, ManifestNamesFiles, VersionsNameFiles
  <2> QED
    BY <2>1 DEF Below
<1>5. CASE Recover
  <2>1. UNCHANGED disk /\ db'.current = disk.manifest.version
    BY <1>5 DEF Recover, Closed
  <2> QED
    BY <1>2, <1>3, <2>1, LevelsAtRest
<1>6. CASE ReplayRecord \/ EndOfLog
  <2>1. /\ db.up = "replaying" /\ db'.current = db.current
        /\ disk' = disk \/ \E mem : disk' = [disk EXCEPT !.tables = With(@, db.nextFile, mem)]
    BY <1>0, <1>6, ReplayDoes, Fields
  <2>2. CASE disk' = disk
    BY <1>2, <1>3, <2>1, <2>2, LevelsAtRest
  <2>3. ASSUME NEW mem, disk' = [disk EXCEPT !.tables = With(@, db.nextFile, mem)]
        PROVE  LevelsInv'
    <3>1. disk'.tables = With(disk.tables, db.nextFile, mem) /\ disk'.manifest = disk.manifest
      BY <1>a, <2>3
    <3>2. ASSUME NEW v, Fit(v, disk.tables), db.nextFile \notin Numbers(v)
          PROVE  Fit(v, disk'.tables)
      <4>1. \A n \in Numbers(v) : n \in DOMAIN disk'.tables =>
                n \in DOMAIN disk.tables /\ disk'.tables[n] = disk.tables[n]
        BY <3>1, <3>2 DEF With, Overlay
      <4> QED
        BY <3>2, <4>1, FitStays
    <3> QED
      BY <1>2, <1>3, <1>4, <2>1, <3>1, <3>2, LevelsAtRest
  <2> QED
    BY <2>1, <2>2, <2>3
<1>7. CASE BeginLog
  <2>1. /\ \E x : disk' = [disk EXCEPT !.logs = x]
        /\ \E a, b, c, d : db' = [db EXCEPT !.up = a, !.nextFile = b, !.log = c, !.memtables = d]
    BY <1>7 DEF BeginLog
  <2>2. disk'.tables = disk.tables /\ disk'.manifest = disk.manifest /\ db'.current = db.current
    BY <1>a, <2>1, Fields
  <2> QED
    BY <1>2, <1>3, <2>2, LevelsAtRest
<1>8. CASE InstallRecovered
  <2> DEFINE e == Edit({<<0, Meta(n, disk.tables[n])>> : n \in db.pending}, {}, db.log, <<>>)
  <2>1. /\ db.up = "replayed" /\ disk' = [disk EXCEPT !.manifest = Logged(@, e)]
        /\ db' = [db EXCEPT !.up = "installed", !.current = Apply(@, e),
                            !.logNumber = db.log, !.pending = {}]
    BY <1>8 DEF InstallRecovered
  <2>2. e.added = {<<0, Meta(n, disk.tables[n])>> : n \in db.pending}
    BY DEF Edit
  <2> HIDE DEF e
  <2>3. /\ disk'.tables = disk.tables /\ disk'.manifest = Logged(disk.manifest, e)
        /\ db'.current = Apply(db.current, e)
    BY <1>a, <2>1, Fields
  <2>4. disk'.manifest.version = Apply(disk.manifest.version, e)
    BY <2>3 DEF Logged
  <2>5. ASSUME NEW n \in db.pending PROVE FileOK(Meta(n, disk.tables[n]), disk.tables)
    <3>1. n \in DOMAIN disk.tables /\ disk.tables[n] \in TableContents
      BY <1>0, <2>1 DEF NamesFiles, VersionsNameFiles, EntriesInv
    <3>2. disk.tables[n] \subseteq Written
      <4>1. n \in InUse
        BY <2>1 DEF InUse, Recovering
      <4> QED
        BY <3>1, <4>1 DEF Written, InTables, EntriesIn
    <3> DEFINE E == disk.tables[n]
    <3>3. Lined(E)
      <4>1. E \in MemContents /\ \A x, y \in E : x.seq = y.seq => x = y
        BY <3>1, <3>2 DEF TableContents, NumbersInv, NoNumberTwice
      <4> HIDE DEF E
      <4> QED
        BY <4>1, NumberedAreLined
    <3>4. E \in TableContents /\ disk.tables[n] = E
      BY <3>1
    <3> HIDE DEF E
    <3>5. FileOK(Meta(n, E), disk.tables)
      BY <3>3, <3>4, MetaIsOK
    <3> QED
      BY <3>4, <3>5
  <2>6. \A a \in e.added : a[1] = 0 /\ FileOK(a[2], disk.tables)
    BY <2>2, <2>5
  <2>7. ASSUME NEW v, Fit(v, disk.tables) PROVE Fit(Apply(v, e), disk.tables)
    <3>1. FitsIn(v, e)
      BY <2>6 DEF FitsIn
    <3> QED
      BY <2>6, <2>7, <3>1, DisjointApply, VersionApply DEF Fit
  <2> QED
    BY <1>2, <1>3, <2>3, <2>4, <2>7, LevelsAtRest
<1>9. CASE FinishOpen
  <2> DEFINE d == [db EXCEPT !.up = "open"]
  <2>1. disk' = WithoutObsolete(disk) /\ db' = MaybeSchedule(d)
    BY <1>9 DEF FinishOpen
  <2>2. DOMAIN d = DOMAIN Closed /\ d.current = db.current
    BY <1>a, Fields
  <2> HIDE DEF d
  <2>3. db'.current = db.current
    BY <2>1, <2>2, MaybeScheduleShape, Fields
  <2>4. /\ disk'.manifest = disk.manifest
        /\ \A n \in DOMAIN disk'.tables : n \in DOMAIN disk.tables /\ disk'.tables[n] = disk.tables[n]
    BY <1>0, <2>1, ObsoleteIsNotNamed
  <2>5. Fit(db.current, disk'.tables) /\ Fit(disk.manifest.version, disk'.tables)
    BY <1>3, <2>4, FitStays
  <2> QED
    BY <1>2, <2>3, <2>4, <2>5, LevelsAtRest
<1> QED
  BY <1>5, <1>6, <1>7, <1>8, <1>9 DEF Opening

\* What is being flushed to the level that a merge enters is apart from what it writes:
\* no input of the merge overlaps it.
LEMMA FlushIsApart ==
    ASSUME VersionOK(db.current, disk.tables), MergeOK, Merging, NEW r \in Ranges,
           FlushLevel = bg.c.level + 1, NEW x, SameRange(x, ImmRange), Ranged({x})
    PROVE  /\ Apart(r, x) /\ Apart(x, r)
           /\ \A g \in db.current[bg.c.level + 1] : ~SameRange(g, x)
<1> DEFINE l == bg.c.level
           lo == ImmRange.smallest.key
           hi == ImmRange.largest.key
<1>1. /\ l \in Levels /\ l + 1 \in Levels /\ l + 1 # 0 /\ l \in 0..l + 1 /\ l + 1 \in 0..l + 1
      /\ bg.c.inputs0 \subseteq db.current[l] /\ bg.c.inputs1 \subseteq db.current[l + 1]
      /\ Connected(Inputs) /\ RangeOK(r)
  BY DEF MergeOK, Levels
<1>2. \A m \in 0..l + 1 : \A f \in db.current[m] : ~Overlaps(f, lo, hi)
  <2>1. l + 1 = PickLevelForMemTableOutput(db.current, lo, hi)
    BY DEF FlushLevel
  <2> HIDE DEF lo, hi, l
  <2>2. \A m \in 0..l + 1 : m \in Levels /\ \A f \in db.current[m] : ~Overlaps(f, lo, hi)
    BY <1>1, <2>1, FlushIsClear
  <2> QED
    BY <2>2
<1>3. lo = x.smallest.key /\ hi = x.largest.key
  BY DEF SameRange
<1>4. \A m \in Levels : Ranged(db.current[m])
  BY VersionIsRanged
<1>5. \A f \in Inputs : f \in db.current[l] \/ f \in db.current[l + 1]
  BY <1>1 DEF Inputs
<1> HIDE DEF lo, hi, l
<1>6. Ranged(Inputs) /\ \A f \in Inputs : ~Overlaps(f, x.smallest.key, x.largest.key)
  BY <1>1, <1>2, <1>3, <1>4, <1>5 DEF Ranged
<1>7. Ranged({r}) /\ \E f, g \in Inputs : Covers(f, r.smallest.key) /\ Covers(g, r.largest.key)
  BY <1>1 DEF RangeOK, Ranged
<1>8. Apart(r, x) /\ Apart(x, r)
  BY <1>1, <1>6, <1>7, ConnectedIsApart
<1>9. ASSUME NEW g \in db.current[l + 1], SameRange(g, x) PROVE FALSE
  <2>1. ~Overlaps(g, x.smallest.key, x.largest.key)
    BY <1>1, <1>2, <1>3, <1>9
  <2>2. x.smallest.key \in Nat /\ x.largest.key \in Nat /\ x.smallest.key <= x.largest.key
    BY KeysOfFiles
  <2> QED
    BY <1>9, <2>1, <2>2 DEF SameRange, Overlaps
<1> QED
  BY <1>8, <1>9 DEF l

\* Being apart is of the ranges only.
LEMMA ApartIs ==
    /\ \A x, y : Apart(x, y) => Apart(y, x)
    /\ \A x, y : SameRange(x, y) => SameRange(y, x)
    /\ \A x, y, z : SameRange(x, y) /\ SameRange(y, z) => SameRange(x, z)
    /\ \A x, y, z : Apart(x, y) /\ SameRange(y, z) => Apart(x, z)
    /\ \A x : SameRange(x, x)
BY DEF Apart, SameRange

\* The level of a memtable that is being flushed has no file that overlaps it.
LEMMA FlushedBelow ==
    ASSUME VersionOK(db.current, disk.tables), NEW l \in Levels, l # 0, l = FlushLevel,
           NEW x, SameRange(x, ImmRange), Ranged({x}), NEW f \in db.current[l]
    PROVE  Apart(f, x)
<1> DEFINE lo == ImmRange.smallest.key
           hi == ImmRange.largest.key
<1>1. l = PickLevelForMemTableOutput(db.current, lo, hi)
  BY DEF FlushLevel
<1>2. l \in 0..l
  BY DEF Levels
<1> HIDE DEF lo, hi
<1>3. ~Overlaps(f, lo, hi)
  BY <1>1, <1>2, FlushIsClear
<1>4. lo = x.smallest.key /\ hi = x.largest.key
  BY DEF SameRange, lo, hi
<1>5. Ranged({f})
  BY VersionIsRanged DEF Ranged
<1> QED
  BY <1>3, <1>4, <1>5, NoOverlapIsApart

\* Both versions stay as they are with the edit on its way.
LEMMA EditFits ==
    ASSUME LevelsInv, EditsKeepLogs, db.up = "open", bg.pc = "log",
           NEW v, v = db.current \/ v = disk.manifest.version
    PROVE  Fit(Apply(v, bg.edit), disk.tables)
<1> DEFINE e == bg.edit
<1>1. VersionOK(v, disk.tables) /\ DisjointOrCopies(v) /\ VersionOK(db.current, disk.tables)
      /\ VersionOK(disk.manifest.version, disk.tables)
  BY DEF LevelsInv
<1>2. MergeOK /\ FlushOK /\ MoveOK /\ MergeEditOK
  BY DEF LevelsInv
<1>3. \A l \in Levels \ {0} : \A f \in v[l] : CopyOf(l, f)
  <2>1. \A l, f : f \in db.current[l] => CopyOf(l, f)
    BY DEF CopyOf
  <2>2. EditMayCome
    BY DEF EditMayCome
  <2> QED
    BY <2>1, <2>2 DEF LevelsInv, CopiesInManifest
<1>4. SUFFICES FitsIn(v, e) /\ \A a \in e.added : FileOK(a[2], disk.tables)
  BY <1>1, DisjointApply, VersionApply DEF Fit
<1>5. bg.kind \in {"flush", "move", "merge"}
  BY <1>2 DEF MergeOK
<1>6. ASSUME NEW l \in Levels, NEW f \in v[l] PROVE Ranged({f})
  BY <1>1, <1>6, VersionIsRanged DEF Ranged
<1> HIDE DEF e
<1>7. CASE bg.kind = "flush"
  <2>1. \A a \in e.added : a[1] = FlushLevel /\ SameRange(a[2], ImmRange) /\ FileOK(a[2], disk.tables)
    BY <1>2, <1>7 DEF FlushOK, e
  <2>2. ASSUME NEW l \in Levels \ {0}, NEW f \in v[l], NEW a \in e.added, a[1] = l
        PROVE  Apart(f, a[2]) \/ SameRange(f, a[2])
    <3> DEFINE x == a[2]
    <3>1. l = FlushLevel /\ SameRange(x, ImmRange) /\ Ranged({x})
      BY <2>1, <2>2 DEF FileOK, Ranged
    <3> HIDE DEF x
    <3>2. \A g \in db.current[l] : Apart(g, x)
      BY <1>1, <3>1, FlushedBelow
    <3>3. CASE f \in db.current[l]
      BY <3>2, <3>3 DEF x
    <3>4. CASE \E g \in db.current[l] : SameRange(f, g)
      <4>1. Apart(f, x)
        BY <3>2, <3>4, ApartIs
      <4> QED
        BY <4>1 DEF x
    <3>5. CASE SameRange(f, ImmRange)
      <4>1. SameRange(f, x)
        BY <3>1, <3>5, ApartIs
      <4> QED
        BY <4>1 DEF x
    <3>6. CopyOf(l, f)
      BY <1>3, <2>2
    <3>7. \/ f \in db.current[l] \/ SameRange(f, ImmRange)
          \/ \E g \in db.current[l] : SameRange(f, g)
      BY <3>6 DEF CopyOf
    <3> QED
      BY <3>3, <3>4, <3>5, <3>7
  <2>3. \A a, b \in e.added : SameRange(a[2], b[2])
    BY <2>1, ApartIs
  <2> QED
    BY <2>1, <2>2, <2>3 DEF FitsIn
<1>8. CASE bg.kind = "move"
  <2>1. v = db.current /\ \A a \in e.added : /\ a[1] - 1 \in Levels /\ a[2] \in db.current[a[1] - 1]
                                             /\ Clear(db.current, a[1], a[2])
                                             /\ e.added = {a}
    BY <1>2, <1>8 DEF MoveOK, e
  <2>2. \A a \in e.added : FileOK(a[2], disk.tables)
    BY <1>1, <2>1 DEF VersionOK
  <2>3. ASSUME NEW l \in Levels \ {0}, NEW f \in v[l], NEW a \in e.added, a[1] = l
        PROVE  Apart(f, a[2])
    <3> DEFINE x == a[2]
    <3>1. ~Overlaps(f, x.smallest.key, x.largest.key)
      BY <2>1, <2>3 DEF Clear, OverlapInLevel
    <3>2. Ranged({f}) /\ Ranged({x})
      BY <1>6, <2>2 DEF FileOK, Ranged
    <3> HIDE DEF x
    <3>3. Apart(f, x)
      BY <3>1, <3>2, NoOverlapIsApart
    <3> QED
      BY <3>3 DEF x
  <2>4. \A a, b \in e.added : a = b
    BY <2>1
  <2>5. \A a, b \in e.added : SameRange(a[2], b[2])
    BY <2>4, ApartIs
  <2> QED
    BY <2>2, <2>3, <2>5 DEF FitsIn
<1>9. CASE bg.kind = "merge"
  <2> DEFINE R(i) == [smallest |-> bg.made[i].smallest, largest |-> bg.made[i].largest]
             n == bg.c.level + 1
  <2>1. /\ Merging /\ e.added = {<<n, bg.made[i]>> : i \in DOMAIN bg.made}
        /\ \A f \in bg.c.inputs1 : <<n, f.num>> \in e.deleted
    BY <1>2, <1>9 DEF MergeEditOK, e
  <2>2. \A i \in DOMAIN bg.made : FileOK(bg.made[i], disk.tables) /\ R(i) \in Ranges
    BY <1>2 DEF MergeOK, Ranges
  <2>3. \A i : SameRange(R(i), bg.made[i]) /\ SameRange(bg.made[i], R(i))
    BY DEF SameRange
  <2>4. \A r \in Ranges : RangeOK(r)
    BY <1>2, <2>1 DEF MergeOK
  <2>5. n \in Levels
    BY <1>2, <2>1 DEF MergeOK
  <2> HIDE DEF R, n
  <2>6. \A a \in e.added : \E i \in DOMAIN bg.made : a[1] = n /\ a[2] = bg.made[i]
    BY <2>1
  <2>7. ASSUME NEW i \in DOMAIN bg.made, NEW j \in DOMAIN bg.made
        PROVE  Apart(bg.made[i], bg.made[j]) \/ SameRange(bg.made[i], bg.made[j])
    <3>1. Apart(R(i), R(j)) \/ SameRange(R(i), R(j))
      BY <2>2, <2>4, ApartIs DEF RangeOK
    <3> QED
      BY <3>1, <2>3, ApartIs
  <2>8. ASSUME NEW f \in v[n], <<n, f.num>> \notin e.deleted, n # 0, NEW i \in DOMAIN bg.made
        PROVE  Apart(f, bg.made[i])
    <3>1. \A g \in db.current[n] : g \notin bg.c.inputs1 => Apart(R(i), g)
      BY <2>2, <2>4 DEF RangeOK, OthersBelow, n
    <3>2. CASE f \in db.current[n]
      <4>1. f \notin bg.c.inputs1
        BY <2>1, <2>8
      <4> QED
        BY <2>3, <3>1, <3>2, <4>1, ApartIs
    <3>3. CASE \E g \in db.current[n] : SameRange(f, g) /\ g \notin bg.c.inputs1
      BY <2>3, <3>1, <3>3, ApartIs
    <3>4. CASE SameRange(f, ImmRange) /\ n = FlushLevel
      <4>1. Ranged({f})
        BY <1>6, <2>5
      <4>2. Apart(R(i), f)
        BY <1>1, <1>2, <2>1, <2>2, <3>4, <4>1, FlushIsApart DEF n
      <4> QED
        BY <2>3, <4>2, ApartIs
    <3>5. CopyOf(n, f)
      BY <1>3, <2>5, <2>8
    <3>6. \/ f \in db.current[n] \/ (SameRange(f, ImmRange) /\ n = FlushLevel)
          \/ \E g \in db.current[n] : SameRange(f, g) /\ g \notin bg.c.inputs1
      <4>1. Merging /\ n = bg.c.level + 1
        BY <2>1 DEF n
      <4> QED
        BY <3>5, <4>1 DEF CopyOf
    <3> QED
      BY <3>2, <3>3, <3>4, <3>6
  <2>9. \A a \in e.added : FileOK(a[2], disk.tables)
    BY <2>2, <2>6
  <2>10. \A a, b \in e.added : Apart(a[2], b[2]) \/ SameRange(a[2], b[2])
    BY <2>6, <2>7
  <2>11. ASSUME NEW l \in Levels \ {0}, NEW f \in v[l], NEW a \in e.added,
                <<l, f.num>> \notin e.deleted, a[1] = l
         PROVE  Apart(f, a[2])
    BY <2>6, <2>8, <2>11
  <2> QED
    BY <2>9, <2>10, <2>11 DEF FitsIn
<1> QED
  BY <1>5, <1>7, <1>8, <1>9

\* After a task without a merge to go back to, only the versions matter.
LEMMA LevelsDone ==
    ASSUME \/ bg' = BgIdle
           \/ bg' = [BgIdle EXCEPT !.pc = "cleanup", !.kind = "merge"],
           Fit(db'.current, disk'.tables), Fit(disk'.manifest.version, disk'.tables)
    PROVE  LevelsInv'
<1>1. CASE bg' = BgIdle
  BY <1>1, LevelsAtRest
<1>2. CASE bg' = [BgIdle EXCEPT !.pc = "cleanup", !.kind = "merge"]
  <2>1. bg'.pc = "cleanup" /\ bg'.kind = "merge" /\ bg'.c = NoCompaction /\ bg'.made = BgIdle.made
    BY <1>2 DEF BgIdle
  <2>2. ~Merging' /\ DOMAIN bg'.made = {}
    BY <2>1, IdleMerges DEF Merging
  <2> QED
    BY <2>1, <2>2 DEF LevelsInv, Fit, MergeOK, FlushOK, MoveOK, MergeEditOK, CopiesInManifest, EditMayCome
<1> QED
  BY <1>1, <1>2

\* A merge that goes on, whatever else the step does.
LEMMA MergeStays ==
    ASSUME MergeOK, bg'.c = bg.c, bg'.made = bg.made, bg'.todo = bg.todo,
           db'.current = db.current, bg'.pc # "idle", bg'.pc = "merge" => Merging,
           bg'.pc = "log" => bg'.kind \in {"flush", "move", "merge"},
           \A n \in Made : n \in DOMAIN disk'.tables => n \in DOMAIN disk.tables /\ disk'.tables[n] = disk.tables[n]
    PROVE  MergeOK'
<1>1. /\ Merging' <=> Merging
      /\ Inputs' = Inputs /\ OthersBelow' = OthersBelow /\ Ranges' = Ranges
  BY DEF Merging, Inputs, OthersBelow, Ranges
<1>2. \A r : RangeOK(r)' <=> RangeOK(r)
  BY <1>1 DEF RangeOK
<1>3. ASSUME NEW i \in DOMAIN bg.made PROVE FileOK(bg.made[i], disk'.tables)
  <2>1. bg.made[i].num \in Made /\ FileOK(bg.made[i], disk.tables)
    BY <1>3 DEF MergeOK, Made
  <2> QED
    BY <2>1, FilesStayOK
<1> QED
  BY <1>1, <1>2, <1>3 DEF MergeOK

\* So the levels stay what they are while no edit is there and the manifest names copies.
LEMMA LevelsGoOn ==
    ASSUME MergeOK, bg'.c = bg.c, bg'.made = bg.made, bg'.todo = bg.todo,
           db'.current = db.current, bg'.pc \notin {"idle", "log"}, bg'.pc = "merge" => Merging,
           \A n \in Made : n \in DOMAIN disk'.tables => n \in DOMAIN disk.tables /\ disk'.tables[n] = disk.tables[n],
           Fit(db.current, disk'.tables), Fit(disk'.manifest.version, disk'.tables),
           db'.imm = db.imm, db'.memtables = db.memtables,
           \A l \in Levels \ {0} : \A f \in disk'.manifest.version[l] : CopyOf(l, f)
    PROVE  LevelsInv'
<1>1. MergeOK'
  BY MergeStays
<1>2. ImmEntries' = ImmEntries /\ ImmRange' = ImmRange /\ FlushLevel' = FlushLevel /\ (Merging' <=> Merging)
  BY DEF ImmEntries, ImmRange, FlushLevel, Merging
<1>3. \A l, f : CopyOf(l, f) => CopyOf(l, f)'
  BY <1>2 DEF CopyOf
<1>4. CopiesInManifest'
  BY <1>3 DEF CopiesInManifest
<1> QED
  BY <1>1, <1>4 DEF LevelsInv, Fit, FlushOK, MoveOK, MergeEditOK

\* The end of a task that leaves the current version as it is.
LEMMA LevelsTaskEnds ==
    ASSUME CrashInv, LevelsInv, Background, db.up = "open",
           NEW d, DOMAIN d = DOMAIN Closed, Resume(d) \/ EndBackground(d), d.imm = db.imm,
           d.current = db.current, bg.pc # "idle" \/ EndBackground(d),
           \/ disk' = disk \/ disk' = WithoutObsolete(disk)
           \/ bg.pc = "log" /\ disk' = ToManifest(bg.edit)
    PROVE  LevelsInv'
<1>0. Shape /\ NothingBeforeOpen /\ NamesFiles /\ KeepsLogs
  BY DEF CrashInv, LogsInv, FilesInv, NamesFiles, KeepsLogs
<1>1. db'.current = db.current /\ db'.imm = db.imm /\ db'.memtables = db.memtables
  BY <1>0, AfterTask, BackgroundFrame
<1>2. /\ \A n \in DOMAIN disk'.tables : n \in DOMAIN disk.tables /\ disk'.tables[n] = disk.tables[n]
      /\ \/ disk'.manifest = disk.manifest
         \/ /\ bg.pc = "log" /\ disk'.tables = disk.tables
            /\ disk'.manifest.version = Apply(disk.manifest.version, bg.edit)
  <2>1. CASE disk' = disk \/ disk' = WithoutObsolete(disk)
    BY <1>0, <2>1, ObsoleteIsNotNamed
  <2>2. CASE bg.pc = "log" /\ disk' = ToManifest(bg.edit)
    BY <1>0, <2>2, Fields DEF ToManifest, Shape, Logged
  <2> QED
    BY <2>1, <2>2
<1>3. Fit(db.current, disk.tables) /\ Fit(disk.manifest.version, disk.tables)
  BY DEF LevelsInv, Fit
<1>4. Fit(disk'.manifest.version, disk'.tables) /\ Fit(db.current, disk'.tables)
  <2>1. bg.pc = "log" => Fit(Apply(disk.manifest.version, bg.edit), disk.tables)
    BY <1>0, EditFits DEF KeepsLogs
  <2>2. \A v : Fit(v, disk.tables) => Fit(v, disk'.tables)
    BY <1>2, FitStays
  <2> QED
    BY <1>2, <1>3, <2>1, <2>2
<1>5. CASE EndBackground(d)
  <2>1. bg' = BgIdle
    BY <1>5 DEF EndBackground
  <2> QED
    BY <1>1, <1>4, <2>1, LevelsDone
<1>6. CASE ~EndBackground(d)
  <2>1. /\ bg.kind = "flush" /\ Merging /\ bg.pc # "idle"
        /\ bg' = [bg EXCEPT !.pc = "merge", !.num = 0, !.edit = NoEdit]
    BY <1>6 DEF Resume, Merging
  <2>2. /\ bg'.pc = "merge" /\ bg'.c = bg.c /\ bg'.made = bg.made /\ bg'.todo = bg.todo
    BY <1>0, <2>1, Fields DEF Shape
  <2>3. \A l \in Levels \ {0} : \A f \in disk.manifest.version[l] : CopyOf(l, f)
    BY <2>1 DEF LevelsInv, CopiesInManifest, EditMayCome
  <2>4. ASSUME bg.pc = "log", NEW l \in Levels \ {0},
               NEW f \in Apply(disk.manifest.version, bg.edit)[l]
        PROVE  CopyOf(l, f)
    <3>1. f \in disk.manifest.version[l] \/ <<l, f>> \in bg.edit.added
      BY <2>4 DEF Apply
    <3>2. CASE <<l, f>> \in bg.edit.added
      <4>1. l = FlushLevel /\ SameRange(f, ImmRange) /\ ImmEntries # {}
        BY <2>1, <2>4, <3>2 DEF LevelsInv, FlushOK
      <4>2. db.imm # {}
        BY <1>0, <2>1, <2>4 DEF KeepsLogs, EditsKeepLogs
      <4> QED
        BY <4>1, <4>2 DEF CopyOf
    <3> QED
      BY <2>3, <3>1, <3>2
  <2>5. \A l \in Levels \ {0} : \A f \in disk'.manifest.version[l] : CopyOf(l, f)
    BY <1>2, <2>3, <2>4
  <2>6. MergeOK
    BY DEF LevelsInv
  <2> QED
    BY <1>1, <1>2, <1>4, <2>1, <2>2, <2>5, <2>6, LevelsGoOn
<1> QED
  BY <1>5, <1>6

\* A flush begins: the manifest names the files of the current version, or copies.
LEMMA LevelsBeginFlush ==
    ASSUME CrashInv, LevelsInv, BeginCompactMemTable
    PROVE  LevelsInv'
<1>0. Shape /\ NamesFiles
  BY DEF CrashInv, LogsInv, FilesInv, NamesFiles
<1>a. DOMAIN db = DOMAIN Closed /\ DOMAIN bg = DOMAIN BgIdle
  BY <1>0 DEF Shape
<1>1. /\ \E n : bg' = [bg EXCEPT !.pc = "build", !.kind = "flush", !.num = n]
      /\ \E n, s : db' = [db EXCEPT !.nextFile = n, !.pending = s]
      /\ UNCHANGED disk /\ db.up = "open"
      /\ (bg.pc = "idle" /\ ~db.bgError) \/ bg.pc = "merge"
  BY DEF BeginCompactMemTable, Open
<1>2. /\ bg'.c = bg.c /\ bg'.todo = bg.todo /\ bg'.made = bg.made /\ bg'.pc = "build"
      /\ db'.current = db.current /\ db'.imm = db.imm /\ db'.memtables = db.memtables
  BY <1>a, <1>1, Fields
<1>3. \A l \in Levels \ {0} : \A f \in disk.manifest.version[l] : CopyOf(l, f)
  <2>1. CASE bg.pc = "merge"
    <3>1. EditMayCome
      BY <1>1, <2>1 DEF EditMayCome
    <3> QED
      BY <3>1 DEF LevelsInv, CopiesInManifest
  <2>2. CASE bg.pc = "idle" /\ ~db.bgError
    <3>1. db.current = disk.manifest.version
      BY <1>0, <1>1, <2>2 DEF NamesFiles, VersionsNameFiles
    <3> QED
      BY <3>1 DEF CopyOf
  <2> QED
    BY <1>1, <2>1, <2>2
<1>4. MergeOK /\ Fit(db.current, disk.tables) /\ Fit(disk.manifest.version, disk.tables)
  BY DEF LevelsInv, Fit
<1>5. disk' = disk
  BY <1>1
<1> QED
  BY <1>2, <1>3, <1>4, <1>5, LevelsGoOn

\* The table of a memtable holds what its description says, on the level picked.
LEMMA LevelsBuild ==
    ASSUME CrashInv, EntriesInv, NumbersInv, LevelsInv, BuildTable
    PROVE  LevelsInv'
<1>0. Shape /\ NamesFiles /\ LogsExist /\ EditsKeepLogs /\ LogsOK
  BY DEF CrashInv, LogsInv, FilesInv, NamesFiles
<1>a. DOMAIN db = DOMAIN Closed /\ DOMAIN disk = {"tables", "logs", "manifest"}
      /\ DOMAIN bg = DOMAIN BgIdle
  BY <1>0, Fields DEF Shape
<1> DEFINE E == ImmEntries
           x == bg.num
           y == FlushLevel
<1>1. /\ bg.pc = "build" /\ db.up = "open" /\ bg.kind = "flush"
      /\ disk' = IF E = {} THEN disk ELSE [disk EXCEPT !.tables = With(@, x, E)]
      /\ bg' = [bg EXCEPT !.pc = "log", !.edit = FlushEdit(IF E = {} THEN {} ELSE {<<y, Meta(x, E)>>})]
      /\ \E s : db' = [db EXCEPT !.pending = s]
  BY <1>0 DEF BuildTable, Open, ImmEntries, ImmRange, FlushLevel, RangeOf, Meta, EditsKeepLogs
<1> DEFINE m == Meta(x, E)
<1>2. m.num = x /\ SameRange(m, ImmRange)
  BY DEF Meta, SameRange, ImmRange, RangeOf
<1>3. E # {} => E \in TableContents /\ Lined(E)
  <2>1. E \in MemContents
    BY <1>0, <1>1, FlushedMemtables DEF ImmEntries
  <2>2. E \subseteq Written
    BY <1>0, <1>1, WrittenAreEntries DEF Written
  <2>3. Lined(E)
    BY <2>1, <2>2, NumberedAreLined DEF NumbersInv, NoNumberTwice
  <2> QED
    BY <2>1, <2>3 DEF TableContents
<1> HIDE DEF E, m, y
<1>4. /\ bg'.pc = "log" /\ bg'.kind = "flush" /\ bg'.c = bg.c /\ bg'.made = bg.made /\ bg'.todo = bg.todo
      /\ bg'.edit = FlushEdit(IF E = {} THEN {} ELSE {<<y, m>>})
      /\ db'.current = db.current /\ db'.imm = db.imm /\ db'.memtables = db.memtables
      /\ db'.up = "open"
      /\ disk'.manifest = disk.manifest
      /\ disk'.tables = IF E = {} THEN disk.tables ELSE With(disk.tables, x, E)
  BY <1>a, <1>1, Fields DEF m
<1>5. bg'.edit.deleted = {} /\ bg'.edit.added = IF E = {} THEN {} ELSE {<<y, m>>}
  BY <1>4 DEF FlushEdit, Edit
<1>6. /\ \A n : n # x /\ n \in DOMAIN disk'.tables => n \in DOMAIN disk.tables /\ disk'.tables[n] = disk.tables[n]
      /\ E # {} => disk'.tables[x] = E
  BY <1>4 DEF With, Overlay
<1>7. x \notin Numbers(db.current) /\ x \notin Numbers(disk.manifest.version) /\ x \notin Made
  BY <1>0, <1>1 DEF NamesFiles, BackgroundNamesFiles
<1>8. /\ ImmEntries' = E /\ ImmRange' = ImmRange /\ FlushLevel' = y /\ (Merging' <=> Merging)
  BY <1>4 DEF ImmEntries, ImmRange, FlushLevel, Merging, E, y
<1>9. MergeOK'
  BY <1>4, <1>6, <1>7, MergeStays DEF LevelsInv
<1>10. FlushOK'
  <2>1. \A a \in bg'.edit.added : a[1] = y /\ SameRange(a[2], ImmRange) /\ FileOK(a[2], disk'.tables)
    <3>1. CASE E = {}
      BY <1>5, <3>1
    <3>2. CASE E # {}
      <4>1. FileOK(m, disk'.tables)
        BY <1>3, <1>6, <3>2, MetaIsOK DEF m
      <4> QED
        BY <1>2, <1>5, <3>2, <4>1
    <3> QED
      BY <3>1, <3>2
  <2>2. bg'.edit.added = {} <=> E = {}
    BY <1>5
  <2> QED
    BY <1>5, <1>8, <2>1, <2>2 DEF FlushOK
<1>11. MoveOK' /\ MergeEditOK'
  BY <1>4 DEF MoveOK, MergeEditOK
<1>12. Fit(db'.current, disk'.tables) /\ Fit(disk'.manifest.version, disk'.tables)
  <2>1. Fit(db.current, disk.tables) /\ Fit(disk.manifest.version, disk.tables)
    BY DEF LevelsInv, Fit
  <2> QED
    BY <1>4, <1>6, <1>7, <2>1, FitStays
<1>13. CopiesInManifest'
  <2>1. \A l, f : CopyOf(l, f) => CopyOf(l, f)'
    BY <1>4, <1>8 DEF CopyOf, E, y
  <2>2. EditMayCome
    BY <1>1 DEF EditMayCome
  <2> QED
    BY <1>4, <2>1, <2>2 DEF LevelsInv, CopiesInManifest
<1> QED
  BY <1>9, <1>10, <1>11, <1>12, <1>13 DEF LevelsInv, Fit

\* What a compaction is about to write is within its inputs, in order, and apart from
\* the files of the level it enters that are not among them.
LEMMA RangesToCome ==
    ASSUME NEW c, NEW E \in MemContents, Lined(E), TakesIn(c, E), VersionOK(db.current, disk.tables),
           NEW o, NEW s, o = Outputs(c, E, s), NEW p \in ToSet(o)
    PROVE  /\ RangeOf(p).smallest \in InternalKey /\ RangeOf(p).largest \in InternalKey
           /\ NotAfter(RangeOf(p).smallest, RangeOf(p).largest)
           /\ \E f, g \in c.inputs0 \cup c.inputs1 :
                  Covers(f, RangeOf(p).smallest.key) /\ Covers(g, RangeOf(p).largest.key)
           /\ \A q \in ToSet(o) : Apart(RangeOf(p), RangeOf(q)) \/ RangeOf(p) = RangeOf(q)
           /\ \A g \in db.current[c.level + 1] \ c.inputs1 : Apart(RangeOf(p), g)
<1> DEFINE K == Kept(c, E, s)
           r == RangeOf(p)
<1>1. PiecesOf(K, o) /\ K \subseteq E
  BY OutputsAreInOrder
<1> HIDE DEF K
<1>2. /\ p \in TableContents /\ Lined(p) /\ p \subseteq E
      /\ \A q \in ToSet(o) : Apart(RangeOf(p), RangeOf(q)) \/ RangeOf(p) = RangeOf(q)
  BY <1>1, PiecesAreApart
<1>3. r.smallest = KeyOf(Smallest(p)) /\ r.largest = KeyOf(Largest(p))
  BY DEF RangeOf
<1> HIDE DEF r
<1>4. /\ Ranged({r})
      /\ \E e \in p : r.smallest.key = e.key /\ r.smallest.seq = e.seq
      /\ \E e \in p : r.largest.key = e.key /\ r.largest.seq = e.seq
  BY <1>2, <1>3, RangeOfEntries
<1>5. PICK a \in p, b \in p : /\ r.smallest.key = a.key /\ r.smallest.seq = a.seq
                              /\ r.largest.key = b.key /\ r.largest.seq = b.seq
  BY <1>4
<1>6. \E f, g \in c.inputs0 \cup c.inputs1 : Covers(f, r.smallest.key) /\ Covers(g, r.largest.key)
  <2>1. \E f \in c.inputs0 \cup c.inputs1 : Covers(f, a.key)
    BY <1>2, <1>5 DEF TakesIn
  <2>2. \E f \in c.inputs0 \cup c.inputs1 : Covers(f, b.key)
    BY <1>2, <1>5 DEF TakesIn
  <2> QED
    BY <1>5, <2>1, <2>2
<1>7. \A g \in db.current[c.level + 1] \ c.inputs1 : Apart(r, g)
  <2> TAKE g \in db.current[c.level + 1] \ c.inputs1
  <2>1. (\A e \in E : Before(g.largest, e)) \/ (\A e \in E : Before(e, g.smallest))
    BY DEF TakesIn
  <2>2. Before(g.largest, a) \/ Before(b, g.smallest)
    BY <1>2, <1>5, <2>1
  <2> QED
    BY <1>5, <2>2 DEF Apart, Before
<1> QED
  BY <1>2, <1>4, <1>6, <1>7 DEF Ranged, r

\* A compaction begins.
LEMMA LevelsBeginCompaction ==
    ASSUME CrashInv, EntriesInv, NumbersInv, LevelsInv, BeginCompaction
    PROVE  LevelsInv'
<1>0. Shape /\ NamesFiles /\ FinitelyMany /\ NothingBeforeOpen /\ MergeOK
  BY DEF CrashInv, LogsInv, FilesInv, NamesFiles, LevelsInv
<1>a. DOMAIN db = DOMAIN Closed /\ DOMAIN bg = DOMAIN BgIdle
  BY <1>0 DEF Shape
<1>1. /\ db.up = "open" /\ UNCHANGED disk /\ bg = BgIdle
      /\ db.current = disk.manifest.version /\ ~Merging
  <2>1. db.up = "open" /\ UNCHANGED disk /\ bg.pc = "idle" /\ ~db.bgError
    BY DEF BeginCompaction, Open
  <2>2. db.current = disk.manifest.version /\ bg = BgIdle
    BY <1>0, <2>1 DEF NamesFiles, VersionsNameFiles, MergeOK
  <2> QED
    BY <2>1, <2>2, IdleMerges DEF Merging
<1>2. PICK p \in ToCompact(db.current, db.pointers, db.seek) :
          LET c == PickCompaction(db.current, p[1], p[2])
              E == UNION {disk.tables[f.num] : f \in c.inputs0 \cup c.inputs1}
          IN  /\ bg' = IF IsTrivialMove(c)
                       THEN [bg EXCEPT !.pc = "log", !.kind = "move",
                                !.edit = Edit({<<c.level + 1, f>> : f \in c.inputs0},
                                              {<<c.level, f.num>> : f \in c.inputs0},
                                              db.logNumber, Pointer(c))]
                       ELSE [bg EXCEPT !.pc = "merge", !.c = c,
                                !.todo = Outputs(c, E, IF Taken = {} THEN db.lastSeq
                                                       ELSE Min(Taken))]
              /\ db' = [db EXCEPT !.pointers = Overlay(@, Pointer(c))]
  BY DEF BeginCompaction
<1>3. PICK c : c = PickCompaction(db.current, p[1], p[2])
  OBVIOUS
<1> DEFINE E == UNION {disk.tables[f.num] : f \in c.inputs0 \cup c.inputs1}
           a == {<<c.level, f.num>> : f \in c.inputs0}
           b == db.logNumber
           g == Pointer(c)
           s == IF Taken = {} THEN db.lastSeq ELSE Min(Taken)
           moved == [bg EXCEPT !.pc = "log", !.kind = "move",
                               !.edit = Edit({<<c.level + 1, f>> : f \in c.inputs0}, a, b, g)]
<1>4. E \in MemContents /\ Lined(E)
  BY <1>0, <1>3, PickedIsWritten
<1>5. /\ TakesIn(c, E)
      /\ \A f : c.inputs0 = {f} /\ c.inputs1 = {} => Clear(db.current, c.level + 1, f)
  BY <1>0, <1>3, PickedIsApart DEF LevelsInv
<1>6. /\ \/ IsTrivialMove(c) /\ bg' = moved
         \/ bg' = [bg EXCEPT !.pc = "merge", !.c = c, !.todo = Outputs(c, E, s)]
      /\ \E z : db' = [db EXCEPT !.pointers = z]
  <2>1. /\ bg' = IF IsTrivialMove(c) THEN moved
                 ELSE [bg EXCEPT !.pc = "merge", !.c = c, !.todo = Outputs(c, E, s)]
        /\ db' = [db EXCEPT !.pointers = Overlay(@, Pointer(c))]
    BY <1>2, <1>3
  <2> HIDE DEF E, s, moved
  <2> QED
    BY <2>1
<1> HIDE DEF E, a, b, g, s, moved
<1>7. db'.current = db.current /\ db'.up = "open" /\ disk'.tables = disk.tables
      /\ disk'.manifest = disk.manifest
  BY <1>a, <1>1, <1>6, Fields
<1>8. VersionOK(db.current, disk.tables) /\ DisjointOrCopies(db.current)
  BY DEF LevelsInv
<1>9. CopiesInManifest'
  BY <1>1, <1>7 DEF CopiesInManifest, CopyOf
<1>10. CASE IsTrivialMove(c) /\ bg' = moved
  <2>1. /\ bg'.pc = "log" /\ bg'.kind = "move" /\ bg'.c = bg.c /\ bg'.made = bg.made /\ bg'.todo = bg.todo
        /\ bg'.edit = Edit({<<c.level + 1, f>> : f \in c.inputs0}, a, b, g)
    BY <1>a, <1>10, Fields DEF moved
  <2>2. PICK f : c.inputs0 = {f} /\ c.inputs1 = {}
    BY <1>10 DEF IsTrivialMove
  <2>3. bg'.edit.added = {<<c.level + 1, f>>}
    <3>1. bg'.edit.added = {<<c.level + 1, h>> : h \in c.inputs0}
      BY <2>1 DEF Edit
    <3> QED
      BY <2>2, <3>1
  <2>4. MergeOK'
    BY <1>0, <1>7, <2>1, MergeStays
  <2>5. MoveOK'
    <3>1. c.level \in Levels /\ f \in db.current[c.level] /\ (c.level + 1) - 1 = c.level
      BY <1>5, <2>2 DEF TakesIn, Levels
    <3>2. Clear(db.current, c.level + 1, f)
      BY <1>5, <2>2
    <3>3. ~Merging'
      BY <1>1, <2>1 DEF Merging
    <3> QED
      BY <1>1, <1>7, <2>3, <3>1, <3>2, <3>3 DEF MoveOK
  <2>6. FlushOK' /\ MergeEditOK'
    BY <2>1 DEF FlushOK, MergeEditOK
  <2> QED
    BY <1>1, <1>7, <1>8, <1>9, <2>4, <2>5, <2>6 DEF LevelsInv
<1>11. CASE bg' = [bg EXCEPT !.pc = "merge", !.c = c, !.todo = Outputs(c, E, s)]
  <2> DEFINE o == Outputs(c, E, s)
  <2>1. bg'.pc = "merge" /\ bg'.c = c /\ bg'.todo = o /\ bg'.made = BgIdle.made
    BY <1>a, <1>1, <1>11, Fields
  <2>2. DOMAIN bg'.made = {}
    BY <2>1, IdleMerges
  <2>3. Ranges' = {RangeOf(q) : q \in ToSet(o)} /\ Inputs' = c.inputs0 \cup c.inputs1
        /\ OthersBelow' = db.current[c.level + 1] \ c.inputs1
    BY <1>7, <2>1, <2>2 DEF Ranges, Inputs, OthersBelow
  <2>4. Merging'
    <3>1. c.level \in 0..NumLevels - 1
      BY <1>5 DEF TakesIn, Levels
    <3>2. c # NoCompaction
      BY <3>1 DEF NoCompaction
    <3> QED
      BY <2>1, <3>2 DEF Merging
  <2>5. \A r \in Ranges' : RangeOK(r)'
    <3> SUFFICES ASSUME NEW q \in ToSet(o) PROVE RangeOK(RangeOf(q))'
      BY <2>3
    <3>1. /\ RangeOf(q).smallest \in InternalKey /\ RangeOf(q).largest \in InternalKey
          /\ NotAfter(RangeOf(q).smallest, RangeOf(q).largest)
          /\ \E f, h \in c.inputs0 \cup c.inputs1 :
                 Covers(f, RangeOf(q).smallest.key) /\ Covers(h, RangeOf(q).largest.key)
          /\ \A q2 \in ToSet(o) : Apart(RangeOf(q), RangeOf(q2)) \/ RangeOf(q) = RangeOf(q2)
          /\ \A h \in db.current[c.level + 1] \ c.inputs1 : Apart(RangeOf(q), h)
      BY <1>4, <1>5, <1>8, RangesToCome
    <3> HIDE DEF o
    <3> QED
      BY <2>3, <3>1 DEF RangeOK
  <2>6. MergeOK'
    <3>1. /\ c.level \in Levels /\ c.level + 1 \in Levels
          /\ c.inputs0 \subseteq db.current[c.level] /\ c.inputs1 \subseteq db.current[c.level + 1]
          /\ Connected(c.inputs0 \cup c.inputs1)
      BY <1>5 DEF TakesIn
    <3> QED
      BY <1>7, <2>1, <2>2, <2>3, <2>4, <2>5, <3>1 DEF MergeOK
  <2>7. FlushOK' /\ MoveOK' /\ MergeEditOK'
    BY <2>1 DEF FlushOK, MoveOK, MergeEditOK
  <2> QED
    BY <1>1, <1>7, <1>8, <1>9, <2>6, <2>7 DEF LevelsInv
<1> QED
  BY <1>6, <1>10, <1>11

\* An output of a merge is written.
LEMMA LevelsWriteOutput ==
    ASSUME CrashInv, EntriesInv, NumbersInv, LevelsInv, WriteOutput
    PROVE  LevelsInv'
<1>0. Shape /\ NamesFiles /\ NothingBeforeOpen /\ LogsExist /\ LogsOK /\ MergeOK
  BY DEF CrashInv, LogsInv, FilesInv, NamesFiles, LevelsInv
<1>a. DOMAIN db = DOMAIN Closed /\ DOMAIN disk = {"tables", "logs", "manifest"}
      /\ DOMAIN bg = DOMAIN BgIdle
  BY <1>0, Fields DEF Shape
<1> DEFINE n == db.nextFile
           p == Head(bg.todo)
           m == Meta(n, p)
<1>1. /\ db.up = "open" /\ bg.pc = "merge" /\ bg.todo # <<>>
      /\ disk' = [disk EXCEPT !.tables = With(@, n, p)]
      /\ bg' = [bg EXCEPT !.todo = Tail(@), !.made = Append(@, m)]
      /\ \E y, s : db' = [db EXCEPT !.nextFile = y, !.pending = s]
  BY DEF WriteOutput, Open
<1>2. /\ bg'.todo = Tail(bg.todo) /\ bg'.made = Append(bg.made, m) /\ bg'.pc = "merge" /\ bg'.c = bg.c
      /\ db'.current = db.current /\ db'.imm = db.imm /\ db'.memtables = db.memtables
      /\ db'.up = "open"
      /\ disk'.tables = With(disk.tables, n, p) /\ disk'.manifest = disk.manifest
  BY <1>a, <1>1, Fields
<1>3. p \in ToSet(bg.todo) /\ ToSet(bg'.todo) \subseteq ToSet(bg.todo) /\ p \in TableContents
  <2>1. bg.todo \in Seq(TableContents)
    BY DEF EntriesInv
  <2>2. /\ Len(bg.todo) \in Nat /\ Len(bg.todo) # 0 /\ p = bg.todo[1] /\ Len(Tail(bg.todo)) = Len(bg.todo) - 1
        /\ \A i \in 1..Len(Tail(bg.todo)) : Tail(bg.todo)[i] = bg.todo[i + 1]
        /\ p \in TableContents
    BY <1>1, <2>1, LenProperties, EmptySeq, HeadTailProperties
  <2>3. DOMAIN bg.todo = 1..Len(bg.todo) /\ DOMAIN Tail(bg.todo) = 1..(Len(bg.todo) - 1)
    <3>1. Tail(bg.todo) \in Seq(TableContents)
      BY <1>1, <2>1, HeadTailProperties
    <3> QED
      BY <2>1, <2>2, <3>1, LenProperties
  <2>4. \A i \in 1..(Len(bg.todo) - 1) : i + 1 \in 1..Len(bg.todo)
    BY <2>2
  <2> HIDE DEF p, m, n
  <2>5. p \in ToSet(bg.todo)
    BY <2>2, <2>3 DEF ToSet
  <2>6. ToSet(Tail(bg.todo)) \subseteq ToSet(bg.todo)
    BY <2>2, <2>3, <2>4 DEF ToSet
  <2> QED
    BY <1>2, <2>2, <2>5, <2>6
<1> HIDE DEF p, n, m
<1>4. \A i \in DOMAIN bg'.made : (i \in DOMAIN bg.made /\ bg'.made[i] = bg.made[i]) \/ bg'.made[i] = m
  <2> DEFINE s == bg.made
  <2>1. s \in Seq(Range(s))
    BY <1>0 DEF Shape
  <2>2. s \in Seq(Range(s) \cup {m}) /\ m \in Range(s) \cup {m}
    BY <2>1
  <2> HIDE DEF s
  <2>3. /\ Len(s) \in Nat /\ DOMAIN s = 1..Len(s) /\ DOMAIN Append(s, m) = 1..(Len(s) + 1)
        /\ \A i \in 1..Len(s) : Append(s, m)[i] = s[i]
        /\ Append(s, m)[Len(s) + 1] = m
    BY <2>2, AppendProperties, LenProperties
  <2>4. \A i \in DOMAIN Append(s, m) : (i \in DOMAIN s /\ Append(s, m)[i] = s[i]) \/ Append(s, m)[i] = m
    <3> TAKE i \in DOMAIN Append(s, m)
    <3>1. i \in 1..Len(s) \/ i = Len(s) + 1
      BY <2>3
    <3> QED
      BY <2>3, <3>1
  <2> QED
    BY <1>2, <2>4 DEF s
<1>5. Lined(p)
  <2>1. UNION ToSet(bg.todo) \subseteq InTables
    BY DEF InTables
  <2>2. p \subseteq Written
    BY <1>3, <2>1 DEF Written
  <2>3. p \in MemContents
    BY <1>3 DEF TableContents
  <2> QED
    BY <2>2, <2>3, NumberedAreLined DEF NumbersInv, NoNumberTwice
<1>6. n \notin Numbers(db.current) /\ n \notin Numbers(disk.manifest.version) /\ n \notin Made
  <2>1. /\ db.nextFile \notin Below(db.nextFile) /\ Made \subseteq db.pending
        /\ Numbers(db.current) \subseteq Below(db.nextFile) /\ db.pending \subseteq Below(db.nextFile)
        /\ Numbers(disk.manifest.version) \subseteq Below(disk.manifest.nextFile)
        /\ Below(disk.manifest.nextFile) \subseteq Below(db.nextFile)
    BY <1>0, <1>1, NamesFacts DEF Below
  <2> QED
    BY <2>1 DEF n
<1>7. /\ \A k : k # n /\ k \in DOMAIN disk'.tables => k \in DOMAIN disk.tables /\ disk'.tables[k] = disk.tables[k]
      /\ disk'.tables[n] = p
  BY <1>2 DEF With, Overlay
<1>8. FileOK(m, disk'.tables)
  BY <1>3, <1>5, <1>7, MetaIsOK DEF m
<1>9. \A i \in DOMAIN bg'.made : FileOK(bg'.made[i], disk'.tables)
  <2> TAKE i \in DOMAIN bg'.made
  <2>1. CASE bg'.made[i] = m
    BY <1>8, <2>1
  <2>2. CASE i \in DOMAIN bg.made /\ bg'.made[i] = bg.made[i]
    <3>1. bg.made[i].num \in Made /\ FileOK(bg.made[i], disk.tables)
      BY <1>0, <2>2 DEF MergeOK, Made
    <3>2. FileOK(bg.made[i], disk'.tables)
      BY <1>6, <1>7, <3>1, FilesStayOK
    <3> QED
      BY <2>2, <3>2
  <2> QED
    BY <1>4, <2>1, <2>2
<1>10. Ranges' \subseteq Ranges
  <2>1. [smallest |-> m.smallest, largest |-> m.largest] = RangeOf(p)
    BY DEF m, Meta, RangeOf
  <2>2. \A i \in DOMAIN bg'.made :
            [smallest |-> bg'.made[i].smallest, largest |-> bg'.made[i].largest] \in Ranges
    <3> TAKE i \in DOMAIN bg'.made
    <3>1. CASE bg'.made[i] = m
      BY <1>3, <2>1, <3>1 DEF Ranges
    <3>2. CASE i \in DOMAIN bg.made /\ bg'.made[i] = bg.made[i]
      BY <3>2 DEF Ranges
    <3> QED
      BY <1>4, <3>1, <3>2
  <2>3. \A q \in ToSet(bg'.todo) : RangeOf(q) \in Ranges
    BY <1>3 DEF Ranges
  <2> QED
    BY <2>2, <2>3 DEF Ranges
<1>11. (Merging' <=> Merging) /\ Inputs' = Inputs /\ OthersBelow' = OthersBelow
  BY <1>2 DEF Merging, Inputs, OthersBelow
<1>12. MergeOK'
  <2>1. \A r : r \in Ranges' /\ RangeOK(r) => RangeOK(r)'
    BY <1>10, <1>11 DEF RangeOK
  <2>2. Merging => \A r \in Ranges' : RangeOK(r)'
    BY <1>0, <1>10, <2>1 DEF MergeOK
  <2>3. Merging
    BY <1>0, <1>1 DEF MergeOK
  <2> QED
    BY <1>0, <1>2, <1>9, <1>11, <2>2, <2>3 DEF MergeOK
<1>13. Fit(db'.current, disk'.tables) /\ Fit(disk'.manifest.version, disk'.tables)
  <2>1. Fit(db.current, disk.tables) /\ Fit(disk.manifest.version, disk.tables)
    BY DEF LevelsInv, Fit
  <2> QED
    BY <1>2, <1>6, <1>7, <2>1, FitStays
<1>14. CopiesInManifest'
  <2>1. ImmEntries' = ImmEntries /\ ImmRange' = ImmRange /\ FlushLevel' = FlushLevel
    BY <1>2 DEF ImmEntries, ImmRange, FlushLevel
  <2>2. \A l, f : CopyOf(l, f) => CopyOf(l, f)'
    BY <1>2, <1>11, <2>1 DEF CopyOf
  <2>3. EditMayCome
    BY <1>1 DEF EditMayCome
  <2> QED
    BY <1>2, <2>2, <2>3 DEF LevelsInv, CopiesInManifest
<1> QED
  BY <1>2, <1>12, <1>13, <1>14 DEF LevelsInv, Fit, FlushOK, MoveOK, MergeEditOK

\* The edit of a merge.
LEMMA LevelsEndMerge ==
    ASSUME CrashInv, LevelsInv, EndMerge
    PROVE  LevelsInv'
<1>0. Shape /\ MergeOK
  BY DEF CrashInv, LogsInv, FilesInv, LevelsInv
<1>a. DOMAIN bg = DOMAIN BgIdle
  BY <1>0 DEF Shape
<1> DEFINE added == {<<bg.c.level + 1, bg.made[i]>> : i \in DOMAIN bg.made}
           deleted == {<<bg.c.level, f.num>> : f \in bg.c.inputs0}
                        \cup {<<bg.c.level + 1, f.num>> : f \in bg.c.inputs1}
           e == Edit(added, deleted, db.logNumber, Pointer(bg.c))
<1>1. /\ UNCHANGED <<disk, db>> /\ bg.pc = "merge" /\ db.up = "open"
      /\ bg' = [bg EXCEPT !.pc = "log", !.kind = "merge", !.edit = e]
  BY DEF EndMerge, Open
<1>2. /\ e.added = added /\ e.deleted = deleted
  BY DEF Edit
<1>3. \A f \in bg.c.inputs1 : <<bg.c.level + 1, f.num>> \in deleted
  OBVIOUS
<1> HIDE DEF e, deleted
<1>4. /\ bg'.todo = bg.todo /\ bg'.made = bg.made /\ bg'.pc = "log" /\ bg'.kind = "merge"
      /\ bg'.c = bg.c /\ bg'.edit = e
  BY <1>a, <1>1, Fields
<1>5. Merging /\ Merging'
  BY <1>0, <1>1, <1>4 DEF MergeOK, Merging
<1>6. MergeOK'
  BY <1>0, <1>1, <1>4, MergeStays
<1>7. MergeEditOK'
  BY <1>2, <1>3, <1>4, <1>5 DEF MergeEditOK
<1>8. CopiesInManifest'
  <2>1. ImmEntries' = ImmEntries /\ ImmRange' = ImmRange /\ FlushLevel' = FlushLevel
    BY <1>1 DEF ImmEntries, ImmRange, FlushLevel
  <2>2. \A l, f : CopyOf(l, f) => CopyOf(l, f)'
    BY <1>1, <1>4, <1>5, <2>1 DEF CopyOf
  <2>3. EditMayCome
    BY <1>1 DEF EditMayCome
  <2> QED
    BY <1>1, <2>2, <2>3 DEF LevelsInv, CopiesInManifest
<1>9. FlushOK' /\ MoveOK'
  BY <1>4 DEF FlushOK, MoveOK
<1> QED
  BY <1>1, <1>6, <1>7, <1>8, <1>9 DEF LevelsInv

\* Nothing with a range is apart from itself.
LEMMA NotApartFromItself ==
    ASSUME NEW x, Ranged({x})
    PROVE  ~Apart(x, x)
<1>1. /\ x.smallest.key \in Nat /\ x.largest.key \in Nat /\ x.smallest.seq \in Nat /\ x.largest.seq \in Nat
      /\ NotAfter(x.smallest, x.largest)
  BY KeysOfFiles DEF Ranged
<1>2. ~Before(x.largest, x.smallest)
  BY <1>1, OrderOfKeys
<1> QED
  BY <1>2 DEF Apart

\* The table of a memtable becomes part of the current version, while a merge waits.
LEMMA LevelsInstallFlush ==
    ASSUME CrashInv, LevelsInv, db.up = "open", bg.pc = "log", bg.kind = "flush",
           bg'.pc = "cleanup", bg'.kind = "flush", bg'.c = bg.c, bg'.made = bg.made, bg'.todo = bg.todo,
           db'.current = Apply(db.current, bg.edit), db'.up = "open",
           disk'.tables = disk.tables,
           disk'.manifest.version = Apply(disk.manifest.version, bg.edit)
    PROVE  LevelsInv'
<1>0. EditsKeepLogs /\ MergeOK /\ VersionOK(db.current, disk.tables)
  BY DEF CrashInv, LogsInv, LevelsInv
<1>1. Fit(db'.current, disk'.tables) /\ Fit(disk'.manifest.version, disk'.tables)
  BY <1>0, EditFits
<1>2. /\ bg.edit.deleted = {} /\ (bg.edit.added = {} <=> ImmEntries = {})
      /\ \A a \in bg.edit.added :
             /\ a[1] = FlushLevel /\ SameRange(a[2], ImmRange) /\ FileOK(a[2], disk.tables)
             /\ a \in Levels \X {a[2]}
  BY <1>0 DEF LevelsInv, FlushOK, EditsKeepLogs
<1>3. \A a \in bg.edit.added : Ranged({a[2]}) /\ a = <<FlushLevel, a[2]>> /\ FlushLevel \in Levels
  BY <1>2 DEF FileOK, Ranged
<1>4. \A v : \A l \in Levels : \A f : f \in Apply(v, bg.edit)[l] <=> f \in v[l] \/ <<l, f>> \in bg.edit.added
  <2> TAKE v
  <2> TAKE l \in Levels
  <2> TAKE f
  <2>1. Apply(v, bg.edit)[l] = {h \in v[l] : <<l, h.num>> \notin bg.edit.deleted}
                               \cup {h \in {a[2] : a \in bg.edit.added} : <<l, h>> \in bg.edit.added}
    BY DEF Apply
  <2>2. <<l, f>> \in bg.edit.added => f \in {a[2] : a \in bg.edit.added}
    OBVIOUS
  <2> QED
    BY <1>2, <2>1, <2>2
<1>5. (Merging' <=> Merging) /\ Inputs' = Inputs /\ Ranges' = Ranges
  BY DEF Merging, Inputs, Ranges
<1>6. ASSUME Merging
      PROVE  /\ bg.c.level \in Levels /\ bg.c.level + 1 \in Levels
             /\ bg.c.inputs0 \subseteq db'.current[bg.c.level]
             /\ bg.c.inputs1 \subseteq db'.current[bg.c.level + 1]
             /\ Connected(Inputs) /\ \A r \in Ranges : RangeOK(r)'
  <2>1. /\ bg.c.level \in Levels /\ bg.c.level + 1 \in Levels
        /\ bg.c.inputs0 \subseteq db.current[bg.c.level]
        /\ bg.c.inputs1 \subseteq db.current[bg.c.level + 1]
        /\ Connected(Inputs) /\ \A r \in Ranges : RangeOK(r)
    BY <1>0, <1>6 DEF MergeOK
  <2>2. ASSUME NEW r \in Ranges, NEW g \in OthersBelow'
        PROVE  Apart(r, g)
    <3>1. g \in OthersBelow \/ <<bg.c.level + 1, g>> \in bg.edit.added
      BY <1>4, <2>1 DEF OthersBelow
    <3>2. CASE g \in OthersBelow
      BY <2>1, <3>2 DEF RangeOK
    <3>3. CASE <<bg.c.level + 1, g>> \in bg.edit.added
      <4>1. FlushLevel = bg.c.level + 1 /\ SameRange(g, ImmRange) /\ Ranged({g})
        BY <1>2, <1>3, <3>3
      <4> QED
        BY <1>0, <1>6, <4>1, FlushIsApart
    <3> QED
      BY <3>1, <3>2, <3>3
  <2>3. \A r \in Ranges : RangeOK(r)'
    BY <1>5, <2>1, <2>2 DEF RangeOK
  <2> QED
    BY <1>4, <2>1, <2>3
<1>7. MergeOK'
  <2>1. \A i \in DOMAIN bg'.made : FileOK(bg'.made[i], disk'.tables)
    BY <1>0 DEF MergeOK
  <2> QED
    BY <1>5, <1>6, <2>1 DEF MergeOK
<1>8. ASSUME NEW l \in Levels, l # 0, NEW f \in disk'.manifest.version[l]
      PROVE  CopyOf(l, f)'
  <2>1. CASE f \in db'.current[l]
    BY <2>1 DEF CopyOf
  <2>2. CASE f \notin db'.current[l]
    <3>1. f \in disk.manifest.version[l]
      BY <1>4, <2>2
    <3>2. EditMayCome
      BY DEF EditMayCome
    <3>3. CopyOf(l, f)
      BY <1>8, <3>1, <3>2 DEF LevelsInv, CopiesInManifest
    <3>4. f \notin db.current[l]
      BY <1>4, <2>2
    <3>5. \/ \E g \in db.current[l] : SameRange(f, g) /\ (Merging /\ l = bg.c.level + 1 => g \notin bg.c.inputs1)
          \/ ImmEntries # {} /\ SameRange(f, ImmRange) /\ l = FlushLevel
      BY <3>3, <3>4 DEF CopyOf
    <3>6. CASE \E g \in db.current[l] : SameRange(f, g) /\ (Merging /\ l = bg.c.level + 1 => g \notin bg.c.inputs1)
      <4>1. PICK g \in db.current[l] : SameRange(f, g) /\ (Merging /\ l = bg.c.level + 1 => g \notin bg.c.inputs1)
        BY <3>6
      <4>2. g \in db'.current[l]
        BY <1>4
      <4> QED
        BY <1>5, <4>1, <4>2 DEF CopyOf
    <3>7. CASE ImmEntries # {} /\ SameRange(f, ImmRange) /\ l = FlushLevel
      <4>1. PICK a \in bg.edit.added : TRUE
        BY <1>2, <3>7
      <4>2. /\ <<l, a[2]>> \in bg.edit.added /\ SameRange(a[2], ImmRange) /\ Ranged({a[2]})
        BY <1>2, <1>3, <3>7, <4>1
      <4>3. a[2] \in db'.current[l]
        BY <1>4, <4>2
      <4>4. SameRange(f, a[2])
        BY <3>7, <4>2, ApartIs
      <4>5. a[2] \notin db.current[l]
        <5>1. a[2] \in db.current[l] => Apart(a[2], a[2])
          BY <1>0, <1>8, <3>7, <4>2, FlushedBelow
        <5> QED
          BY <4>2, <5>1, NotApartFromItself
      <4>6. Merging /\ l = bg.c.level + 1 => bg.c.inputs1 \subseteq db.current[l]
        BY <1>0 DEF MergeOK
      <4>7. Merging /\ l = bg.c.level + 1 => a[2] \notin bg.c.inputs1
        BY <4>5, <4>6
      <4> QED
        BY <1>5, <4>3, <4>4, <4>7 DEF CopyOf
    <3> QED
      BY <3>5, <3>6, <3>7
  <2> QED
    BY <2>1, <2>2
<1>9. CopiesInManifest'
  BY <1>8 DEF CopiesInManifest
<1> QED
  BY <1>1, <1>7, <1>9 DEF LevelsInv, Fit, FlushOK, MoveOK, MergeEditOK

\* The new version becomes current.
LEMMA LevelsInstall ==
    ASSUME CrashInv, LevelsInv, InstallVersion
    PROVE  LevelsInv'
<1>0. Shape /\ NothingBeforeOpen /\ EditsKeepLogs
  BY DEF CrashInv, LogsInv, FilesInv
<1>a. DOMAIN db = DOMAIN Closed /\ DOMAIN disk = {"tables", "logs", "manifest"}
      /\ DOMAIN bg = DOMAIN BgIdle
  BY <1>0, Fields DEF Shape
<1> DEFINE d == [db EXCEPT !.current = Apply(@, bg.edit), !.logNumber = bg.edit.log, !.seek = {}]
<1>1. DOMAIN d = DOMAIN Closed /\ d.current = Apply(db.current, bg.edit) /\ d.up = db.up
  BY <1>a, Fields
<1>2. /\ db.up = "open" /\ bg.pc = "log" /\ disk' = [disk EXCEPT !.manifest = Logged(@, bg.edit)]
      /\ \/ EndBackground(d)
         \/ /\ db' = [d EXCEPT !.imm = {}] /\ bg' = [bg EXCEPT !.pc = "cleanup"] /\ bg.kind = "flush"
         \/ db' = Unpend(d) /\ bg' = [BgIdle EXCEPT !.pc = "cleanup", !.kind = "merge"]
  BY DEF InstallVersion, Open
<1> HIDE DEF d
<1>3. disk'.tables = disk.tables /\ disk'.manifest.version = Apply(disk.manifest.version, bg.edit)
  BY <1>a, <1>2 DEF Logged
<1>4. /\ Fit(Apply(db.current, bg.edit), disk'.tables)
      /\ Fit(disk'.manifest.version, disk'.tables)
  BY <1>0, <1>2, <1>3, EditFits
<1>5. CASE EndBackground(d)
  <2>1. bg' = BgIdle
    BY <1>5 DEF EndBackground
  <2>2. db'.current = d.current
    BY <1>1, <1>5, Fields, MaybeScheduleShape DEF EndBackground
  <2> QED
    BY <1>1, <1>4, <2>1, <2>2, LevelsDone
<1>6. CASE db' = Unpend(d) /\ bg' = [BgIdle EXCEPT !.pc = "cleanup", !.kind = "merge"]
  <2>1. db'.current = d.current
    BY <1>1, <1>6, Fields DEF Unpend
  <2> QED
    BY <1>1, <1>4, <1>6, <2>1, LevelsDone
<1>7. CASE db' = [d EXCEPT !.imm = {}] /\ bg' = [bg EXCEPT !.pc = "cleanup"] /\ bg.kind = "flush"
  <2>1. db'.current = d.current /\ db'.up = "open"
    BY <1>1, <1>2, <1>7, Fields
  <2>2. /\ bg'.pc = "cleanup" /\ bg'.kind = "flush" /\ bg'.c = bg.c /\ bg'.made = bg.made
        /\ bg'.todo = bg.todo
    BY <1>a, <1>7, Fields
  <2> QED
    BY <1>1, <1>2, <1>3, <1>7, <2>1, <2>2, LevelsInstallFlush
<1> QED
  BY <1>2, <1>5, <1>6, <1>7

\* Each step of the background thread.
LEMMA LevelsBackground ==
    ASSUME CrashInv, EntriesInv, NumbersInv, LevelsInv, Background
    PROVE  LevelsInv'
<1>0. Shape /\ NothingBeforeOpen
  BY DEF CrashInv, LogsInv, FilesInv
<1>a. DOMAIN db = DOMAIN Closed
  BY <1>0 DEF Shape
<1>1. db.up = "open"
  BY <1>0, BackgroundFrame
<1>2. CASE BackgroundAfterError
  <2>1. EndBackground(db) /\ disk' = disk
    BY <1>2 DEF BackgroundAfterError
  <2> QED
    BY <1>a, <1>1, <2>1, LevelsTaskEnds
<1>3. CASE BackgroundError
  <2> DEFINE d == [db EXCEPT !.bgError = TRUE, !.pending = @ \ {bg.num}]
  <2>1. DOMAIN d = DOMAIN Closed /\ d.imm = db.imm /\ d.current = db.current
    BY <1>a, Fields
  <2>2. /\ disk' = disk \/ (bg.pc = "log" /\ disk' = ToManifest(bg.edit))
        /\ EndBackground(Unpend(d)) \/ Resume(d)
        /\ bg.pc # "idle"
    BY <1>3 DEF BackgroundError, ToManifest
  <2> HIDE DEF d
  <2> DEFINE u == Unpend(d)
  <2>3. DOMAIN u = DOMAIN Closed /\ u.imm = db.imm /\ u.current = db.current
    BY <2>1, Fields DEF Unpend
  <2>4. EndBackground(u) \/ Resume(d)
    BY <2>2
  <2> HIDE DEF u
  <2>5. CASE Resume(d)
    BY <1>1, <2>1, <2>2, <2>5, LevelsTaskEnds
  <2>6. CASE EndBackground(u)
    BY <1>1, <2>2, <2>3, <2>6, LevelsTaskEnds
  <2> QED
    BY <2>4, <2>5, <2>6
<1>4. CASE DeleteObsoleteFiles
  <2>1. Resume(db) /\ (disk' = disk \/ disk' = WithoutObsolete(disk)) /\ bg.pc # "idle"
    BY <1>4 DEF DeleteObsoleteFiles
  <2> QED
    BY <1>a, <1>1, <2>1, LevelsTaskEnds
<1> QED
  BY <1>2, <1>3, <1>4, LevelsBeginFlush, LevelsBuild, LevelsBeginCompaction, LevelsWriteOutput,
     LevelsEndMerge, LevelsInstall DEF Background

\* Every step.
LEMMA LevelsNext ==
    ASSUME CrashInv, EntriesInv, NumbersInv, LevelsInv, [Next]_vars
    PROVE  LevelsInv'
<1>1. CASE UNCHANGED vars
  <2>1. UNCHANGED <<disk, db, bg>>
    BY <1>1 DEF vars
  <2>2. ImmEntries' = ImmEntries
    BY <2>1 DEF ImmEntries
  <2>3. EditsKeepLogs
    BY DEF CrashInv, LogsInv
  <2> QED
    BY <2>1, <2>2, <2>3, LevelsKept DEF EditsKeepLogs
<1>2. CASE Next
  BY <1>2, LevelsWriter, LevelsReader, LevelsBackground, LevelsOpening, LevelsCrash DEF Next
<1> QED
  BY <1>1, <1>2

\* The description of every file is right, and no version, in memory or after a
\* recovery, has two files that overlap on a level below 0 and are not copies, whatever
\* edit is on its way.
THEOREM LevelsInvariant == Spec => []LevelsInv
<1>1. Init => LevelsInv
  BY LevelsInit
<1>2. CrashInv /\ EntriesInv /\ NumbersInv /\ LevelsInv /\ [Next]_vars => LevelsInv'
  BY LevelsNext
<1> QED
  BY <1>1, <1>2, CrashInvariant, EntriesInvariant, NumbersInvariant, PTL DEF Spec

\* version_set.cc:747 "Must not overlap": on the levels below 0 the files of the current
\* version, and of the one that a recovery would find, are disjoint or copies.
THEOREM OverlapsAreOfCopies == Spec => []OverlapsAreCopies
<1>1. LevelsInv => OverlapsAreCopies
  BY DEF LevelsInv, DisjointOrCopies, OverlapsAreCopies, Apart, SameRange
<1> QED
  BY <1>1, LevelsInvariant, PTL
=============================================================================
