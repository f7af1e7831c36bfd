---------------------------- MODULE LevelDBProofs ----------------------------
(***************************************************************************)
(* Proofs about leveldb, for every number of writers, readers, snapshots,  *)
(* levels and keys, and whatever the limits of files and levels are: who   *)
(* waits and who works; which file numbers are in use, which tables and    *)
(* logs are there.                                                         *)
(***************************************************************************)
EXTENDS LevelDBInvariant, FiniteSetTheorems, SequenceTheorems, WellFoundedInduction, TLAPS

-----------------------------------------------------------------------------
\* A nonempty set of natural numbers has a least element.
LEMMA LeastNat ==
    ASSUME NEW T \in SUBSET Nat, T # {}
    PROVE  \E n \in T : \A m \in T : n <= m
<1>1. \E n \in T : \A m \in T : <<m, n>> \notin OpToRel(<, Nat)
  BY NatLessThanWellFounded, WFMin
<1>2. PICK n \in T : \A m \in T : <<m, n>> \notin OpToRel(<, Nat)
  BY <1>1
<1>3. \A m \in T : n <= m
  <2>1. SUFFICES ASSUME NEW m \in T, m < n PROVE FALSE
    OBVIOUS
  <2>2. <<m, n>> \in OpToRel(<, Nat)
    BY <2>1 DEF OpToRel
  <2> QED
    BY <1>2, <2>2
<1> QED
  BY <1>3

\* A nonempty, bounded set of natural numbers has a greatest element, Max.
LEMMA MaxIsGreatest ==
    ASSUME NEW T \in SUBSET Nat, T # {}, NEW b \in Nat, \A n \in T : n <= b
    PROVE  Max(T) \in T /\ \A n \in T : Max(T) >= n
<1> DEFINE U == {b - n : n \in T}
<1>1. U \in SUBSET Nat /\ U # {}
  <2>1. \A n \in T : n \in Nat /\ n <= b
    OBVIOUS
  <2>2. \A n \in T : b - n \in Nat
    BY <2>1
  <2> QED
    BY <2>2
<1>2. PICK u \in U : \A v \in U : u <= v
  BY <1>1, LeastNat
<1>3. PICK n \in T : u = b - n
  BY <1>2
<1>4. \A m \in T : n >= m
  <2> TAKE m \in T
  <2>1. b - m \in U
    OBVIOUS
  <2>2. u <= b - m
    BY <1>2, <2>1
  <2> QED
    BY <1>3, <2>2
<1> QED
  BY <1>4 DEF Max

-----------------------------------------------------------------------------
\* The recursive LeftBy is what its definition says.
LEMMA LeftByIs ==
    \A i \in 0..Len(Earlier) :
        LeftBy[i] = IF i = 0 THEN NewDisk ELSE Flushed(LeftBy[i - 1], Earlier[i])
<1> DEFINE N == Len(Earlier)
           Is(n, g) == g = [i \in 0..n |-> IF i = 0 THEN NewDisk
                                           ELSE Flushed(g[i - 1], Earlier[i])]
           Bad == {n \in 0..N : ~\E g : Is(n, g)}
<1>1. N \in Nat
  BY LevelDBAssumption
<1>2. Bad = {}
  <2>1. SUFFICES ASSUME Bad # {} PROVE FALSE
    OBVIOUS
  <2>2. Bad \in SUBSET Nat
    BY <1>1
  <2>3. PICK n \in Bad : \A m \in Bad : n <= m
    BY <2>1, <2>2, LeastNat
  <2>4. n \in 0..N /\ ~\E g : Is(n, g)
    BY <2>3
  <2>5. CASE n = 0
    <3>1. Is(0, [i \in 0..0 |-> NewDisk])
      OBVIOUS
    <3> QED
      BY <2>4, <2>5, <3>1
  <2>6. CASE n # 0
    <3> HIDE DEF N
    <3>0. n \in Nat /\ n - 1 \in 0..N /\ ~(n <= n - 1)
      BY <2>4, <2>6, <1>1
    <3>1. n - 1 \in 0..N /\ n - 1 \notin Bad
      <4> HIDE DEF Bad
      <4> QED
        BY <3>0, <2>3
    <3>2. PICK g : Is(n - 1, g)
      BY <3>1
    <3> DEFINE h == [i \in 0..n |-> IF i = n THEN Flushed(g[n - 1], Earlier[n]) ELSE g[i]]
    <3>3. \A i \in 0..n : h[i] = IF i = 0 THEN NewDisk ELSE Flushed(h[i - 1], Earlier[i])
      <4> TAKE i \in 0..n
      <4>1. CASE i = n
        <5>1. h[i] = Flushed(g[n - 1], Earlier[n]) /\ h[i - 1] = g[n - 1]
          BY <4>1, <2>4, <2>6, <1>1
        <5> QED
          BY <5>1, <4>1, <2>6
      <4>2. CASE i # n
        <5>1. i \in 0..n - 1 /\ h[i] = g[i]
          BY <4>2, <2>4, <2>6, <1>1
        <5>2. i # 0 => i - 1 \in 0..n - 1 /\ h[i - 1] = g[i - 1]
          BY <5>1, <4>2, <2>4, <2>6, <1>1
        <5>3. g[i] = IF i = 0 THEN NewDisk ELSE Flushed(g[i - 1], Earlier[i])
          BY <3>2, <5>1
        <5> QED
          BY <5>1, <5>2, <5>3
      <4> QED
        BY <4>1, <4>2
    <3>4. h = [i \in 0..n |-> h[i]]
      OBVIOUS
    <3> HIDE DEF h
    <3>5. Is(n, h)
      BY <3>3, <3>4
    <3> QED
      BY <2>4, <3>5
  <2> QED
    BY <2>5, <2>6
<1>3. \E g : Is(N, g)
  BY <1>1, <1>2
<1>4. LeftBy = CHOOSE g : Is(N, g)
  BY DEF LeftBy
<1>5. Is(N, LeftBy)
  BY <1>3, <1>4
<1> QED
  BY <1>1, <1>5

-----------------------------------------------------------------------------
\* The numbers of a version are those of the files on its levels.
LEMMA NumberOfFile ==
    ASSUME NEW v, NEW n
    PROVE  n \in Numbers(v) <=> \E l \in Levels : \E f \in v[l] : f.num = n
BY DEF Numbers

\* Without files there are no numbers.
LEMMA NoNumbers == Numbers(NoFiles) = {}
BY DEF Numbers, NoFiles

\* What Init needs to know of the disk.
DiskOK(d) ==
    /\ DOMAIN d = DOMAIN NewDisk /\ DOMAIN d.manifest = DOMAIN NewDisk.manifest
    /\ DOMAIN d.manifest.version = Levels /\ FiniteLevels(d.manifest.version)
    /\ d.manifest.nextFile \in Nat /\ d.manifest.nextFile > 0
    /\ d.manifest.log \in Nat /\ d.manifest.log < d.manifest.nextFile /\ DOMAIN d.logs \subseteq Nat
    /\ Numbers(d.manifest.version) \subseteq Below(d.manifest.nextFile) \cap DOMAIN d.tables

\* Level 0 is a level.
LEMMA ZeroIsLevel == 0 \in Levels
BY VersionSetAssumption DEF Levels

\* Without files they are finitely many.
LEMMA FiniteNone == FiniteLevels(NoFiles)
BY FS_EmptySet DEF FiniteLevels, NoFiles

\* An empty disk is all right.
LEMMA NewDiskOK == DiskOK(NewDisk)
<1>1. DOMAIN NoFiles = Levels
  BY DEF NoFiles
<1> QED
  BY <1>1, NoNumbers, FiniteNone DEF DiskOK, NewDisk

\* An earlier session that flushes its memtable leaves the disk all right.
LEMMA FlushedOK ==
    ASSUME NEW d, DiskOK(d), NEW ops
    PROVE  DiskOK(Flushed(d, ops))
<1> DEFINE m == d.manifest
           E == InsertInto(ops, m.lastSeq + 1)
           f == Meta(m.nextFile + 1, E)
           level == PickLevelForMemTableOutput(m.version, f.smallest.key, f.largest.key)
           e == Flushed(d, ops)
<1>1. /\ DOMAIN m = {"version", "log", "flushed", "nextFile", "lastSeq", "pointers"}
      /\ DOMAIN m.version = Levels /\ FiniteLevels(m.version)
      /\ m.nextFile \in Nat /\ m.nextFile > 0
      /\ Numbers(m.version) \subseteq Below(m.nextFile) \cap DOMAIN d.tables
  BY DEF DiskOK, NewDisk
<1>2. f.num = m.nextFile + 1
  BY DEF Meta
<1>3. e = [tables |-> With(d.tables, f.num, E), logs |-> With(<<>>, m.nextFile, EmptyLog),
         manifest |-> [m EXCEPT !.version[level] = @ \cup {f}, !.log = m.nextFile,
                          !.flushed = m.nextFile, !.nextFile = @ + 2, !.lastSeq = @ + Len(ops)]]
  BY DEF Flushed
<1> HIDE DEF m, E, f, level, e
<1>4. /\ DOMAIN e = DOMAIN NewDisk /\ DOMAIN e.manifest = DOMAIN m
      /\ e.manifest.version = [m.version EXCEPT ![level] = @ \cup {f}]
      /\ e.manifest.log = m.nextFile /\ e.manifest.nextFile = m.nextFile + 2
      /\ e.tables = With(d.tables, f.num, E)
  BY <1>1, <1>3 DEF NewDisk
<1>5. \A l \in Levels : \/ e.manifest.version[l] = m.version[l]
                        \/ e.manifest.version[l] = m.version[l] \cup {f}
  BY <1>1, <1>4
<1>6. FiniteLevels(e.manifest.version)
  <2> SUFFICES ASSUME NEW l \in Levels PROVE IsFiniteSet(e.manifest.version[l])
    BY DEF FiniteLevels
  <2>1. IsFiniteSet(m.version[l]) /\ IsFiniteSet(m.version[l] \cup {f})
    BY <1>1, FS_AddElement DEF FiniteLevels
  <2> QED
    BY <2>1, <1>5
<1>7. Numbers(e.manifest.version) \subseteq Numbers(m.version) \cup {f.num}
  BY <1>5, NumberOfFile
<1>8. DOMAIN e.tables = {f.num} \cup DOMAIN d.tables
  BY <1>4 DEF With, Overlay
<1>9. Numbers(e.manifest.version) \subseteq Below(e.manifest.nextFile) \cap DOMAIN e.tables
  BY <1>1, <1>2, <1>4, <1>7, <1>8 DEF Below
<1>10. DOMAIN e.manifest.version = Levels
  BY <1>1, <1>4
<1>11. DOMAIN m = DOMAIN NewDisk.manifest
  BY <1>1 DEF NewDisk
<1>12. /\ e.manifest.nextFile \in Nat /\ e.manifest.nextFile > 0
       /\ e.manifest.log \in Nat /\ e.manifest.log < e.manifest.nextFile
  BY <1>1, <1>4
<1>13. DOMAIN e = DOMAIN NewDisk /\ DOMAIN e.manifest = DOMAIN NewDisk.manifest
  BY <1>4, <1>11
<1>15. e.logs = With(<<>>, m.nextFile, EmptyLog)
  BY <1>3
<1>16. DOMAIN e.logs \subseteq Nat
  BY <1>1, <1>15 DEF With, Overlay
<1>14. DiskOK(e)
  BY <1>6, <1>9, <1>10, <1>12, <1>13, <1>16, Zenon DEF DiskOK
<1> QED
  BY <1>14 DEF e

\* Whatever the earlier sessions wrote, they leave the disk all right.
LEMMA LeftByOK == DiskOK(LeftBy[Len(Earlier)])
<1> DEFINE N == Len(Earlier)
           Bad == {i \in 0..N : ~DiskOK(LeftBy[i])}
<1>1. N \in Nat
  BY LevelDBAssumption
<1> HIDE DEF N
<1>2. Bad = {}
  <2>1. SUFFICES ASSUME Bad # {} PROVE FALSE
    OBVIOUS
  <2>2. Bad \in SUBSET Nat
    BY <1>1
  <2>3. PICK n \in Bad : \A i \in Bad : n <= i
    BY <2>1, <2>2, LeastNat
  <2>4. n \in 0..N /\ ~DiskOK(LeftBy[n])
    BY <2>3
  <2>5. LeftBy[n] = IF n = 0 THEN NewDisk ELSE Flushed(LeftBy[n - 1], Earlier[n])
    BY <2>4, LeftByIs DEF N
  <2>6. n # 0
    BY <2>4, <2>5, NewDiskOK
  <2>7. n \in Nat /\ n - 1 \in 0..N /\ ~(n <= n - 1)
    BY <2>4, <2>6, <1>1
  <2>8. n - 1 \in Bad => n <= n - 1
    BY <2>3
  <2>9. DiskOK(LeftBy[n - 1])
    BY <2>7, <2>8
  <2> QED
    BY <2>4, <2>5, <2>6, <2>9, FlushedOK
<1>3. DiskOK(LeftBy[N])
  BY <1>1, <1>2
<1> QED
  BY <1>3 DEF N

-----------------------------------------------------------------------------
\* The fields of the records.
LEMMA Fields ==
    /\ DOMAIN NewDisk = {"tables", "logs", "manifest"}
    /\ DOMAIN Closed = {"up", "replay", "lastSeq", "nextFile", "log", "imm", "memtables",
                        "logNumber", "current", "pointers", "seek", "pending", "snapshots",
                        "bgError", "scheduled", "manual"}
    /\ DOMAIN BgIdle = {"pc", "c", "kind", "num", "todo", "made", "edit"}
    /\ DOMAIN Idle = {"pc", "ops", "sync"}
    /\ DOMAIN NoReplay = {"logs", "pos", "mem"}
BY DEF NewDisk, Closed, BgIdle, Idle, NoReplay

\* A sequence that grows by one is still a sequence.
LEMMA MadeGrows ==
    ASSUME NEW s, s \in Seq(Range(s)), NEW x
    PROVE  Append(s, x) \in Seq(Range(Append(s, x)))
<1>1. s \in Seq(Range(s) \cup {x})
  BY SeqMonotonic
<1> QED
  BY <1>1, AppendProperties, SeqOfRange

\* The idle background thread has made nothing.
LEMMA NothingMade == BgIdle.made \in Seq(Range(BgIdle.made))
BY EmptySeq DEF BgIdle

\* Init has the shape.
LEMMA ShapeInit == Init => Shape /\ NothingBeforeOpen
<1> SUFFICES ASSUME Init PROVE Shape /\ NothingBeforeOpen
  OBVIOUS
<1>1. DOMAIN disk = DOMAIN NewDisk
  BY LeftByOK DEF Init, DiskOK
<1>2. DOMAIN db = DOMAIN Closed /\ DOMAIN bg = DOMAIN BgIdle /\ DOMAIN writer = Writers
  BY DEF Init
<1>3. \A w \in Writers : DOMAIN writer[w] = DOMAIN Idle /\ writer[w].pc = "idle"
  BY DEF Init, Idle
<1>4. DOMAIN reader = Readers
  BY DEF Init
<1>5. /\ db.scheduled = FALSE /\ db.bgError = FALSE /\ db.manual = FALSE /\ db.imm = {}
      /\ db.seek = {} /\ db.replay = NoReplay
  BY DEF Init, Closed
<1>6. bg = BgIdle /\ db = Closed
  BY DEF Init
<1> QED
  BY <1>1, <1>2, <1>3, <1>4, <1>5, <1>6, NothingMade DEF Shape, NothingBeforeOpen

\* MaybeScheduleCompaction changes the one field.
LEMMA MaybeScheduleShape ==
    ASSUME NEW d, DOMAIN d = DOMAIN Closed
    PROVE  /\ DOMAIN MaybeSchedule(d) = DOMAIN Closed
           /\ \A x \in DOMAIN Closed \ {"scheduled"} : MaybeSchedule(d)[x] = d[x]
           /\ MaybeSchedule(d).scheduled <=>
                  \/ d.scheduled
                  \/ ~d.bgError /\ (\/ d.imm # {} \/ d.manual
                                    \/ SizeCompaction(d.current) \/ d.seek # {})
           /\ d.scheduled \in BOOLEAN => MaybeSchedule(d).scheduled \in BOOLEAN
BY Fields DEF MaybeSchedule

\* Waking leaves no writer waiting, and lets no other writer do anything.
LEMMA Woken ==
    ASSUME Shape
    PROVE  /\ DOMAIN Wake(writer) = Writers
           /\ \A w \in Writers : /\ DOMAIN Wake(writer)[w] = DOMAIN Idle
                                 /\ Wake(writer)[w].pc # "waiting"
                                 /\ Wake(writer)[w].pc =
                                        IF writer[w].pc = "waiting" THEN "queued" ELSE writer[w].pc
BY Fields DEF Wake, Shape

\* A step of a writer keeps the shape.
LEMMA ShapeWriter ==
    ASSUME Shape, NothingBeforeOpen, NEW w \in Writers, WriterStep(w) \/ \E b \in Batches : Write(w, b)
    PROVE  Shape' /\ NothingBeforeOpen'
<1> USE Fields DEF Shape, NothingBeforeOpen
<1>1. CASE \E b \in Batches : Write(w, b)
  BY <1>1 DEF Write, Open
<1>2. CASE WaitForRoom(w)
  BY <1>2 DEF WaitForRoom, Open
<1>3. CASE NoRoom(w)
  BY <1>3 DEF NoRoom, Open, Idle
<1>4. CASE BeginWrite(w)
  BY <1>4 DEF BeginWrite, Open, SwitchMemTable, MaybeSchedule
<1>5. CASE AppendToLog(w)
  BY <1>5 DEF AppendToLog, AtFront
<1>6. CASE Sync(w)
  BY <1>6 DEF Sync, AtFront
<1>7. CASE SyncFails(w)
  BY <1>7 DEF SyncFails, AtFront
<1>8. CASE InsertIntoMemTable(w)
  BY <1>8 DEF InsertIntoMemTable, AtFront
<1>9. CASE Publish(w)
  BY <1>9 DEF Publish, Open, Idle
<1> QED
  BY <1>1, <1>2, <1>3, <1>4, <1>5, <1>6, <1>7, <1>8, <1>9 DEF WriterStep

\* A step of a reader, or with a snapshot, keeps the shape.
LEMMA ShapeReader ==
    ASSUME Shape, NothingBeforeOpen,
           \/ \E s \in Snapshots : GetSnapshot(s) \/ ReleaseSnapshot(s)
           \/ \E r \in Readers : BeginRead(r) \/ EndRead(r)
    PROVE  Shape' /\ NothingBeforeOpen'
<1> USE Fields DEF Shape, NothingBeforeOpen
<1>1. ASSUME NEW s \in Snapshots, GetSnapshot(s) PROVE Shape' /\ NothingBeforeOpen'
  BY <1>1 DEF GetSnapshot, Open
<1>2. ASSUME NEW s \in Snapshots, ReleaseSnapshot(s) PROVE Shape' /\ NothingBeforeOpen'
  BY <1>2 DEF ReleaseSnapshot, Open
<1>3. ASSUME NEW r \in Readers, BeginRead(r) PROVE Shape' /\ NothingBeforeOpen'
  BY <1>3 DEF BeginRead, Open
<1>4. ASSUME NEW r \in Readers, EndRead(r) PROVE Shape' /\ NothingBeforeOpen'
  <2>1. /\ db.up = "open" /\ reader' = [reader EXCEPT ![r] = NotReading]
        /\ UNCHANGED <<disk, queue, writer, group, bg, history, events>>
        /\ UNCHANGED db \/ \E S : db' = MaybeSchedule([db EXCEPT !.seek = S])
    BY <1>4, Zenon DEF EndRead, Open
  <2>2. CASE UNCHANGED db
    BY <2>1, <2>2
  <2>3. ASSUME NEW S, db' = MaybeSchedule([db EXCEPT !.seek = S])
        PROVE  Shape' /\ NothingBeforeOpen'
    BY <2>1, <2>3 DEF MaybeSchedule
  <2> QED
    BY <2>1, <2>2, <2>3
<1> QED
  BY <1>1, <1>2, <1>3, <1>4

\* The end of a background task keeps the shape.
LEMMA ShapeEndBackground ==
    ASSUME Shape, NEW d, DOMAIN d = DOMAIN Closed, d.up = "open",
           d.bgError \in BOOLEAN, d.manual = FALSE, DOMAIN d.replay = DOMAIN NoReplay,
           EndBackground(d), DOMAIN disk' = DOMAIN disk, UNCHANGED reader
    PROVE  Shape' /\ NothingBeforeOpen'
<1> DEFINE b == [d EXCEPT !.scheduled = FALSE]
<1>1. /\ DOMAIN b = DOMAIN Closed /\ b.up = "open" /\ b.bgError \in BOOLEAN
      /\ b.manual = FALSE /\ b.scheduled \in BOOLEAN /\ DOMAIN b.replay = DOMAIN NoReplay
  BY Fields
<1>2. db' = MaybeSchedule(b) /\ bg' = BgIdle /\ writer' = Wake(writer)
  BY DEF EndBackground
<1> HIDE DEF b
<1>3. /\ DOMAIN db' = DOMAIN Closed /\ db'.up = "open" /\ db'.bgError \in BOOLEAN
      /\ db'.manual = FALSE /\ db'.scheduled \in BOOLEAN /\ DOMAIN db'.replay = DOMAIN NoReplay
  BY <1>1, <1>2, MaybeScheduleShape, Fields
<1>4. DOMAIN writer' = Writers /\ \A w \in Writers : DOMAIN writer'[w] = DOMAIN Idle
  BY <1>2, Woken
<1> QED
  BY <1>2, <1>3, <1>4, NothingMade DEF Shape, NothingBeforeOpen

\* A file is moved as it is, or a merge begins.
Begins(c, e, todo, pointers) ==
    /\ db' = [db EXCEPT !.pointers = pointers]
    /\ \/ /\ bg' = [bg EXCEPT !.pc = "log", !.kind = "move", !.edit = e]
          /\ \E f : c.inputs0 = {f} /\ e = Edit({<<c.level + 1, f>>}, {<<c.level, f.num>>},
                                               db.logNumber, Pointer(c))
       \/ bg' = [bg EXCEPT !.pc = "merge", !.c = c, !.todo = todo]

\* BeginCompaction does that, with what PickCompaction picks.
LEMMA CompactionBegun ==
    ASSUME BeginCompaction
    PROVE  \E p \in ToCompact(db.current, db.pointers, db.seek) : \E c, e, todo, pointers :
               c = PickCompaction(db.current, p[1], p[2]) /\ Begins(c, e, todo, pointers)
<1>1. PICK p \in ToCompact(db.current, db.pointers, db.seek) :
          LET c == PickCompaction(db.current, p[1], p[2])
              E == UNION {disk.tables[f.num] : f \in c.inputs0 \cup c.inputs1}
          IN  /\ bg' = IF IsTrivialMove(c)
                       THEN [bg EXCEPT !.pc = "log", !.kind = "move",
                                !.edit = Edit({<<c.level + 1, f>> : f \in c.inputs0},
                                              {<<c.level, f.num>> : f \in c.inputs0},
                                              db.logNumber, Pointer(c))]
                       ELSE [bg EXCEPT !.pc = "merge", !.c = c,
                                !.todo = Outputs(c, E, IF Taken = {} THEN db.lastSeq
                                                       ELSE Min(Taken))]
              /\ db' = [db EXCEPT !.pointers = Overlay(@, Pointer(c))]
  BY DEF BeginCompaction
<1>2. PICK c : c = PickCompaction(db.current, p[1], p[2])
  OBVIOUS
<1>3. CASE ~IsTrivialMove(c)
  BY <1>1, <1>2, <1>3 DEF Begins
<1>4. CASE IsTrivialMove(c)
  <2>1. PICK f : c.inputs0 = {f}
    BY <1>4 DEF IsTrivialMove
  <2>2. /\ {<<c.level + 1, g>> : g \in c.inputs0} = {<<c.level + 1, f>>}
        /\ {<<c.level, g.num>> : g \in c.inputs0} = {<<c.level, f.num>>}
    BY <2>1
  <2>3. PICK e : e = Edit({<<c.level + 1, f>>}, {<<c.level, f.num>>}, db.logNumber, Pointer(c))
    OBVIOUS
  <2>4. bg' = [bg EXCEPT !.pc = "log", !.kind = "move", !.edit = e]
    <3>1. bg' = [bg EXCEPT !.pc = "log", !.kind = "move",
                           !.edit = Edit({<<c.level + 1, g>> : g \in c.inputs0},
                                         {<<c.level, g.num>> : g \in c.inputs0},
                                         db.logNumber, Pointer(c))]
      BY <1>1, <1>2, <1>4
    <3> QED
      BY <2>2, <2>3, <3>1
  <2>5. db' = [db EXCEPT !.pointers = Overlay(@, Pointer(c))]
    BY <1>1, <1>2
  <2>6. Begins(c, e, <<>>, Overlay(db.pointers, Pointer(c)))
    BY <2>1, <2>3, <2>4, <2>5 DEF Begins
  <2> QED
    BY <1>2, <2>6
<1> QED
  BY <1>3, <1>4

\* A step of the background thread keeps the shape.
LEMMA ShapeBackground ==
    ASSUME Shape, NothingBeforeOpen, Background
    PROVE  Shape' /\ NothingBeforeOpen'
<1>1. CASE BackgroundAfterError
  BY <1>1, ShapeEndBackground DEF BackgroundAfterError, Open, Shape
<1>2. CASE BeginCompactMemTable
  BY <1>2, Fields DEF BeginCompactMemTable, Open, Shape, NothingBeforeOpen
<1>3. CASE BuildTable
  BY <1>3, Fields DEF BuildTable, Open, Shape, NothingBeforeOpen
<1>4. CASE BeginCompaction
  <2>1. /\ db.up = "open" /\ UNCHANGED <<disk, queue, writer, group, reader, history, events>>
    BY <1>4, Zenon DEF BeginCompaction, Open
  <2>2. PICK c, e, todo, pointers : Begins(c, e, todo, pointers)
    BY <1>4, CompactionBegun
  <2>3. DOMAIN bg' = DOMAIN bg /\ bg'.made = bg.made
    BY <2>2, Fields DEF Shape, Begins
  <2>4. /\ DOMAIN db' = DOMAIN db /\ db'.up = "open" /\ db'.scheduled = db.scheduled
        /\ db'.bgError = db.bgError /\ db'.manual = db.manual /\ db'.replay = db.replay
    BY <2>1, <2>2, Fields DEF Shape, Begins
  <2> QED
    BY <2>1, <2>3, <2>4 DEF Shape, NothingBeforeOpen
<1>5. CASE WriteOutput
  BY <1>5, Fields, MadeGrows DEF WriteOutput, Open, Shape, NothingBeforeOpen
<1>6. CASE EndMerge
  BY <1>6, Fields DEF EndMerge, Open, Shape, NothingBeforeOpen
<1>7. CASE InstallVersion
  <2> DEFINE d == [db EXCEPT !.current = Apply(@, bg.edit), !.logNumber = bg.edit.log, !.seek = {}]
  <2>1. /\ DOMAIN d = DOMAIN Closed /\ d.up = "open" /\ d.bgError \in BOOLEAN
        /\ d.manual = FALSE /\ d.scheduled \in BOOLEAN /\ db.up = "open"
        /\ DOMAIN d.replay = DOMAIN NoReplay
    BY <1>7, Fields DEF InstallVersion, Open, Shape
  <2>2. DOMAIN disk' = DOMAIN disk /\ UNCHANGED reader
    BY <1>7, Fields DEF InstallVersion, Shape
  <2> HIDE DEF d
  <2>3. CASE EndBackground(d)
    BY <2>1, <2>2, <2>3, ShapeEndBackground
  <2>4. CASE db' = [d EXCEPT !.imm = {}] /\ bg' = [bg EXCEPT !.pc = "cleanup"] /\ UNCHANGED writer
    BY <2>1, <2>2, <2>4, Fields DEF Shape, NothingBeforeOpen
  <2>5. CASE db' = Unpend(d) /\ bg' = [BgIdle EXCEPT !.pc = "cleanup", !.kind = "merge"]
             /\ UNCHANGED writer
    <3>1. bg'.made = BgIdle.made /\ DOMAIN bg' = DOMAIN BgIdle
      BY <2>5, Fields
    <3> QED
      BY <2>1, <2>2, <2>5, <3>1, Fields, NothingMade DEF Shape, NothingBeforeOpen, Unpend
  <2> QED
    BY <1>7, <2>3, <2>4, <2>5 DEF InstallVersion, d
<1>8. ASSUME NEW d, DOMAIN d = DOMAIN Closed, d.up = "open", d.bgError \in BOOLEAN,
             d.manual = FALSE, d.scheduled \in BOOLEAN, Resume(d),
             DOMAIN d.replay = DOMAIN NoReplay,
             DOMAIN disk' = DOMAIN disk, UNCHANGED reader
      PROVE  Shape' /\ NothingBeforeOpen'
  <2>1. CASE EndBackground(d)
    BY <1>8, <2>1, ShapeEndBackground
  <2>2. CASE /\ bg' = [bg EXCEPT !.pc = "merge", !.num = 0, !.edit = NoEdit] /\ db' = d
             /\ writer' = Wake(writer)
    BY <1>8, <2>2, Woken, Fields DEF Shape, NothingBeforeOpen
  <2> QED
    BY <1>8, <2>1, <2>2 DEF Resume
<1>9. CASE BackgroundError
  <2> DEFINE d == [db EXCEPT !.bgError = TRUE, !.pending = @ \ {bg.num}]
  <2>1. /\ DOMAIN d = DOMAIN Closed /\ d.up = "open" /\ d.bgError \in BOOLEAN
        /\ d.manual = FALSE /\ d.scheduled \in BOOLEAN /\ DOMAIN d.replay = DOMAIN NoReplay
    BY <1>9, Fields DEF BackgroundError, Open, Shape
  <2>2. DOMAIN disk' = DOMAIN disk /\ UNCHANGED reader
    BY <1>9, Fields DEF BackgroundError, Shape
  <2>3. EndBackground(Unpend(d)) \/ Resume(d)
    BY <1>9 DEF BackgroundError
  <2> HIDE DEF d
  <2>4. /\ DOMAIN Unpend(d) = DOMAIN Closed /\ Unpend(d).up = "open"
        /\ Unpend(d).bgError \in BOOLEAN /\ Unpend(d).manual = FALSE
        /\ DOMAIN Unpend(d).replay = DOMAIN NoReplay
    BY <2>1, Fields DEF Unpend
  <2> QED
    BY <2>1, <2>2, <2>3, <2>4, <1>8, ShapeEndBackground
<1>10. CASE DeleteObsoleteFiles
  <2>1. DOMAIN disk' = DOMAIN disk /\ UNCHANGED reader /\ Resume(db)
    BY <1>10, Fields DEF DeleteObsoleteFiles, WithoutObsolete, Shape
  <2>2. db.up = "open"
    BY <1>10, Fields DEF DeleteObsoleteFiles, NothingBeforeOpen, BgIdle
  <2> QED
    BY <2>1, <2>2, <1>8 DEF Shape
<1> QED
  BY <1>1, <1>2, <1>3, <1>4, <1>5, <1>6, <1>7, <1>9, <1>10 DEF Background

\* What a step of RecoverLogFile changes: a table may be written.
LEMMA ReplayDoes ==
    ASSUME Shape, ReplayRecord \/ EndOfLog
    PROVE  /\ db.up = "replaying" /\ UNCHANGED <<queue, writer, group, reader, bg, history, events>>
           /\ DOMAIN db' = DOMAIN Closed /\ DOMAIN db'.replay = DOMAIN NoReplay
           /\ \A x \in DOMAIN Closed \ {"replay", "lastSeq", "nextFile", "pending"} :
                  db'[x] = db[x]
           /\ db'.replay.logs \in {db.replay.logs, db.replay.logs \ {OldestLog}}
           /\ \E next \in {db.nextFile, Max({db.nextFile, OldestLog + 1})} :
                  /\ next # db.nextFile => db.replay.logs # {}
                  /\ \/ UNCHANGED disk /\ db'.pending = db.pending /\ db'.nextFile = next
                     \/ /\ \E mem : disk' = [disk EXCEPT !.tables = With(@, db.nextFile, mem)]
                        /\ db'.pending = db.pending \cup {db.nextFile}
                        /\ db'.nextFile = Max({next, db.nextFile + 1})
<1> USE Fields DEF Shape
<1> DEFINE Do(next, logs) ==
             /\ DOMAIN db' = DOMAIN Closed /\ DOMAIN db'.replay = DOMAIN NoReplay
             /\ \A x \in DOMAIN Closed \ {"replay", "lastSeq", "nextFile", "pending"} :
                    db'[x] = db[x]
             /\ db'.replay.logs = logs
             /\ \/ UNCHANGED disk /\ db'.pending = db.pending /\ db'.nextFile = next
                \/ /\ \E mem : disk' = [disk EXCEPT !.tables = With(@, db.nextFile, mem)]
                   /\ db'.pending = db.pending \cup {db.nextFile}
                   /\ db'.nextFile = Max({next, db.nextFile + 1})
<1>1. ASSUME NEW mem, NEW d, NEW next, NEW logs, DOMAIN d = DOMAIN Closed,
             \A x \in DOMAIN Closed \ {"replay", "lastSeq", "nextFile"} : d[x] = db[x],
             d.nextFile = next, d.replay.logs = logs, DOMAIN d.replay = DOMAIN NoReplay,
             WriteReplayed(mem, d)
      PROVE  Do(next, logs)
  <2>1. /\ disk' = [disk EXCEPT !.tables = With(@, db.nextFile, mem)]
        /\ db' = [d EXCEPT !.nextFile = Max({@, db.nextFile + 1}),
                           !.pending = @ \cup {db.nextFile}, !.replay.mem = {}]
    BY <1>1 DEF WriteReplayed
  <2>2. DOMAIN db' = DOMAIN Closed /\ DOMAIN db'.replay = DOMAIN NoReplay
    BY <1>1, <2>1
  <2>3. \A x \in DOMAIN Closed \ {"replay", "lastSeq", "nextFile", "pending"} : db'[x] = db[x]
    BY <1>1, <2>1
  <2>4. db'.replay.logs = logs
    BY <1>1, <2>1
  <2>5. db'.pending = db.pending \cup {db.nextFile} /\ db'.nextFile = Max({next, db.nextFile + 1})
    BY <1>1, <2>1
  <2> QED
    BY <2>1, <2>2, <2>3, <2>4, <2>5
<1>2. CASE ReplayRecord
  <2> DEFINE r == disk.logs[OldestLog].records[db.replay.pos + 1]
             mem == db.replay.mem \cup InsertInto(r.ops, r.seq)
             d == [db EXCEPT !.lastSeq = Max({@, r.seq + Len(r.ops) - 1}), !.replay.pos = @ + 1]
             e == [d EXCEPT !.replay.mem = mem]
  <2>1. /\ db.up = "replaying" /\ UNCHANGED <<queue, writer, group, reader, bg, history, events>>
        /\ WriteReplayed(mem, d) \/ (db' = e /\ UNCHANGED disk)
    BY <1>2 DEF ReplayRecord, Replaying
  <2>2. /\ DOMAIN d = DOMAIN Closed /\ DOMAIN e = DOMAIN Closed
        /\ \A x \in DOMAIN Closed \ {"replay", "lastSeq", "nextFile"} : d[x] = db[x] /\ e[x] = db[x]
        /\ d.nextFile = db.nextFile /\ e.nextFile = db.nextFile
    OBVIOUS
  <2>3. /\ d.replay.logs = db.replay.logs /\ e.replay.logs = db.replay.logs
        /\ DOMAIN d.replay = DOMAIN NoReplay /\ DOMAIN e.replay = DOMAIN NoReplay
    OBVIOUS
  <2> HIDE DEF d, e, mem
  <2>4. CASE WriteReplayed(mem, d)
    <3>1. Do(db.nextFile, db.replay.logs)
      <4> HIDE DEF Do
      <4> QED
        BY <2>2, <2>3, <2>4, <1>1
    <3> QED
      BY <2>1, <3>1
  <2>5. CASE db' = e /\ UNCHANGED disk
    <3>1. \A x \in DOMAIN Closed \ {"replay", "lastSeq", "nextFile"} : db'[x] = db[x]
      BY <2>2, <2>5
    <3>2. DOMAIN db' = DOMAIN Closed /\ DOMAIN db'.replay = DOMAIN NoReplay
      BY <2>2, <2>3, <2>5
    <3>3. db'.replay.logs = db.replay.logs /\ db'.nextFile = db.nextFile
      BY <2>2, <2>3, <2>5
    <3>4. db'.pending = db.pending
      BY <3>1
    <3>5. Do(db.nextFile, db.replay.logs)
      BY <3>1, <3>2, <3>3, <3>4, <2>5
    <3> QED
      BY <2>1, <3>5
  <2> QED
    BY <2>1, <2>4, <2>5
<1>3. CASE EndOfLog
  <2> DEFINE n == OldestLog
             next == Max({db.nextFile, n + 1})
             d == [db EXCEPT !.nextFile = next, !.replay.logs = @ \ {n}, !.replay.pos = 0]
  <2>1. /\ db.up = "replaying" /\ UNCHANGED <<queue, writer, group, reader, bg, history, events>>
        /\ WriteReplayed(db.replay.mem, d) \/ (db' = d /\ UNCHANGED disk)
        /\ db.replay.logs # {}
    BY <1>3 DEF EndOfLog, Replaying
  <2>2. /\ DOMAIN d = DOMAIN Closed /\ d.nextFile = next
        /\ \A x \in DOMAIN Closed \ {"replay", "lastSeq", "nextFile"} : d[x] = db[x]
    OBVIOUS
  <2>3. d.replay.logs = db.replay.logs \ {n} /\ DOMAIN d.replay = DOMAIN NoReplay
    OBVIOUS
  <2> HIDE DEF d
  <2>4. CASE WriteReplayed(db.replay.mem, d)
    <3>1. Do(next, db.replay.logs \ {n})
      <4> HIDE DEF Do, next, n
      <4> QED
        BY <2>2, <2>3, <2>4, <1>1
    <3> QED
      BY <2>1, <3>1
  <2>5. CASE db' = d /\ UNCHANGED disk
    <3>1. \A x \in DOMAIN Closed \ {"replay", "lastSeq", "nextFile"} : db'[x] = db[x]
      BY <2>2, <2>5
    <3>2. DOMAIN db' = DOMAIN Closed /\ DOMAIN db'.replay = DOMAIN NoReplay
      BY <2>2, <2>3, <2>5
    <3>3. db'.replay.logs = db.replay.logs \ {n} /\ db'.nextFile = next
      BY <2>2, <2>3, <2>5
    <3>4. db'.pending = db.pending
      BY <3>1
    <3>5. Do(next, db.replay.logs \ {n})
      BY <3>1, <3>2, <3>3, <3>4, <2>5
    <3> QED
      BY <2>1, <3>5
  <2> QED
    BY <2>1, <2>4, <2>5
<1> QED
  BY <1>2, <1>3

\* A step of DB::Open keeps the shape.
LEMMA ShapeOpening ==
    ASSUME Shape, NothingBeforeOpen, Opening
    PROVE  Shape' /\ NothingBeforeOpen'
<1> USE Fields DEF Shape, NothingBeforeOpen
<1>1. CASE Recover
  BY <1>1 DEF Recover, Closed
<1>2. CASE ReplayRecord \/ EndOfLog
  BY <1>2, ReplayDoes
<1>5. CASE BeginLog
  BY <1>5 DEF BeginLog
<1>6. CASE InstallRecovered
  BY <1>6 DEF InstallRecovered
<1>7. CASE FinishOpen
  BY <1>7 DEF FinishOpen, WithoutObsolete, MaybeSchedule
<1> QED
  BY <1>1, <1>2, <1>5, <1>6, <1>7 DEF Opening

\* A crash keeps the shape.
LEMMA ShapeCrash ==
    ASSUME Shape, Crash
    PROVE  Shape' /\ NothingBeforeOpen'
<1>1. /\ db' = Closed /\ bg' = BgIdle
      /\ writer' = [w \in Writers |-> Idle] /\ reader' = [r \in Readers |-> NotReading]
  BY DEF Crash
<1>2. UNCHANGED disk \/ \E logs : disk' = [disk EXCEPT !.logs = logs]
  BY DEF Crash
<1>3. DOMAIN disk' = DOMAIN disk
  BY <1>2
<1>4. /\ db'.scheduled = FALSE /\ db'.bgError = FALSE /\ db'.manual = FALSE
      /\ db'.replay = NoReplay /\ db'.imm = {} /\ db'.seek = {} /\ db'.up = "closed"
  BY <1>1 DEF Closed
<1>5. DOMAIN writer' = Writers /\ \A w \in Writers : DOMAIN writer'[w] = DOMAIN Idle
                                                     /\ writer'[w].pc = "idle"
  BY <1>1 DEF Idle
<1> QED
  BY <1>1, <1>3, <1>4, <1>5, NothingMade DEF Shape, NothingBeforeOpen

\* Every step keeps the shape.
LEMMA ShapeNext ==
    ASSUME Shape, NothingBeforeOpen, [Next]_vars
    PROVE  Shape' /\ NothingBeforeOpen'
<1>1. CASE UNCHANGED vars
  BY <1>1 DEF vars, Shape, NothingBeforeOpen
<1>2. CASE Next
  BY <1>2, ShapeWriter, ShapeReader, ShapeBackground, ShapeOpening, ShapeCrash DEF Next
<1> QED
  BY <1>1, <1>2

-----------------------------------------------------------------------------
\* A level 0 that makes writers wait asks for a compaction.
LEMMA WaitingNeedsWork ==
    ASSUME FinitelyMany, MustWait
    PROVE  SomethingToDo
<1>1. CASE db.imm # {}
  BY <1>1 DEF SomethingToDo
<1>2. CASE Cardinality(db.current[0]) >= L0StopWritesTrigger
  <2>1. Cardinality(db.current[0]) \in Nat
    BY FS_CardinalityType, ZeroIsLevel DEF FinitelyMany, FiniteLevels
  <2>2. Cardinality(db.current[0]) >= L0CompactionTrigger
    BY <1>2, <2>1, LevelDBAssumption, VersionSetAssumption
  <2>3. 0 \in 0..NumLevels - 2 /\ Score(db.current, 0) =
            <<Cardinality(db.current[0]), L0CompactionTrigger>>
    BY VersionSetAssumption DEF Score
  <2>4. SizeCompaction(db.current)
    BY <2>2, <2>3 DEF SizeCompaction
  <2> QED
    BY <2>4 DEF SomethingToDo
<1> QED
  BY <1>1, <1>2 DEF MustWait

\* What a step must leave alone so that who is scheduled and why stays as it is.
SameWork ==
    /\ db'.up = db.up /\ db'.scheduled = db.scheduled /\ db'.bgError = db.bgError
    /\ db'.imm = db.imm /\ db'.manual = db.manual /\ db'.current = db.current
    /\ db'.seek = db.seek

\* Then, if the background thread goes on and nobody begins to wait, it does.
LEMMA SameWorkScheduled ==
    ASSUME Scheduled, SameWork, bg'.pc = "idle" <=> bg.pc = "idle",
           \A w \in Writers : writer'[w].pc = "waiting" => writer[w].pc = "waiting"
    PROVE  Scheduled'
BY DEF Scheduled, SameWork, SomethingToDo

\* After MaybeScheduleCompaction with no background work, what is scheduled has a
\* reason and every reason is scheduled.
LEMMA MaybeScheduled ==
    ASSUME NEW d, DOMAIN d = DOMAIN Closed, db' = MaybeSchedule(d)
    PROVE  /\ db'.up = d.up /\ db'.bgError = d.bgError
           /\ SomethingToDo' <=> \/ d.imm # {} \/ d.manual
                                 \/ SizeCompaction(d.current) \/ d.seek # {}
           /\ db'.scheduled <=> d.scheduled \/ (~db'.bgError /\ SomethingToDo')
<1>1. /\ db'.up = d.up /\ db'.bgError = d.bgError /\ db'.imm = d.imm /\ db'.manual = d.manual
      /\ db'.current = d.current /\ db'.seek = d.seek
  BY MaybeScheduleShape, Fields
<1>2. db'.scheduled <=>
          \/ d.scheduled
          \/ ~d.bgError /\ (\/ d.imm # {} \/ d.manual
                            \/ SizeCompaction(d.current) \/ d.seek # {})
  BY MaybeScheduleShape
<1>3. SomethingToDo' <=> \/ d.imm # {} \/ d.manual
                         \/ SizeCompaction(d.current) \/ d.seek # {}
  BY <1>1 DEF SomethingToDo
<1> QED
  BY <1>1, <1>2, <1>3

\* A step of a writer keeps Scheduled: it waits only with a reason, and a new memtable
\* is scheduled.
LEMMA ScheduledWriter ==
    ASSUME Shape, NothingBeforeOpen, Scheduled, FinitelyMany, NEW w \in Writers,
           WriterStep(w) \/ \E b \in Batches : Write(w, b)
    PROVE  Scheduled'
<1> USE Fields DEF Shape, NothingBeforeOpen
<1>1. CASE \E b \in Batches : Write(w, b)
  BY <1>1, SameWorkScheduled DEF Write, SameWork
<1>2. CASE WaitForRoom(w)
  BY <1>2, WaitingNeedsWork DEF WaitForRoom, Open, Scheduled, SomethingToDo
<1>3. CASE NoRoom(w)
  BY <1>3, SameWorkScheduled DEF NoRoom, SameWork, Idle
<1>4. CASE BeginWrite(w)
  BY <1>4 DEF BeginWrite, Open, SwitchMemTable, MaybeSchedule, Scheduled, SomethingToDo
<1>5. CASE AppendToLog(w)
  BY <1>5, SameWorkScheduled DEF AppendToLog, SameWork
<1>6. CASE Sync(w)
  BY <1>6, SameWorkScheduled DEF Sync, SameWork
<1>7. CASE SyncFails(w)
  BY <1>7, SameWorkScheduled DEF SyncFails, SameWork
<1>8. CASE InsertIntoMemTable(w)
  BY <1>8, SameWorkScheduled DEF InsertIntoMemTable, SameWork
<1>9. CASE Publish(w)
  BY <1>9 DEF Publish, Idle, Scheduled, SomethingToDo
<1> QED
  BY <1>1, <1>2, <1>3, <1>4, <1>5, <1>6, <1>7, <1>8, <1>9 DEF WriterStep

\* A step of a reader, or with a snapshot, keeps Scheduled: a file charged with a seek
\* is scheduled.
LEMMA ScheduledReader ==
    ASSUME Shape, NothingBeforeOpen, Scheduled,
           \/ \E s \in Snapshots : GetSnapshot(s) \/ ReleaseSnapshot(s)
           \/ \E r \in Readers : BeginRead(r) \/ EndRead(r)
    PROVE  Scheduled'
<1> USE Fields DEF Shape, NothingBeforeOpen
<1>1. ASSUME NEW s \in Snapshots, GetSnapshot(s) PROVE Scheduled'
  BY <1>1, SameWorkScheduled DEF GetSnapshot, SameWork
<1>2. ASSUME NEW s \in Snapshots, ReleaseSnapshot(s) PROVE Scheduled'
  BY <1>2, SameWorkScheduled DEF ReleaseSnapshot, SameWork
<1>3. ASSUME NEW r \in Readers, BeginRead(r) PROVE Scheduled'
  BY <1>3, SameWorkScheduled DEF BeginRead, SameWork
<1>4. ASSUME NEW r \in Readers, EndRead(r) PROVE Scheduled'
  <2>1. /\ UNCHANGED <<writer, bg>>
        /\ UNCHANGED db \/ \E S : db' = MaybeSchedule([db EXCEPT !.seek = S])
    BY <1>4, Zenon DEF EndRead
  <2>2. CASE UNCHANGED db
    BY <2>1, <2>2, SameWorkScheduled DEF SameWork
  <2>3. ASSUME NEW S, db' = MaybeSchedule([db EXCEPT !.seek = S]), db.seek = {}
        PROVE  Scheduled'
    BY <2>1, <2>3 DEF MaybeSchedule, Scheduled, SomethingToDo
  <2>4. db.seek = {} \/ UNCHANGED db
    BY <1>4, Zenon DEF EndRead
  <2> QED
    BY <2>1, <2>2, <2>3, <2>4
<1> QED
  BY <1>1, <1>2, <1>3, <1>4

\* The end of a background task keeps Scheduled: it looks again, and wakes the writers.
LEMMA ScheduledEndBackground ==
    ASSUME Shape, NEW d, DOMAIN d = DOMAIN Closed, EndBackground(d)
    PROVE  Scheduled'
<1> DEFINE b == [d EXCEPT !.scheduled = FALSE]
<1>1. DOMAIN b = DOMAIN Closed /\ b.scheduled = FALSE
  BY Fields
<1>2. db' = MaybeSchedule(b) /\ bg' = BgIdle /\ writer' = Wake(writer)
  BY DEF EndBackground
<1> HIDE DEF b
<1>3. db'.scheduled <=> ~db'.bgError /\ SomethingToDo'
  BY <1>1, <1>2, MaybeScheduled
<1>4. \A w \in Writers : writer'[w].pc # "waiting"
  BY <1>2, Woken
<1>5. bg'.pc = "idle"
  BY <1>2 DEF BgIdle
<1> QED
  BY <1>3, <1>4, <1>5 DEF Scheduled

\* A step of the background thread keeps Scheduled.
LEMMA ScheduledBackground ==
    ASSUME Shape, NothingBeforeOpen, Scheduled, Background
    PROVE  Scheduled'
<1> USE Fields DEF Shape, NothingBeforeOpen
<1>1. CASE BackgroundAfterError
  BY <1>1, ScheduledEndBackground DEF BackgroundAfterError
<1>2. CASE BeginCompactMemTable
  BY <1>2 DEF BeginCompactMemTable, Open, Scheduled, SomethingToDo
<1>3. CASE BuildTable
  BY <1>3, SameWorkScheduled DEF BuildTable, SameWork
<1>4. CASE BeginCompaction
  <2>1. UNCHANGED writer /\ bg.pc = "idle" /\ db.scheduled
    BY <1>4, Zenon DEF BeginCompaction
  <2>2. PICK c, e, todo, pointers : Begins(c, e, todo, pointers)
    BY <1>4, CompactionBegun
  <2>3. bg'.pc # "idle"
    BY <2>2 DEF Begins
  <2>4. db'.scheduled = db.scheduled
    BY <2>2 DEF Begins
  <2> QED
    BY <2>1, <2>3, <2>4 DEF Scheduled
<1>5. CASE WriteOutput
  BY <1>5, SameWorkScheduled DEF WriteOutput, SameWork
<1>6. CASE EndMerge
  BY <1>6, SameWorkScheduled DEF EndMerge, SameWork
<1>7. CASE InstallVersion
  <2> DEFINE d == [db EXCEPT !.current = Apply(@, bg.edit), !.logNumber = bg.edit.log, !.seek = {}]
  <2>1. DOMAIN d = DOMAIN Closed /\ d.scheduled = db.scheduled /\ bg.pc = "log"
    BY <1>7 DEF InstallVersion
  <2> HIDE DEF d
  <2>2. CASE EndBackground(d)
    BY <2>1, <2>2, ScheduledEndBackground
  <2>3. CASE db' = [d EXCEPT !.imm = {}] /\ bg' = [bg EXCEPT !.pc = "cleanup"] /\ UNCHANGED writer
    BY <2>1, <2>3 DEF Scheduled
  <2>4. CASE db' = Unpend(d) /\ bg' = [BgIdle EXCEPT !.pc = "cleanup", !.kind = "merge"]
             /\ UNCHANGED writer
    BY <2>1, <2>4 DEF Scheduled, Unpend
  <2> QED
    BY <1>7, <2>2, <2>3, <2>4 DEF InstallVersion, d
<1>8. ASSUME NEW d, DOMAIN d = DOMAIN Closed, d.scheduled = db.scheduled, bg.pc # "idle", Resume(d)
      PROVE  Scheduled'
  <2>1. CASE EndBackground(d)
    BY <1>8, <2>1, ScheduledEndBackground
  <2>2. CASE /\ bg' = [bg EXCEPT !.pc = "merge", !.num = 0, !.edit = NoEdit] /\ db' = d
             /\ writer' = Wake(writer)
    BY <1>8, <2>2 DEF Scheduled
  <2> QED
    BY <1>8, <2>1, <2>2 DEF Resume
<1>9. CASE BackgroundError
  <2> DEFINE d == [db EXCEPT !.bgError = TRUE, !.pending = @ \ {bg.num}]
  <2>1. DOMAIN d = DOMAIN Closed /\ d.scheduled = db.scheduled /\ bg.pc # "idle"
    BY <1>9 DEF BackgroundError
  <2>2. EndBackground(Unpend(d)) \/ Resume(d)
    BY <1>9 DEF BackgroundError
  <2> HIDE DEF d
  <2>3. DOMAIN Unpend(d) = DOMAIN Closed
    BY <2>1 DEF Unpend
  <2> QED
    BY <2>1, <2>2, <2>3, <1>8, ScheduledEndBackground
<1>10. CASE DeleteObsoleteFiles
  BY <1>8, <1>10 DEF DeleteObsoleteFiles
<1> QED
  BY <1>1, <1>2, <1>3, <1>4, <1>5, <1>6, <1>7, <1>9, <1>10 DEF Background

\* Only the last step of DB::Open opens the database.
LEMMA StillOpening ==
    ASSUME Shape, Opening, ~FinishOpen
    PROVE  db'.up # "open"
<1> USE Fields DEF Shape
<1>1. CASE Recover
  BY <1>1 DEF Recover
<1>2. CASE ReplayRecord \/ EndOfLog
  BY <1>2, ReplayDoes
<1>4. CASE BeginLog
  BY <1>4 DEF BeginLog
<1>5. CASE InstallRecovered
  BY <1>5 DEF InstallRecovered
<1> QED
  BY <1>1, <1>2, <1>4, <1>5 DEF Opening

\* A step of DB::Open keeps Scheduled: nothing is scheduled before its end.
LEMMA ScheduledOpening ==
    ASSUME Shape, NothingBeforeOpen, Scheduled, Opening
    PROVE  Scheduled'
<1>1. CASE FinishOpen
  <2>1. bg'.pc = "idle" /\ \A w \in Writers : writer'[w].pc = "idle"
    BY <1>1 DEF FinishOpen, NothingBeforeOpen, BgIdle
  <2> DEFINE d == [db EXCEPT !.up = "open"]
  <2>2. DOMAIN d = DOMAIN Closed /\ d.scheduled = FALSE /\ db' = MaybeSchedule(d)
    BY <1>1, Fields DEF FinishOpen, Shape, NothingBeforeOpen
  <2> HIDE DEF d
  <2>3. db'.scheduled <=> ~db'.bgError /\ SomethingToDo'
    BY <2>2, MaybeScheduled
  <2> QED
    BY <2>1, <2>3 DEF Scheduled
<1>2. ASSUME db'.up # "open", NothingBeforeOpen' PROVE Scheduled'
  BY <1>2 DEF Scheduled, NothingBeforeOpen, BgIdle
<1>3. CASE ~FinishOpen
  <2>1. Shape' /\ NothingBeforeOpen'
    BY ShapeOpening
  <2>2. db'.up # "open"
    BY <1>3, StillOpening
  <2> QED
    BY <2>1, <2>2, <1>2
<1> QED
  BY <1>1, <1>3

\* Every step keeps Scheduled.
LEMMA ScheduledNext ==
    ASSUME Shape, NothingBeforeOpen, Scheduled, FinitelyMany, [Next]_vars
    PROVE  Scheduled'
<1>1. CASE UNCHANGED vars
  BY <1>1 DEF vars, Scheduled, SomethingToDo
<1>2. CASE Crash
  <2>1. db'.scheduled = FALSE /\ db'.up = "closed" /\ bg'.pc = "idle"
        /\ \A w \in Writers : writer'[w].pc = "idle"
    BY <1>2 DEF Crash, Closed, BgIdle, Idle
  <2> QED
    BY <2>1 DEF Scheduled
<1> QED
  BY <1>1, <1>2, ScheduledWriter, ScheduledReader, ScheduledBackground, ScheduledOpening DEF Next

-----------------------------------------------------------------------------
\* The values of a function with finitely many arguments are finitely many.
LEMMA FiniteImage ==
    ASSUME NEW f, IsFiniteSet(DOMAIN f)
    PROVE  IsFiniteSet({f[x] : x \in DOMAIN f})
<1> DEFINE S == DOMAIN f
           T == {f[x] : x \in S}
           g == [x \in S |-> f[x]]
<1>1. g \in Surjection(S, T)
  BY DEF Surjection
<1> QED
  BY <1>1, FS_Surjection

\* What is finite with and without one element.
LEMMA FiniteSteps ==
    /\ IsFiniteSet({})
    /\ \A x : IsFiniteSet({x})
    /\ \A S, T, x : IsFiniteSet(S) /\ T = S \cup {x} => IsFiniteSet(T)
    /\ \A S, T, U : IsFiniteSet(S) /\ T = S \ U => IsFiniteSet(T)
<1>1. ASSUME NEW S, NEW T, NEW x, IsFiniteSet(S), T = S \cup {x} PROVE IsFiniteSet(T)
  BY <1>1, FS_AddElement
<1>2. ASSUME NEW S, NEW T, NEW U, IsFiniteSet(S), T = S \ U PROVE IsFiniteSet(T)
  BY <1>2, FS_Difference
<1>3. \A x : IsFiniteSet({x})
  BY FS_Singleton
<1>4. IsFiniteSet({})
  BY FS_EmptySet
<1> QED
  BY <1>1, <1>2, <1>3, <1>4, Zenon

\* An edit that adds finitely many files leaves the levels finite.
LEMMA FiniteApply ==
    ASSUME NEW v, NEW e, FiniteLevels(v), IsFiniteSet(e.added)
    PROVE  FiniteLevels(Apply(v, e))
<1> DEFINE g == [a \in e.added |-> a[2]]
           T == {g[a] : a \in DOMAIN g}
<1>1. IsFiniteSet(T)
  BY FiniteImage
<1> SUFFICES ASSUME NEW l \in Levels PROVE IsFiniteSet(Apply(v, e)[l])
  BY DEF FiniteLevels
<1>2. IsFiniteSet(v[l] \cup T)
  BY <1>1, FS_Union DEF FiniteLevels
<1>3. Apply(v, e)[l] \subseteq v[l] \cup T
  BY DEF Apply
<1> QED
  BY <1>2, <1>3, FS_Subset

\* Init has finitely many files.
LEMMA FiniteInit == Init => FinitelyMany
<1> SUFFICES ASSUME Init PROVE FinitelyMany
  OBVIOUS
<1>1. FiniteLevels(disk.manifest.version)
  BY LeftByOK DEF Init, DiskOK
<1>2. db.current = NoFiles /\ db.pending = {} /\ bg.edit.added = {}
  BY DEF Init, Closed, BgIdle, NoEdit
<1> QED
  BY <1>1, <1>2, FiniteNone, FS_EmptySet DEF FinitelyMany

\* What a step must leave alone so that the levels stay finite.
LEMMA SameFiles ==
    ASSUME FinitelyMany, disk'.manifest = disk.manifest, db'.current = db.current,
           db'.pending = db.pending, bg'.edit = bg.edit
    PROVE  FinitelyMany'
BY DEF FinitelyMany

\* A step of a writer changes no file.
LEMMA FiniteWriter ==
    ASSUME Shape, FinitelyMany, NEW w \in Writers, WriterStep(w) \/ \E b \in Batches : Write(w, b)
    PROVE  FinitelyMany'
<1> USE Fields, SameFiles DEF Shape
<1>1. CASE \E b \in Batches : Write(w, b)
  BY <1>1 DEF Write
<1>2. CASE WaitForRoom(w)
  BY <1>2 DEF WaitForRoom
<1>3. CASE NoRoom(w)
  BY <1>3 DEF NoRoom
<1>4. CASE BeginWrite(w)
  BY <1>4 DEF BeginWrite, SwitchMemTable, MaybeSchedule
<1>5. CASE AppendToLog(w)
  BY <1>5 DEF AppendToLog
<1>6. CASE Sync(w)
  BY <1>6 DEF Sync
<1>7. CASE SyncFails(w)
  BY <1>7 DEF SyncFails
<1>8. CASE InsertIntoMemTable(w)
  BY <1>8 DEF InsertIntoMemTable
<1>9. CASE Publish(w)
  BY <1>9 DEF Publish
<1> QED
  BY <1>1, <1>2, <1>3, <1>4, <1>5, <1>6, <1>7, <1>8, <1>9 DEF WriterStep

\* Nor does a step of a reader, or with a snapshot.
LEMMA FiniteReader ==
    ASSUME Shape, FinitelyMany,
           \/ \E s \in Snapshots : GetSnapshot(s) \/ ReleaseSnapshot(s)
           \/ \E r \in Readers : BeginRead(r) \/ EndRead(r)
    PROVE  FinitelyMany'
<1> USE Fields, SameFiles DEF Shape
<1>1. ASSUME NEW s \in Snapshots, GetSnapshot(s) PROVE FinitelyMany'
  BY <1>1 DEF GetSnapshot
<1>2. ASSUME NEW s \in Snapshots, ReleaseSnapshot(s) PROVE FinitelyMany'
  BY <1>2 DEF ReleaseSnapshot
<1>3. ASSUME NEW r \in Readers, BeginRead(r) PROVE FinitelyMany'
  BY <1>3 DEF BeginRead
<1>4. ASSUME NEW r \in Readers, EndRead(r) PROVE FinitelyMany'
  <2>1. /\ UNCHANGED <<disk, bg>>
        /\ UNCHANGED db \/ \E S : db' = MaybeSchedule([db EXCEPT !.seek = S])
    BY <1>4, Zenon DEF EndRead
  <2> QED
    BY <2>1 DEF MaybeSchedule
<1> QED
  BY <1>1, <1>2, <1>3, <1>4

\* At the end of a background task there is no edit any more.
LEMMA FiniteEndBackground ==
    ASSUME Shape, NEW d, DOMAIN d = DOMAIN Closed, EndBackground(d),
           FiniteLevels(d.current), IsFiniteSet(d.pending),
           FiniteLevels(disk'.manifest.version)
    PROVE  FinitelyMany'
<1> DEFINE b == [d EXCEPT !.scheduled = FALSE]
<1>1. DOMAIN b = DOMAIN Closed /\ b.current = d.current /\ b.pending = d.pending
  BY Fields
<1>2. db' = MaybeSchedule(b) /\ bg' = BgIdle
  BY DEF EndBackground
<1> HIDE DEF b
<1>3. db'.current = d.current /\ db'.pending = d.pending
  BY <1>1, <1>2, MaybeScheduleShape, Fields
<1>4. bg'.edit.added = {}
  BY <1>2 DEF BgIdle, NoEdit
<1> QED
  BY <1>3, <1>4, FiniteSteps DEF FinitelyMany

\* The logged edit is applied to the manifest.
LEMMA FiniteLogged ==
    ASSUME Shape, FinitelyMany, disk' = [disk EXCEPT !.manifest = Logged(@, bg.edit)]
    PROVE  FiniteLevels(disk'.manifest.version)
<1>1. disk'.manifest.version = Apply(disk.manifest.version, bg.edit)
  BY Fields DEF Shape, Logged
<1> QED
  BY <1>1, FiniteApply DEF FinitelyMany

\* After what is over, a merge that was interrupted goes on without an edit.
LEMMA FiniteResume ==
    ASSUME Shape, NEW d, DOMAIN d = DOMAIN Closed, Resume(d),
           FiniteLevels(d.current), IsFiniteSet(d.pending),
           FiniteLevels(disk'.manifest.version)
    PROVE  FinitelyMany'
<1>1. CASE EndBackground(d)
  BY <1>1, FiniteEndBackground
<1>2. CASE bg' = [bg EXCEPT !.pc = "merge", !.num = 0, !.edit = NoEdit] /\ db' = d
  <2>1. bg'.edit.added = {}
    BY <1>2, Fields DEF Shape, NoEdit
  <2> QED
    BY <1>2, <2>1, FiniteSteps DEF FinitelyMany
<1> QED
  BY <1>1, <1>2 DEF Resume

\* A step of the background thread leaves the levels finite: the edits add the table of a
\* memtable, the file that is moved, or the files that were made one by one.
LEMMA FiniteBackground ==
    ASSUME Shape, FinitelyMany, Background
    PROVE  FinitelyMany'
<1>11. /\ FiniteLevels(db.current) /\ FiniteLevels(disk.manifest.version)
      /\ IsFiniteSet(db.pending) /\ IsFiniteSet(bg.edit.added)
  BY DEF FinitelyMany
<1>0. ASSUME disk'.manifest = disk.manifest, db'.current = db.current,
             IsFiniteSet(db'.pending), IsFiniteSet(bg'.edit.added)
      PROVE  FinitelyMany'
  BY <1>0, Zenon DEF FinitelyMany
<1>1. CASE BackgroundAfterError
  BY <1>1, FiniteEndBackground, Fields DEF Shape, BackgroundAfterError, FinitelyMany
<1>2. CASE BeginCompactMemTable
  <2>1. /\ db'.pending = db.pending \cup {db.nextFile} /\ db'.current = db.current
        /\ bg'.edit = bg.edit /\ disk' = disk
    BY <1>2, Fields DEF Shape, BeginCompactMemTable
  <2>2. IsFiniteSet(db'.pending) /\ IsFiniteSet(bg'.edit.added)
    BY <2>1, FiniteSteps, <1>11, Zenon
  <2> QED
    BY <2>1, <2>2, <1>0
<1>3. CASE BuildTable
  <2>1. /\ db'.pending = db.pending \ {bg.num} /\ db'.current = db.current
        /\ disk'.manifest = disk.manifest
    BY <1>3, Fields DEF Shape, BuildTable
  <2>2. \E a : bg'.edit.added = {} \/ bg'.edit.added = {a}
    BY <1>3, Fields DEF Shape, BuildTable, FlushEdit, Edit
  <2>3. IsFiniteSet(bg'.edit.added)
    BY <2>2, FiniteSteps, Zenon
  <2>4. IsFiniteSet(db'.pending)
    BY <2>1, FiniteSteps, <1>11, Zenon
  <2> QED
    BY <2>1, <2>3, <2>4, <1>0
<1>4. CASE BeginCompaction
  <2>1. PICK c, e, todo, pointers : Begins(c, e, todo, pointers)
    BY <1>4, CompactionBegun
  <2>2. disk' = disk /\ db'.pending = db.pending /\ db'.current = db.current
    BY <1>4, <2>1, Fields DEF Shape, BeginCompaction, Begins
  <2>3. bg'.edit = bg.edit \/ \E a : bg'.edit.added = {a}
    <3>1. CASE bg' = [bg EXCEPT !.pc = "merge", !.c = c, !.todo = todo]
      BY <3>1, Fields DEF Shape
    <3>2. CASE bg' = [bg EXCEPT !.pc = "log", !.kind = "move", !.edit = e]
               /\ \E f : e = Edit({<<c.level + 1, f>>}, {<<c.level, f.num>>}, db.logNumber,
                                   Pointer(c))
      <4>1. PICK f : e = Edit({<<c.level + 1, f>>}, {<<c.level, f.num>>}, db.logNumber, Pointer(c))
        BY <3>2
      <4>2. e.added = {<<c.level + 1, f>>}
        BY <4>1 DEF Edit
      <4> QED
        BY <3>2, <4>2, Fields DEF Shape
    <3> QED
      BY <2>1, <3>1, <3>2 DEF Begins
  <2>4. IsFiniteSet(bg'.edit.added)
    BY <2>3, FiniteSteps, <1>11, Zenon
  <2>5. IsFiniteSet(db'.pending)
    BY <2>2, <1>11, Zenon DEF FinitelyMany
  <2> QED
    BY <2>2, <2>4, <2>5, <1>0
<1>5. CASE WriteOutput
  <2>1. /\ db'.pending = db.pending \cup {db.nextFile} /\ db'.current = db.current
        /\ bg'.edit = bg.edit /\ disk'.manifest = disk.manifest
    BY <1>5, Fields DEF Shape, WriteOutput
  <2>2. IsFiniteSet(db'.pending) /\ IsFiniteSet(bg'.edit.added)
    BY <2>1, FiniteSteps, <1>11, Zenon
  <2> QED
    BY <2>1, <2>2, <1>0
<1>6. CASE EndMerge
  <2>1. disk' = disk /\ db' = db
    BY <1>6, Fields DEF Shape, EndMerge
  <2> DEFINE g == [i \in DOMAIN bg.made |-> <<bg.c.level + 1, bg.made[i]>>]
  <2>2. bg'.edit.added = {g[i] : i \in DOMAIN g}
    <3>1. bg'.edit.added = {<<bg.c.level + 1, bg.made[i]>> : i \in DOMAIN bg.made}
      BY <1>6, Fields DEF Shape, EndMerge, Edit
    <3> QED
      BY <3>1, Zenon
  <2>3. DOMAIN bg.made = 1..Len(bg.made) /\ Len(bg.made) \in Nat
    BY LenProperties
  <2>4. IsFiniteSet(DOMAIN g)
    BY <2>3, FS_Interval
  <2> HIDE DEF g
  <2>5. IsFiniteSet(bg'.edit.added)
    BY <2>2, <2>4, FiniteImage
  <2>6. IsFiniteSet(db'.pending)
    BY <2>1, <1>11, Zenon DEF FinitelyMany
  <2> QED
    BY <2>1, <2>5, <2>6, <1>0
<1>7. CASE InstallVersion
  <2> DEFINE d == [db EXCEPT !.current = Apply(@, bg.edit), !.logNumber = bg.edit.log, !.seek = {}]
  <2>1. DOMAIN d = DOMAIN Closed /\ d.pending = db.pending /\ d.current = Apply(db.current, bg.edit)
    BY Fields DEF Shape
  <2>2. FiniteLevels(d.current) /\ IsFiniteSet(d.pending)
    BY <2>1, FiniteApply DEF FinitelyMany
  <2>3. FiniteLevels(disk'.manifest.version)
    BY <1>7, FiniteLogged, Fields DEF Shape, InstallVersion
  <2> HIDE DEF d
  <2>4. CASE EndBackground(d)
    BY <2>1, <2>2, <2>3, <2>4, FiniteEndBackground
  <2>5. CASE db' = [d EXCEPT !.imm = {}] /\ bg' = [bg EXCEPT !.pc = "cleanup"] /\ UNCHANGED writer
    <3>1. db'.pending = d.pending /\ db'.current = d.current /\ bg'.edit = bg.edit
      BY <2>1, <2>5, Fields DEF Shape
    <3> QED
      BY <2>2, <2>3, <3>1 DEF FinitelyMany
  <2>6. CASE db' = Unpend(d) /\ bg' = [BgIdle EXCEPT !.pc = "cleanup", !.kind = "merge"]
             /\ UNCHANGED writer
    <3>1. db'.current = d.current
      BY <2>1, <2>6, Fields DEF Shape, Unpend
    <3>2. db'.pending = d.pending \ {bg.made[i].num : i \in DOMAIN bg.made}
      BY <2>1, <2>6, Fields DEF Shape, Unpend
    <3>3. bg'.edit.added = {}
      BY <2>6 DEF BgIdle, NoEdit
    <3>4. IsFiniteSet(db'.pending) /\ IsFiniteSet(bg'.edit.added) /\ FiniteLevels(db'.current)
      BY <2>2, <3>1, <3>2, <3>3, FiniteSteps, Zenon
    <3> QED
      BY <2>3, <3>4, <1>11, Zenon DEF FinitelyMany
  <2> QED
    BY <1>7, <2>4, <2>5, <2>6 DEF InstallVersion, d
<1>9. CASE BackgroundError
  <2> DEFINE d == [db EXCEPT !.bgError = TRUE, !.pending = @ \ {bg.num}]
  <2>1. DOMAIN d = DOMAIN Closed /\ d.current = db.current /\ d.pending = db.pending \ {bg.num}
    BY Fields DEF Shape
  <2>2. FiniteLevels(disk'.manifest.version)
    BY <1>9, FiniteLogged, Fields DEF Shape, BackgroundError, FinitelyMany
  <2>3. EndBackground(Unpend(d)) \/ Resume(d)
    BY <1>9 DEF BackgroundError
  <2> HIDE DEF d
  <2>4. /\ DOMAIN Unpend(d) = DOMAIN Closed /\ Unpend(d).current = d.current
        /\ Unpend(d).pending = d.pending \ {bg.made[i].num : i \in DOMAIN bg.made}
    BY <2>1, Fields DEF Shape, Unpend
  <2>5. IsFiniteSet(d.pending) /\ FiniteLevels(d.current)
    BY <2>1, FiniteSteps, <1>11, Zenon
  <2>6. IsFiniteSet(Unpend(d).pending) /\ FiniteLevels(Unpend(d).current)
    BY <2>4, <2>5, FiniteSteps, Zenon
  <2> QED
    BY <2>1, <2>2, <2>3, <2>4, <2>5, <2>6, FiniteResume, FiniteEndBackground
<1>10. CASE DeleteObsoleteFiles
  <2>1. disk'.manifest = disk.manifest /\ Resume(db)
    BY <1>10, Fields DEF Shape, DeleteObsoleteFiles, WithoutObsolete
  <2>2. /\ FiniteLevels(db.current) /\ IsFiniteSet(db.pending)
        /\ FiniteLevels(disk'.manifest.version)
    BY <2>1, <1>11, Zenon DEF FinitelyMany
  <2>3. DOMAIN db = DOMAIN Closed
    BY DEF Shape
  <2> QED
    BY <2>1, <2>2, <2>3, FiniteResume
<1> QED
  BY <1>1, <1>2, <1>3, <1>4, <1>5, <1>6, <1>7, <1>9, <1>10 DEF Background

\* A step of DB::Open leaves the levels finite: every table of a replayed log was pending.
LEMMA FiniteOpening ==
    ASSUME Shape, NothingBeforeOpen, FinitelyMany, Opening
    PROVE  FinitelyMany'
<1>6. /\ FiniteLevels(db.current) /\ FiniteLevels(disk.manifest.version)
      /\ IsFiniteSet(db.pending) /\ IsFiniteSet(bg.edit.added)
  BY DEF FinitelyMany
<1>1. CASE Recover
  <2>1. db'.current = disk.manifest.version /\ db'.pending = {} /\ UNCHANGED <<disk, bg>>
    BY <1>1, Fields DEF Shape, Recover, Closed
  <2> QED
    BY <2>1, FiniteSteps DEF FinitelyMany
<1>2. CASE ReplayRecord \/ EndOfLog
  <2>1. db'.current = db.current /\ bg' = bg /\ disk'.manifest = disk.manifest
    <3>1. UNCHANGED bg /\ \A x \in DOMAIN Closed \ {"replay", "lastSeq", "nextFile", "pending"} :
                               db'[x] = db[x]
      BY <1>2, ReplayDoes, Zenon
    <3>2. UNCHANGED disk \/ \E tables : disk' = [disk EXCEPT !.tables = tables]
      BY <1>2, ReplayDoes, Zenon
    <3> QED
      BY <3>1, <3>2, Fields DEF Shape
  <2>2. db'.pending = db.pending \/ db'.pending = db.pending \cup {db.nextFile}
    BY <1>2, ReplayDoes, Fields
  <2>3. IsFiniteSet(db'.pending)
    BY <2>2, FiniteSteps, <1>6, Zenon
  <2> QED
    BY <2>1, <2>3, <1>6, Zenon DEF FinitelyMany
<1>3. CASE BeginLog
  BY <1>3, SameFiles, Fields DEF Shape, BeginLog
<1>4. CASE InstallRecovered
  <2> DEFINE g == [n \in db.pending |-> <<0, Meta(n, disk.tables[n])>>]
             edit == Edit({<<0, Meta(n, disk.tables[n])>> : n \in db.pending}, {}, db.log, <<>>)
  <2>1. edit.added = {g[n] : n \in DOMAIN g}
    <3>1. edit.added = {<<0, Meta(n, disk.tables[n])>> : n \in db.pending}
      BY DEF Edit
    <3> QED
      BY <3>1, Zenon
  <2>0. IsFiniteSet(DOMAIN g)
    BY DEF FinitelyMany
  <2> HIDE DEF g
  <2>2. IsFiniteSet(edit.added)
    BY <2>0, <2>1, FiniteImage
  <2>3. /\ db'.current = Apply(db.current, edit) /\ db'.pending = {} /\ bg' = bg
        /\ disk' = [disk EXCEPT !.manifest = Logged(@, edit)]
    BY <1>4, Fields DEF Shape, InstallRecovered
  <2> HIDE DEF edit
  <2>4. disk'.manifest.version = Apply(disk.manifest.version, edit)
    BY <2>3, Fields DEF Shape, Logged
  <2> QED
    BY <2>2, <2>3, <2>4, FiniteApply, FiniteSteps DEF FinitelyMany
<1>5. CASE FinishOpen
  BY <1>5, SameFiles, Fields DEF Shape, FinishOpen, WithoutObsolete, MaybeSchedule
<1> QED
  BY <1>1, <1>2, <1>3, <1>4, <1>5 DEF Opening

\* Every step leaves the levels finite.
LEMMA FiniteNext ==
    ASSUME Shape, NothingBeforeOpen, FinitelyMany, [Next]_vars
    PROVE  FinitelyMany'
<1>1. CASE UNCHANGED vars
  BY <1>1, SameFiles DEF vars
<1>2. CASE Crash
  <2>1. db' = Closed /\ bg' = BgIdle
    BY <1>2 DEF Crash
  <2>2. db'.current = NoFiles /\ db'.pending = {} /\ bg'.edit.added = {}
    BY <2>1 DEF Closed, BgIdle, NoEdit
  <2>3. UNCHANGED disk \/ \E logs : disk' = [disk EXCEPT !.logs = logs]
    BY <1>2 DEF Crash
  <2>4. disk'.manifest = disk.manifest
    BY <2>3, Fields DEF Shape
  <2> QED
    BY <2>2, <2>4, FiniteNone, FiniteSteps DEF FinitelyMany
<1> QED
  BY <1>1, <1>2, FiniteWriter, FiniteReader, FiniteBackground, FiniteOpening DEF Next

-----------------------------------------------------------------------------
\* Who works or is waited for is scheduled, in every reachable state.
THEOREM WakeInvariant == Spec => []WakeInv
<1>1. Init => WakeInv
  <2> SUFFICES ASSUME Init PROVE WakeInv
    OBVIOUS
  <2>1. bg.pc = "idle" /\ db.scheduled = FALSE /\ db.up = "closed"
        /\ \A w \in Writers : writer[w].pc = "idle"
    BY DEF Init, BgIdle, Closed, Idle
  <2>2. Scheduled
    BY <2>1 DEF Scheduled
  <2> QED
    BY <2>2, ShapeInit, FiniteInit DEF WakeInv
<1>2. WakeInv /\ [Next]_vars => WakeInv'
  BY ShapeNext, ScheduledNext, FiniteNext DEF WakeInv
<1> QED
  BY <1>1, <1>2, PTL DEF Spec

\* No wakeup is lost: a writer that waits for room, or a memtable that waits to become a
\* table, has the background thread on its way (MaybeScheduleCompaction is called
\* wherever there may be something new to do, and before the writers are woken).
THEOREM NoWakeupIsLost == Spec => []WaitingIsServed
<1>1. WakeInv => WaitingIsServed
  BY DEF WakeInv, Scheduled, WaitingIsServed, SomethingToDo
<1> QED
  BY <1>1, WakeInvariant, PTL

-----------------------------------------------------------------------------
\* An edit adds no other numbers than those of its files.
LEMMA NumbersOfApply ==
    ASSUME NEW v, NEW e
    PROVE  Numbers(Apply(v, e)) \subseteq Numbers(v) \cup Added(e)
<1> SUFFICES ASSUME NEW n \in Numbers(Apply(v, e)) PROVE n \in Numbers(v) \cup Added(e)
  OBVIOUS
<1>0. PICK l \in Levels : \E f \in Apply(v, e)[l] : f.num = n
  BY NumberOfFile
<1>1. PICK f \in Apply(v, e)[l] : f.num = n
  BY <1>0
<1>2. CASE f \in v[l]
  BY <1>1, <1>2, NumberOfFile
<1>3. CASE f \in {a[2] : a \in e.added}
  BY <1>1, <1>3 DEF Added
<1> QED
  BY <1>1, <1>2, <1>3 DEF Apply

\* A function with one more value.
LEMMA WithIs ==
    ASSUME NEW f, NEW x, NEW y
    PROVE  /\ DOMAIN With(f, x, y) = DOMAIN f \cup {x}
           /\ With(f, x, y)[x] = y
           /\ \A z \in DOMAIN f \ {x} : With(f, x, y)[z] = f[z]
BY DEF With, Overlay

-----------------------------------------------------------------------------
\* What overlaps a range on a level is of that level.
LEMMA OverlapsInside ==
    ASSUME NEW v, NEW l, NEW lo, NEW hi
    PROVE  OverlappingInputs(v, l, lo, hi) \subseteq v[l]
BY DEF OverlappingInputs

\* AddBoundaryInputs adds only files of the level.
LEMMA BoundaryInside ==
    ASSUME NEW F, IsFiniteSet(F), NEW inputs
    PROVE  AddBoundaryInputs(F, inputs) \subseteq F \cup inputs
<1> DEFINE Boundary(I) == {f \in F : /\ Before(LargestKey(I), f.smallest)
                                     /\ f.smallest.key = LargestKey(I).key}
           N == Cardinality(F)
           Step(I) == I \cup FirstFile(Boundary(I))
           Is(n, g) == g = [i \in 0..n |-> IF i = 0 THEN inputs ELSE Step(g[i - 1])]
           Bad == {n \in 0..N : ~\E g : Is(n, g)}
<1>1. N \in Nat
  BY FS_CardinalityType
<1> HIDE DEF N, Step
<1>2. Bad = {}
  <2>1. SUFFICES ASSUME Bad # {} PROVE FALSE
    OBVIOUS
  <2>2. Bad \in SUBSET Nat
    BY <1>1
  <2>3. PICK n \in Bad : \A m \in Bad : n <= m
    BY <2>1, <2>2, LeastNat
  <2>4. n \in 0..N /\ ~\E g : Is(n, g)
    BY <2>3
  <2>5. CASE n = 0
    <3>1. Is(0, [i \in 0..0 |-> inputs])
      OBVIOUS
    <3> QED
      BY <2>4, <2>5, <3>1
  <2>6. CASE n # 0
    <3>0. n \in Nat /\ n - 1 \in 0..N /\ ~(n <= n - 1)
      BY <2>4, <2>6, <1>1
    <3>1. n - 1 \in 0..N /\ n - 1 \notin Bad
      <4> HIDE DEF Bad
      <4> QED
        BY <3>0, <2>3
    <3>2. PICK g : Is(n - 1, g)
      BY <3>1
    <3> DEFINE h == [i \in 0..n |-> IF i = n THEN Step(g[n - 1]) ELSE g[i]]
    <3>3. \A i \in 0..n : h[i] = IF i = 0 THEN inputs ELSE Step(h[i - 1])
      <4> TAKE i \in 0..n
      <4>1. CASE i = n
        <5>1. h[i] = Step(g[n - 1]) /\ h[i - 1] = g[n - 1]
          BY <4>1, <2>4, <2>6, <1>1
        <5> QED
          BY <5>1, <4>1, <2>6
      <4>2. CASE i # n
        <5>1. i \in 0..n - 1 /\ h[i] = g[i]
          BY <4>2, <2>4, <2>6, <1>1
        <5>2. i # 0 => i - 1 \in 0..n - 1 /\ h[i - 1] = g[i - 1]
          BY <5>1, <4>2, <2>4, <2>6, <1>1
        <5>3. g[i] = IF i = 0 THEN inputs ELSE Step(g[i - 1])
          BY <3>2, <5>1
        <5> QED
          BY <5>1, <5>2, <5>3
      <4> QED
        BY <4>1, <4>2
    <3>4. h = [i \in 0..n |-> h[i]]
      OBVIOUS
    <3> HIDE DEF h
    <3>5. Is(n, h)
      BY <3>3, <3>4
    <3> QED
      BY <2>4, <3>5
  <2> QED
    BY <2>5, <2>6
<1>3. \E g : Is(N, g)
  BY <1>1, <1>2
<1> DEFINE A == CHOOSE g : Is(N, g)
<1>4. AddBoundaryInputs(F, inputs) = A[N]
  BY DEF AddBoundaryInputs, N, Step
<1>5. Is(N, A)
  BY <1>3
<1> DEFINE Out == {n \in 0..N : ~(A[n] \subseteq F \cup inputs)}
<1> HIDE DEF A
<1>6. \A n \in 0..N : A[n] = IF n = 0 THEN inputs ELSE Step(A[n - 1])
  BY <1>5
<1>7. \A I : Step(I) \subseteq I \cup F
  BY DEF Step, FirstFile
<1>8. Out = {}
  <2>1. SUFFICES ASSUME Out # {} PROVE FALSE
    OBVIOUS
  <2>2. Out \in SUBSET Nat
    BY <1>1
  <2>3. PICK n \in Out : \A m \in Out : n <= m
    BY <2>1, <2>2, LeastNat
  <2>4. n # 0 /\ n \in 0..N
    BY <1>6, <2>3
  <2>5. n \in Nat /\ n - 1 \in 0..N /\ ~(n <= n - 1)
    BY <1>1, <2>4
  <2>6. n - 1 \notin Out
    BY <2>3, <2>5
  <2>7. A[n - 1] \subseteq F \cup inputs
    BY <2>5, <2>6
  <2>8. A[n] = Step(A[n - 1])
    BY <1>6, <2>4
  <2> QED
    BY <1>7, <2>3, <2>7, <2>8
<1> QED
  BY <1>1, <1>4, <1>8

\* A compaction takes in files of the level it is of, and remembers the version.
LEMMA PickedFiles ==
    ASSUME NEW v, FiniteLevels(v), NEW l \in Levels, NEW f \in v[l]
    PROVE  /\ PickCompaction(v, l, f).version = v
           /\ PickCompaction(v, l, f).level = l
           /\ PickCompaction(v, l, f).inputs0 \subseteq v[l]
<1> DEFINE picked == IF l > 0 THEN {f} ELSE OverlappingInputs(v, 0, f.smallest.key, f.largest.key)
<1>1. picked \subseteq v[l]
  BY OverlapsInside DEF Levels
<1>2. IsFiniteSet(v[l])
  BY DEF FiniteLevels
<1>3. AddBoundaryInputs(v[l], picked) \subseteq v[l]
  BY <1>1, <1>2, BoundaryInside
<1>4. \A lo, hi : AddBoundaryInputs(v[l], OverlappingInputs(v, l, lo, hi)) \subseteq v[l]
  <2> TAKE lo, hi
  <2>1. AddBoundaryInputs(v[l], OverlappingInputs(v, l, lo, hi))
            \subseteq v[l] \cup OverlappingInputs(v, l, lo, hi)
    BY <1>2, BoundaryInside
  <2>2. OverlappingInputs(v, l, lo, hi) \subseteq v[l]
    BY OverlapsInside
  <2> QED
    BY <2>1, <2>2
<1>5. PickCompaction(v, l, f) = SetupOtherInputs(v, l, picked)
  BY DEF PickCompaction
<1> HIDE DEF picked
<1>6. /\ SetupOtherInputs(v, l, picked).version = v
      /\ SetupOtherInputs(v, l, picked).level = l
      /\ SetupOtherInputs(v, l, picked).inputs0 \subseteq v[l]
  BY <1>3, <1>4 DEF SetupOtherInputs
<1> QED
  BY <1>5, <1>6

\* A compaction starts from a file of the version.
LEMMA StartsFromFile ==
    ASSUME NEW v, NEW pointers, NEW seek, \A c \in seek : c[1] \in Levels /\ c[2] \in v[c[1]],
           NEW p \in ToCompact(v, pointers, seek)
    PROVE  p[1] \in Levels /\ p[2] \in v[p[1]]
<1> DEFINE After(l) == {f \in v[l] : Before(pointers[l], f.largest)}
           From(l) == FirstFile(IF After(l) = {} THEN v[l] ELSE After(l))
<1>1. \A l : From(l) \subseteq v[l]
  BY DEF FirstFile
<1>2. CompactionLevel(v) \subseteq Levels
  BY VersionSetAssumption DEF CompactionLevel, Levels
<1>3. p \in UNION {{l} \X From(l) : l \in CompactionLevel(v)} \/ p \in seek
  BY DEF ToCompact
<1> HIDE DEF From
<1> QED
  BY <1>1, <1>2, <1>3

\* What is charged with a seek is a file of the version.
LEMMA ChargedIsFile ==
    ASSUME NEW v, NEW tables, NEW k, NEW s, NEW c \in SeekCharge(v, tables, k, s)
    PROVE  c[1] \in Levels /\ c[2] \in v[c[1]]
<1>1. c \in Candidates(v, k, s)
  BY DEF SeekCharge, FirstSearched
<1> QED
  BY <1>1, ZeroIsLevel DEF Candidates, FindFile

-----------------------------------------------------------------------------
\* The three parts of FilesInv that say whose files are on the disk.
NamesFiles == ManifestNamesFiles /\ VersionsNameFiles /\ BackgroundNamesFiles

\* The idle background thread names no file.
LEMMA IdleNamesNothing ==
    /\ Numbers(BgIdle.c.version) = {} /\ BgIdle.num = 0 /\ BgIdle.pc = "idle"
    /\ {BgIdle.made[i].num : i \in DOMAIN BgIdle.made} = {}
BY NoNumbers DEF BgIdle, NoCompaction

\* In Init, only what the earlier sessions left is named.
LEMMA NamesInit == Init => NamesFiles
<1> SUFFICES ASSUME Init PROVE NamesFiles
  OBVIOUS
<1>1. /\ db.nextFile = 0 /\ db.up = "closed" /\ db.current = NoFiles /\ db.pending = {}
      /\ db.replay.logs = {} /\ db.seek = {}
  BY DEF Init, Closed, NoReplay
<1>2. \A r \in Readers : reader[r].version = NoFiles
  BY DEF Init, NotReading
<1>3. ManifestNamesFiles
  BY LeftByOK DEF Init, DiskOK, ManifestNamesFiles
<1>4. VersionsNameFiles
  BY <1>1, <1>2, NoNumbers DEF VersionsNameFiles
<1>5. bg = BgIdle
  BY DEF Init
<1>6. BackgroundNamesFiles
  BY <1>5, IdleNamesNothing DEF BackgroundNamesFiles, Made
<1> QED
  BY <1>3, <1>4, <1>6 DEF NamesFiles

\* A step that changes no file may take a number, refer to the current version or to
\* none, and charge its files with seeks.
LEMMA NamesKept ==
    ASSUME NamesFiles,
           disk'.manifest = disk.manifest, disk'.tables = disk.tables,
           DOMAIN disk'.logs \subseteq DOMAIN disk.logs \cup {db.nextFile},
           db'.up = db.up, db'.current = db.current, db'.pending = db.pending,
           db'.replay = db.replay, db.bgError => db'.bgError,
           db'.nextFile \in {db.nextFile, db.nextFile + 1}, bg' = bg,
           \A c \in db'.seek : c[1] \in Levels /\ c[2] \in db.current[c[1]],
           \A r \in Readers : reader'[r].version \in {reader[r].version, db.current, NoFiles}
    PROVE  NamesFiles'
<1>1. ManifestNamesFiles'
  BY DEF NamesFiles, ManifestNamesFiles, VersionsNameFiles
<1>2. db'.nextFile \in Nat /\ Below(db.nextFile) \subseteq Below(db'.nextFile)
  BY DEF NamesFiles, VersionsNameFiles, Below
<1>3. \A r \in Readers : Numbers(reader'[r].version) \subseteq DOMAIN disk.tables
  BY NoNumbers DEF NamesFiles, VersionsNameFiles
<1>4. VersionsNameFiles'
  BY <1>2, <1>3 DEF NamesFiles, ManifestNamesFiles, VersionsNameFiles
<1>5. BackgroundNamesFiles'
  <2>1. Made' = Made
    BY DEF Made
  <2> QED
    BY <1>2, <2>1 DEF NamesFiles, ManifestNamesFiles, VersionsNameFiles, BackgroundNamesFiles
<1> QED
  BY <1>1, <1>4, <1>5 DEF NamesFiles

\* Tables that are named are not overwritten.
TablesStay ==
    \A n \in DOMAIN disk.tables \cap DOMAIN disk'.tables :
        n \in Numbers(disk.manifest.version) \cup Numbers(db.current)
            => disk'.tables[n] = disk.tables[n]

\* A step of a writer keeps the files: at most a log gets a new number.
LEMMA NamesWriter ==
    ASSUME Shape, NamesFiles, NEW w \in Writers, WriterStep(w) \/ \E b \in Batches : Write(w, b)
    PROVE  NamesFiles' /\ disk'.tables = disk.tables
<1> USE Fields DEF Shape
<1>0. \A c \in db.seek : c[1] \in Levels /\ c[2] \in db.current[c[1]]
  BY DEF NamesFiles, VersionsNameFiles
<1>1. CASE \E b \in Batches : Write(w, b)
  BY <1>0, <1>1, NamesKept DEF Write
<1>2. CASE WaitForRoom(w)
  BY <1>0, <1>2, NamesKept DEF WaitForRoom
<1>3. CASE NoRoom(w)
  BY <1>0, <1>3, NamesKept DEF NoRoom
<1>4. CASE BeginWrite(w)
  <2> DEFINE d == IF HasRoom THEN db ELSE SwitchMemTable(db)
  <2>1. /\ db' = d /\ UNCHANGED <<bg, reader>>
        /\ disk' = [disk EXCEPT !.logs = IF HasRoom THEN @ ELSE With(@, d.log, EmptyLog)]
    BY <1>4 DEF BeginWrite
  <2>2. /\ d.up = db.up /\ d.current = db.current /\ d.pending = db.pending /\ d.seek = db.seek
        /\ d.replay = db.replay /\ d.bgError = db.bgError
        /\ d.nextFile \in {db.nextFile, db.nextFile + 1} /\ (~HasRoom => d.log = db.nextFile)
    BY DEF SwitchMemTable, MaybeSchedule
  <2> HIDE DEF d
  <2>3. disk'.manifest = disk.manifest /\ disk'.tables = disk.tables
    BY <2>1
  <2>4. DOMAIN disk'.logs \subseteq DOMAIN disk.logs \cup {db.nextFile}
    <3>1. CASE HasRoom
      BY <2>1, <3>1
    <3>2. CASE ~HasRoom
      <4>1. disk'.logs = With(disk.logs, db.nextFile, EmptyLog)
        BY <2>1, <2>2, <3>2
      <4>2. DOMAIN With(disk.logs, db.nextFile, EmptyLog) = DOMAIN disk.logs \cup {db.nextFile}
        BY DEF With, Overlay
      <4> QED
        BY <4>1, <4>2
    <3> QED
      BY <3>1, <3>2
  <2> QED
    BY <1>0, <2>1, <2>2, <2>3, <2>4, NamesKept
<1>5. CASE AppendToLog(w)
  BY <1>0, <1>5, NamesKept DEF AppendToLog
<1>6. CASE Sync(w)
  BY <1>0, <1>6, NamesKept DEF Sync
<1>7. CASE SyncFails(w)
  BY <1>0, <1>7, NamesKept DEF SyncFails
<1>8. CASE InsertIntoMemTable(w)
  BY <1>0, <1>8, NamesKept DEF InsertIntoMemTable
<1>9. CASE Publish(w)
  BY <1>0, <1>9, NamesKept DEF Publish
<1> QED
  BY <1>1, <1>2, <1>3, <1>4, <1>5, <1>6, <1>7, <1>8, <1>9 DEF WriterStep

\* A step of a reader, or with a snapshot, keeps the files.
LEMMA NamesReader ==
    ASSUME Shape, NamesFiles,
           \/ \E s \in Snapshots : GetSnapshot(s) \/ ReleaseSnapshot(s)
           \/ \E r \in Readers : BeginRead(r) \/ EndRead(r)
    PROVE  NamesFiles' /\ disk'.tables = disk.tables
<1> USE Fields DEF Shape
<1>0. \A c \in db.seek : c[1] \in Levels /\ c[2] \in db.current[c[1]]
  BY DEF NamesFiles, VersionsNameFiles
<1>1. ASSUME NEW s \in Snapshots, GetSnapshot(s) PROVE NamesFiles' /\ disk'.tables = disk.tables
  BY <1>0, <1>1, NamesKept DEF GetSnapshot
<1>2. ASSUME NEW s \in Snapshots, ReleaseSnapshot(s) PROVE NamesFiles' /\ disk'.tables = disk.tables
  BY <1>0, <1>2, NamesKept DEF ReleaseSnapshot
<1>3. ASSUME NEW r \in Readers, BeginRead(r) PROVE NamesFiles' /\ disk'.tables = disk.tables
  BY <1>0, <1>3, NamesKept DEF BeginRead
<1>4. ASSUME NEW r \in Readers, EndRead(r) PROVE NamesFiles' /\ disk'.tables = disk.tables
  <2>1. /\ UNCHANGED <<disk, bg>> /\ reader' = [reader EXCEPT ![r] = NotReading]
        /\ UNCHANGED db \/ \E k \in Keys : db' = MaybeSchedule([db EXCEPT
                               !.seek = SeekCharge(db.current, disk.tables, k, reader[r].seq)])
    BY <1>4, Zenon DEF EndRead
  <2>2. \A q \in Readers : reader'[q].version \in {reader[q].version, NoFiles}
    BY <2>1 DEF NotReading
  <2>3. CASE UNCHANGED db
    BY <1>0, <2>1, <2>2, <2>3, NamesKept
  <2>4. ASSUME NEW k \in Keys, db' = MaybeSchedule([db EXCEPT
                               !.seek = SeekCharge(db.current, disk.tables, k, reader[r].seq)])
        PROVE  NamesFiles' /\ disk'.tables = disk.tables
    <3>1. \A c \in db'.seek : c[1] \in Levels /\ c[2] \in db.current[c[1]]
      BY <2>4, ChargedIsFile DEF MaybeSchedule
    <3>2. /\ db'.up = db.up /\ db'.current = db.current /\ db'.pending = db.pending
          /\ db'.replay = db.replay /\ db'.bgError = db.bgError /\ db'.nextFile = db.nextFile
      BY <2>4 DEF MaybeSchedule
    <3> QED
      BY <2>1, <2>2, <3>1, <3>2, NamesKept
  <2> QED
    BY <2>1, <2>3, <2>4
<1> QED
  BY <1>1, <1>2, <1>3, <1>4

\* The database d, open on the disk k, names files that are there.
DbNames(d, k) ==
    /\ DOMAIN d = DOMAIN Closed /\ d.up = "open"
    /\ d.nextFile \in Nat /\ k.manifest.nextFile <= d.nextFile
    /\ Numbers(d.current) \subseteq Below(d.nextFile) \cap DOMAIN k.tables
    /\ ~d.bgError => d.current = k.manifest.version
    /\ d.pending \subseteq Below(d.nextFile) /\ d.replay.logs \subseteq Nat
    /\ \A c \in d.seek : c[1] \in Levels /\ c[2] \in d.current[c[1]]

\* While the database is open that is what VersionsNameFiles says.
LEMMA OpenNames ==
    ASSUME Shape, NamesFiles, db.up = "open"
    PROVE  DbNames(db, disk) /\ \A r \in Readers : Numbers(reader[r].version) \subseteq DOMAIN disk.tables
BY DEF Shape, NamesFiles, VersionsNameFiles, DbNames

\* And back.
LEMMA NamesAgain ==
    ASSUME NEW d, NEW k, disk' = k, DbNames(d, k),
           \A x \in DOMAIN Closed \ {"scheduled"} : db'[x] = d[x],
           \A r \in Readers : Numbers(reader'[r].version) \subseteq DOMAIN disk'.tables
    PROVE  VersionsNameFiles'
<1>1. /\ db'.up = d.up /\ db'.nextFile = d.nextFile /\ db'.current = d.current
      /\ db'.bgError = d.bgError /\ db'.pending = d.pending /\ db'.replay = d.replay
      /\ db'.seek = d.seek
  BY Fields
<1> QED
  BY <1>1 DEF DbNames, VersionsNameFiles

\* When the background thread has become idle it names no file.
LEMMA NamesEndBackground ==
    ASSUME NEW d, NEW k, disk' = k, DbNames(d, k), EndBackground(d), ManifestNamesFiles',
           \A r \in Readers : Numbers(reader'[r].version) \subseteq DOMAIN disk'.tables
    PROVE  NamesFiles'
<1> DEFINE b == [d EXCEPT !.scheduled = FALSE]
<1>1. DOMAIN b = DOMAIN Closed /\ \A x \in DOMAIN Closed \ {"scheduled"} : b[x] = d[x]
  BY DEF DbNames
<1>2. db' = MaybeSchedule(b) /\ bg' = BgIdle
  BY DEF EndBackground
<1> HIDE DEF b
<1>3. \A x \in DOMAIN Closed \ {"scheduled"} : db'[x] = d[x]
  BY <1>1, <1>2, MaybeScheduleShape
<1>4. VersionsNameFiles'
  BY <1>3, NamesAgain
<1>5. BackgroundNamesFiles'
  BY <1>2, IdleNamesNothing DEF BackgroundNamesFiles, Made
<1> QED
  BY <1>4, <1>5 DEF NamesFiles

\* A merge that goes on still names files that are there.
LEMMA NamesResume ==
    ASSUME Shape, NamesFiles, NEW d, NEW k, disk' = k, DbNames(d, k), Resume(d),
           ManifestNamesFiles',
           \A r \in Readers : Numbers(reader'[r].version) \subseteq DOMAIN disk'.tables,
           Numbers(bg.c.version) \subseteq DOMAIN disk'.tables,
           Made \subseteq d.pending \cap DOMAIN disk'.tables
    PROVE  NamesFiles'
<1>1. CASE EndBackground(d)
  BY <1>1, NamesEndBackground
<1>2. CASE bg' = [bg EXCEPT !.pc = "merge", !.num = 0, !.edit = NoEdit] /\ db' = d
  <2>1. VersionsNameFiles'
    BY <1>2, NamesAgain
  <2>2. bg'.pc = "merge" /\ bg'.num = 0 /\ bg'.made = bg.made /\ bg'.c = bg.c
    BY <1>2, Fields DEF Shape
  <2>3. Made' = Made
    BY <2>2 DEF Made
  <2>4. 0 \notin Made
    BY DEF NamesFiles, BackgroundNamesFiles, VersionsNameFiles, Below
  <2>5. BackgroundNamesFiles'
    BY <1>2, <2>2, <2>3, <2>4 DEF BackgroundNamesFiles
  <2> QED
    BY <2>1, <2>5 DEF NamesFiles
<1> QED
  BY <1>1, <1>2 DEF Resume

\* With the edit of the background thread, the manifest and the current version name
\* files that are there.
LEMMA NamesLogged ==
    ASSUME Shape, NamesFiles, bg.pc = "log", disk' = [disk EXCEPT !.manifest = Logged(@, bg.edit)]
    PROVE  /\ ManifestNamesFiles' /\ disk'.tables = disk.tables
           /\ disk'.manifest.nextFile <= db.nextFile
           /\ disk'.manifest.version = Apply(disk.manifest.version, bg.edit)
           /\ Numbers(Apply(db.current, bg.edit)) \subseteq Below(db.nextFile) \cap DOMAIN disk.tables
<1>1. /\ disk'.tables = disk.tables /\ disk'.logs = disk.logs
      /\ disk'.manifest.nextFile = bg.edit.nextFile
      /\ disk'.manifest.version = Apply(disk.manifest.version, bg.edit)
  BY Fields DEF Shape, Logged
<1>2. /\ bg.edit.nextFile \in disk.manifest.nextFile..db.nextFile
      /\ Added(bg.edit) \subseteq Below(bg.edit.nextFile) \cap DOMAIN disk.tables
  BY DEF NamesFiles, BackgroundNamesFiles
<1>3. /\ disk.manifest.nextFile \in Nat /\ disk.manifest.nextFile > 0 /\ db.nextFile \in Nat
      /\ Numbers(disk.manifest.version) \subseteq Below(disk.manifest.nextFile) \cap DOMAIN disk.tables
      /\ Numbers(db.current) \subseteq Below(db.nextFile) \cap DOMAIN disk.tables
      /\ DOMAIN disk.logs \subseteq Nat
  BY DEF NamesFiles, ManifestNamesFiles, VersionsNameFiles
<1>4. /\ Below(disk.manifest.nextFile) \subseteq Below(bg.edit.nextFile)
      /\ Below(bg.edit.nextFile) \subseteq Below(db.nextFile)
  BY <1>2, <1>3 DEF Below
<1>5. /\ Numbers(Apply(disk.manifest.version, bg.edit))
             \subseteq Numbers(disk.manifest.version) \cup Added(bg.edit)
      /\ Numbers(Apply(db.current, bg.edit)) \subseteq Numbers(db.current) \cup Added(bg.edit)
  BY NumbersOfApply
<1>6. Numbers(Apply(db.current, bg.edit)) \subseteq Below(db.nextFile) \cap DOMAIN disk.tables
  BY <1>2, <1>3, <1>4, <1>5
<1>7. ManifestNamesFiles'
  BY <1>1, <1>2, <1>3, <1>4, <1>5 DEF ManifestNamesFiles
<1> QED
  BY <1>1, <1>2, <1>3, <1>6, <1>7

\* What the invariant says of the numbers, in one place.
LEMMA NamesFacts ==
    ASSUME NamesFiles, db.up = "open"
    PROVE  /\ disk.manifest.nextFile \in Nat /\ disk.manifest.nextFile > 0
           /\ db.nextFile \in Nat /\ disk.manifest.nextFile <= db.nextFile
           /\ Below(disk.manifest.nextFile) \subseteq Below(db.nextFile)
           /\ Numbers(disk.manifest.version) \subseteq Below(disk.manifest.nextFile)
                                                       \cap DOMAIN disk.tables
           /\ Numbers(db.current) \subseteq Below(db.nextFile) \cap DOMAIN disk.tables
           /\ db.pending \subseteq Below(db.nextFile)
           /\ Made \subseteq db.pending \cap DOMAIN disk.tables
           /\ bg.num \in {0} \cup Below(db.nextFile) /\ bg.num \notin Made
           /\ Numbers(bg.c.version) \subseteq DOMAIN disk.tables
           /\ DOMAIN disk.logs \subseteq Nat
           /\ \A r \in Readers : Numbers(reader[r].version) \subseteq DOMAIN disk.tables
BY DEF NamesFiles, ManifestNamesFiles, VersionsNameFiles, BackgroundNamesFiles, Below

\* A number is taken from next_file_number_.
LEMMA NextNumber ==
    ASSUME NEW n \in Nat, n > 0
    PROVE  n \in Below(n + 1) /\ n \notin Below(n) /\ Below(n) \subseteq Below(n + 1)
BY DEF Below

\* The first step of the background thread for a memtable reserves a number.
LEMMA NamesBeginCompactMemTable ==
    ASSUME Shape, NamesFiles, BeginCompactMemTable
    PROVE  NamesFiles' /\ TablesStay
<1>1. /\ db.up = "open" /\ UNCHANGED <<disk, reader>>
      /\ bg' = [bg EXCEPT !.pc = "build", !.kind = "flush", !.num = db.nextFile]
      /\ db' = [db EXCEPT !.nextFile = @ + 1, !.pending = @ \cup {db.nextFile}]
  BY DEF BeginCompactMemTable, Open
<1> DEFINE d == [db EXCEPT !.nextFile = @ + 1, !.pending = @ \cup {db.nextFile}]
<1>2. /\ DOMAIN d = DOMAIN Closed /\ d.nextFile = db.nextFile + 1
      /\ d.pending = db.pending \cup {db.nextFile}
      /\ \A x \in DOMAIN Closed \ {"nextFile", "pending"} : d[x] = db[x]
  BY Fields DEF Shape
<1>3. d.up = db.up /\ d.current = db.current /\ d.bgError = db.bgError
      /\ d.replay = db.replay /\ d.seek = db.seek
  BY <1>2, Fields
<1> HIDE DEF d
<1>4. db.nextFile > 0
  BY <1>1, NamesFacts
<1>5. DbNames(db, disk)
  BY <1>1, OpenNames
<1>6. DbNames(d, disk)
  BY <1>1, <1>2, <1>3, <1>4, <1>5, NamesFacts, NextNumber DEF DbNames
<1>7. VersionsNameFiles'
  BY <1>1, <1>6, NamesAgain, OpenNames DEF d
<1>8. /\ bg'.pc = "build" /\ bg'.num = db.nextFile /\ bg'.made = bg.made /\ bg'.c = bg.c
  BY <1>1, Fields DEF Shape
<1>9. Made' = Made
  BY <1>8 DEF Made
<1>10. /\ db'.nextFile = db.nextFile + 1 /\ db'.pending = db.pending \cup {db.nextFile}
       /\ db'.current = db.current
  BY <1>1, <1>2, <1>3 DEF d
<1>11. BackgroundNamesFiles'
  BY <1>1, <1>4, <1>8, <1>9, <1>10, NamesFacts, NextNumber DEF BackgroundNamesFiles
<1>12. ManifestNamesFiles' /\ TablesStay
  BY <1>1 DEF NamesFiles, ManifestNamesFiles, TablesStay
<1> QED
  BY <1>7, <1>11, <1>12 DEF NamesFiles

\* The table of a memtable is built at the reserved number, which no version names.
LEMMA NamesBuildTable ==
    ASSUME Shape, NamesFiles, BuildTable
    PROVE  NamesFiles' /\ TablesStay
<1>1. /\ db.up = "open" /\ bg.pc = "build" /\ UNCHANGED reader
      /\ db' = [db EXCEPT !.pending = @ \ {bg.num}]
  BY DEF BuildTable, Open
<1>2. \E E, level :
        /\ disk' = IF E = {} THEN disk ELSE [disk EXCEPT !.tables = With(@, bg.num, E)]
        /\ bg' = [bg EXCEPT !.pc = "log",
                    !.edit = FlushEdit(IF E = {} THEN {} ELSE {<<level, Meta(bg.num, E)>>})]
  BY DEF BuildTable
<1>3. PICK E, level :
        /\ disk' = IF E = {} THEN disk ELSE [disk EXCEPT !.tables = With(@, bg.num, E)]
        /\ bg' = [bg EXCEPT !.pc = "log",
                    !.edit = FlushEdit(IF E = {} THEN {} ELSE {<<level, Meta(bg.num, E)>>})]
  BY <1>2
<1>4. /\ bg.num \in db.pending
      /\ bg.num \notin Numbers(disk.manifest.version) \cup Numbers(db.current)
  BY <1>1 DEF NamesFiles, BackgroundNamesFiles
<1>5. /\ disk'.manifest = disk.manifest /\ disk'.logs = disk.logs
      /\ disk'.tables = IF E = {} THEN disk.tables ELSE With(disk.tables, bg.num, E)
  BY <1>3, Fields DEF Shape
<1>6. /\ DOMAIN disk.tables \subseteq DOMAIN disk'.tables
      /\ \A n \in DOMAIN disk.tables \ {bg.num} : disk'.tables[n] = disk.tables[n]
      /\ E # {} => bg.num \in DOMAIN disk'.tables
  <2>1. CASE E = {}
    BY <2>1, <1>5
  <2>2. CASE E # {}
    BY <2>2, <1>5 DEF With, Overlay
  <2> QED
    BY <2>1, <2>2
<1>7. TablesStay
  BY <1>4, <1>6 DEF TablesStay
<1>8. /\ db'.up = db.up /\ db'.current = db.current /\ db'.bgError = db.bgError
      /\ db'.nextFile = db.nextFile /\ db'.replay = db.replay /\ db'.seek = db.seek
      /\ db'.pending = db.pending \ {bg.num}
  BY <1>1, Fields DEF Shape
<1>9. ManifestNamesFiles'
  BY <1>5, <1>6 DEF NamesFiles, ManifestNamesFiles
<1>10. VersionsNameFiles'
  BY <1>1, <1>5, <1>6, <1>8 DEF NamesFiles, VersionsNameFiles
<1>11. bg'.num = bg.num /\ bg'.made = bg.made /\ bg'.c = bg.c /\ bg'.pc = "log"
  BY <1>3, Fields DEF Shape
<1>12. bg'.edit = FlushEdit(IF E = {} THEN {} ELSE {<<level, Meta(bg.num, E)>>})
  BY <1>3, Fields DEF Shape
<1>13. bg'.edit.nextFile = db.nextFile /\ Added(bg'.edit) \subseteq IF E = {} THEN {} ELSE {bg.num}
  <2>1. /\ bg'.edit.nextFile = db.nextFile
        /\ bg'.edit.added = IF E = {} THEN {} ELSE {<<level, Meta(bg.num, E)>>}
    BY <1>12 DEF FlushEdit, Edit
  <2>2. <<level, Meta(bg.num, E)>>[2].num = bg.num
    BY DEF Meta
  <2> QED
    BY <2>1, <2>2 DEF Added
<1>14. Made' = Made
  BY <1>11 DEF Made
<1>15. BackgroundNamesFiles'
  BY <1>1, <1>4, <1>5, <1>6, <1>8, <1>11, <1>13, <1>14, NamesFacts DEF BackgroundNamesFiles
<1> QED
  BY <1>7, <1>9, <1>10, <1>15 DEF NamesFiles

\* A compaction moves a file of the current version, or remembers that version.
LEMMA NamesBeginCompaction ==
    ASSUME Shape, NamesFiles, FinitelyMany, BeginCompaction
    PROVE  NamesFiles' /\ TablesStay
<1>1. db.up = "open" /\ bg.pc = "idle" /\ UNCHANGED <<disk, reader>>
  BY Zenon DEF BeginCompaction, Open
<1>2. PICK p \in ToCompact(db.current, db.pointers, db.seek) : \E c, e, todo, pointers :
          c = PickCompaction(db.current, p[1], p[2]) /\ Begins(c, e, todo, pointers)
  BY CompactionBegun
<1>3. PICK c, e, todo, pointers :
          c = PickCompaction(db.current, p[1], p[2]) /\ Begins(c, e, todo, pointers)
  BY <1>2
<1>4. p[1] \in Levels /\ p[2] \in db.current[p[1]]
  BY StartsFromFile DEF NamesFiles, VersionsNameFiles
<1>5. c.version = db.current /\ c.inputs0 \subseteq db.current[p[1]]
  BY <1>3, <1>4, PickedFiles DEF FinitelyMany
<1>6. db' = [db EXCEPT !.pointers = pointers]
  BY <1>3 DEF Begins
<1>7. /\ db'.up = db.up /\ db'.current = db.current /\ db'.bgError = db.bgError
      /\ db'.nextFile = db.nextFile /\ db'.replay = db.replay /\ db'.seek = db.seek
      /\ db'.pending = db.pending
  BY <1>6, Fields DEF Shape
<1>8. ManifestNamesFiles' /\ VersionsNameFiles' /\ TablesStay
  BY <1>1, <1>7 DEF NamesFiles, ManifestNamesFiles, VersionsNameFiles, TablesStay
<1>9. CASE bg' = [bg EXCEPT !.pc = "merge", !.c = c, !.todo = todo]
  <2>1. bg'.pc = "merge" /\ bg'.c = c /\ bg'.num = bg.num /\ bg'.made = bg.made
    BY <1>9, Fields DEF Shape
  <2>2. Made' = Made
    BY <2>1 DEF Made
  <2>3. BackgroundNamesFiles'
    BY <1>1, <1>5, <1>7, <2>1, <2>2, NamesFacts DEF BackgroundNamesFiles
  <2> QED
    BY <1>8, <2>3 DEF NamesFiles
<1>10. ASSUME bg' = [bg EXCEPT !.pc = "log", !.kind = "move", !.edit = e],
              NEW f, c.inputs0 = {f},
              e = Edit({<<c.level + 1, f>>}, {<<c.level, f.num>>}, db.logNumber, Pointer(c))
       PROVE  NamesFiles'
  <2>1. bg'.pc = "log" /\ bg'.c = bg.c /\ bg'.num = bg.num /\ bg'.made = bg.made /\ bg'.edit = e
    BY <1>10, Fields DEF Shape
  <2>2. Made' = Made
    BY <2>1 DEF Made
  <2>3. e.nextFile = db.nextFile /\ e.added = {<<c.level + 1, f>>}
    BY <1>10 DEF Edit
  <2>4. Added(e) = {f.num}
    BY <2>3 DEF Added
  <2>5. f.num \in Numbers(db.current)
    BY <1>4, <1>5, <1>10, NumberOfFile
  <2>6. BackgroundNamesFiles'
    BY <1>1, <1>7, <2>1, <2>2, <2>3, <2>4, <2>5, NamesFacts DEF BackgroundNamesFiles
  <2> QED
    BY <1>8, <2>6 DEF NamesFiles
<1> QED
  BY <1>3, <1>8, <1>9, <1>10 DEF Begins

\* An output file of a merge is written to the next number.
LEMMA NamesWriteOutput ==
    ASSUME Shape, NamesFiles, WriteOutput
    PROVE  NamesFiles' /\ TablesStay
<1> DEFINE n == db.nextFile
           f == Meta(n, Head(bg.todo))
<1>1. /\ db.up = "open" /\ bg.pc = "merge" /\ UNCHANGED reader
      /\ disk' = [disk EXCEPT !.tables = With(@, n, Head(bg.todo))]
      /\ bg' = [bg EXCEPT !.todo = Tail(@), !.made = Append(@, f)]
      /\ db' = [db EXCEPT !.nextFile = n + 1, !.pending = @ \cup {n}]
  BY DEF WriteOutput, Open
<1>2. f.num = n
  BY DEF Meta
<1> HIDE DEF f
<1>3. /\ disk'.manifest = disk.manifest /\ disk'.logs = disk.logs
      /\ disk'.tables = With(disk.tables, n, Head(bg.todo))
  BY <1>1, Fields DEF Shape
<1>4. /\ DOMAIN disk'.tables = DOMAIN disk.tables \cup {n}
      /\ \A m \in DOMAIN disk.tables \ {n} : disk'.tables[m] = disk.tables[m]
  BY <1>3 DEF With, Overlay
<1>5. /\ db'.up = db.up /\ db'.current = db.current /\ db'.bgError = db.bgError
      /\ db'.nextFile = n + 1 /\ db'.replay = db.replay /\ db'.seek = db.seek
      /\ db'.pending = db.pending \cup {n}
  BY <1>1, Fields DEF Shape
<1>6. n \in Nat /\ n > 0 /\ n \notin Numbers(disk.manifest.version) \cup Numbers(db.current)
  BY <1>1, NamesFacts, NextNumber
<1>7. TablesStay
  BY <1>4, <1>6 DEF TablesStay
<1>8. ManifestNamesFiles'
  BY <1>3, <1>4 DEF NamesFiles, ManifestNamesFiles
<1>9. n \in Below(n + 1) /\ n \notin Below(n) /\ Below(n) \subseteq Below(n + 1)
  BY <1>6, NextNumber
<1>10. VersionsNameFiles'
  BY <1>1, <1>3, <1>4, <1>5, <1>6, <1>9, NamesFacts DEF NamesFiles, VersionsNameFiles
<1>11. /\ bg'.made = Append(bg.made, f) /\ bg'.num = bg.num /\ bg'.c = bg.c /\ bg'.pc = bg.pc
  BY <1>1, Fields DEF Shape
<1>12. Made' \subseteq Made \cup {n}
  <2>1. bg.made \in Seq(Range(bg.made) \cup {f})
    BY SeqMonotonic DEF Shape
  <2>2. /\ Len(bg'.made) = Len(bg.made) + 1 /\ Len(bg.made) \in Nat
        /\ DOMAIN bg.made = 1..Len(bg.made) /\ DOMAIN bg'.made = 1..Len(bg'.made)
        /\ \A i \in 1..Len(bg.made) : bg'.made[i] = bg.made[i]
        /\ bg'.made[Len(bg.made) + 1] = f
    BY <1>11, <2>1, AppendProperties, LenProperties
  <2>3. \A i \in DOMAIN bg'.made : bg'.made[i] = f \/ (i \in DOMAIN bg.made /\ bg'.made[i] = bg.made[i])
    BY <2>2
  <2> QED
    BY <1>2, <2>3 DEF Made
<1>13. BackgroundNamesFiles'
  BY <1>1, <1>3, <1>4, <1>5, <1>6, <1>9, <1>11, <1>12, NamesFacts DEF BackgroundNamesFiles
<1> QED
  BY <1>7, <1>8, <1>10, <1>13 DEF NamesFiles

\* The edit of a merge names the files that were made.
LEMMA NamesEndMerge ==
    ASSUME Shape, NamesFiles, EndMerge
    PROVE  NamesFiles' /\ TablesStay
<1>1. db.up = "open" /\ UNCHANGED <<disk, db, reader>>
  BY DEF EndMerge, Open
<1>2. \E deleted : bg' = [bg EXCEPT !.pc = "log", !.kind = "merge",
          !.edit = Edit({<<bg.c.level + 1, bg.made[i]>> : i \in DOMAIN bg.made}, deleted,
                        db.logNumber, Pointer(bg.c))]
  BY DEF EndMerge
<1>3. PICK deleted : bg' = [bg EXCEPT !.pc = "log", !.kind = "merge",
          !.edit = Edit({<<bg.c.level + 1, bg.made[i]>> : i \in DOMAIN bg.made}, deleted,
                        db.logNumber, Pointer(bg.c))]
  BY <1>2
<1>4. /\ bg'.num = bg.num /\ bg'.made = bg.made /\ bg'.c = bg.c
      /\ bg'.edit = Edit({<<bg.c.level + 1, bg.made[i]>> : i \in DOMAIN bg.made}, deleted,
                         db.logNumber, Pointer(bg.c))
      /\ bg'.pc = "log"
  BY <1>3, Fields DEF Shape
<1>5. /\ bg'.edit.nextFile = db.nextFile
      /\ bg'.edit.added = {<<bg.c.level + 1, bg.made[i]>> : i \in DOMAIN bg.made}
  BY <1>4 DEF Edit
<1>6. Added(bg'.edit) \subseteq Made /\ Made' = Made
  BY <1>4, <1>5 DEF Added, Made
<1>7. Added(bg'.edit) \subseteq Below(db.nextFile) \cap DOMAIN disk.tables
  BY <1>1, <1>6, NamesFacts
<1>8. bg'.edit.nextFile \in disk.manifest.nextFile..db.nextFile
  BY <1>1, <1>5, NamesFacts
<1>9. BackgroundNamesFiles'
  BY <1>1, <1>4, <1>5, <1>6, <1>7, <1>8, NamesFacts DEF BackgroundNamesFiles
<1> QED
  BY <1>1, <1>9 DEF NamesFiles, ManifestNamesFiles, VersionsNameFiles, TablesStay

\* With a new version the manifest and the database name the same files.
LEMMA NamesInstallVersion ==
    ASSUME Shape, NamesFiles, InstallVersion
    PROVE  NamesFiles' /\ TablesStay
<1> DEFINE d == [db EXCEPT !.current = Apply(@, bg.edit), !.logNumber = bg.edit.log, !.seek = {}]
<1>1. /\ db.up = "open" /\ bg.pc = "log" /\ UNCHANGED reader
      /\ disk' = [disk EXCEPT !.manifest = Logged(@, bg.edit)]
  BY DEF InstallVersion, Open
<1>2. /\ ManifestNamesFiles' /\ disk'.tables = disk.tables
      /\ disk'.manifest.nextFile <= db.nextFile
      /\ disk'.manifest.version = Apply(disk.manifest.version, bg.edit)
      /\ Numbers(Apply(db.current, bg.edit)) \subseteq Below(db.nextFile) \cap DOMAIN disk.tables
  BY <1>1, NamesLogged
<1>3. /\ DOMAIN d = DOMAIN Closed /\ d.current = Apply(db.current, bg.edit) /\ d.seek = {}
      /\ d.up = db.up /\ d.nextFile = db.nextFile /\ d.bgError = db.bgError
      /\ d.pending = db.pending /\ d.replay = db.replay
  BY Fields DEF Shape
<1> HIDE DEF d
<1>4. DbNames(db, disk)
  BY <1>1, OpenNames
<1>5. PICK k : k = disk'
  OBVIOUS
<1>6. DbNames(d, k)
  BY <1>1, <1>2, <1>3, <1>4, <1>5 DEF DbNames
<1>7. \A r \in Readers : Numbers(reader'[r].version) \subseteq DOMAIN disk'.tables
  BY <1>1, <1>2, NamesFacts
<1>8. TablesStay
  BY <1>2 DEF TablesStay
<1>9. CASE EndBackground(d)
  BY <1>2, <1>5, <1>6, <1>7, <1>8, <1>9, NamesEndBackground
<1>10. CASE db' = [d EXCEPT !.imm = {}] /\ bg' = [bg EXCEPT !.pc = "cleanup"]
  <2> DEFINE e == [d EXCEPT !.imm = {}]
  <2>1. /\ DOMAIN e = DOMAIN Closed /\ e.current = d.current /\ e.seek = d.seek
        /\ e.up = d.up /\ e.nextFile = d.nextFile /\ e.bgError = d.bgError
        /\ e.pending = d.pending /\ e.replay = d.replay
    BY <1>3, Fields
  <2> HIDE DEF e
  <2>2. DbNames(e, k)
    BY <1>6, <2>1 DEF DbNames
  <2>3. VersionsNameFiles'
    BY <1>5, <1>7, <1>10, <2>2, NamesAgain DEF e
  <2>4. /\ bg'.pc = "cleanup" /\ bg'.num = bg.num /\ bg'.made = bg.made /\ bg'.c = bg.c
    BY <1>10, Fields DEF Shape
  <2>5. Made' = Made /\ db'.nextFile = db.nextFile /\ db'.pending = db.pending
    BY <1>3, <1>10, <2>1, <2>4 DEF Made, e
  <2>6. BackgroundNamesFiles'
    BY <1>1, <1>2, <2>4, <2>5, NamesFacts DEF BackgroundNamesFiles
  <2> QED
    BY <1>2, <1>8, <2>3, <2>6 DEF NamesFiles
<1>11. CASE db' = Unpend(d) /\ bg' = [BgIdle EXCEPT !.pc = "cleanup", !.kind = "merge"]
  <2> DEFINE e == Unpend(d)
  <2>1. /\ DOMAIN e = DOMAIN Closed /\ e.current = d.current /\ e.seek = d.seek
        /\ e.up = d.up /\ e.nextFile = d.nextFile /\ e.bgError = d.bgError
        /\ e.pending \subseteq d.pending /\ e.replay = d.replay
    BY <1>3, Fields DEF Unpend
  <2> HIDE DEF e
  <2>2. DbNames(e, k)
    BY <1>6, <2>1 DEF DbNames
  <2>3. VersionsNameFiles'
    BY <1>5, <1>7, <1>11, <2>2, NamesAgain DEF e
  <2>4. /\ bg'.pc = "cleanup" /\ bg'.num = BgIdle.num /\ bg'.made = BgIdle.made
        /\ bg'.c = BgIdle.c
    BY <1>11, Fields
  <2>5. BackgroundNamesFiles'
    BY <2>4, IdleNamesNothing DEF BackgroundNamesFiles, Made
  <2> QED
    BY <1>2, <1>8, <2>3, <2>5 DEF NamesFiles
<1> QED
  BY <1>9, <1>10, <1>11 DEF InstallVersion, d

\* After an error the manifest may or may not have the edit; no number in use is lost.
LEMMA NamesBackgroundError ==
    ASSUME Shape, NamesFiles, BackgroundError
    PROVE  NamesFiles' /\ TablesStay
<1> DEFINE d == [db EXCEPT !.bgError = TRUE, !.pending = @ \ {bg.num}]
<1>1. db.up = "open" /\ UNCHANGED reader
  BY DEF BackgroundError, Open
<1>2. UNCHANGED disk \/ (bg.pc = "log" /\ disk' = [disk EXCEPT !.manifest = Logged(@, bg.edit)])
  BY DEF BackgroundError
<1>3. /\ ManifestNamesFiles' /\ disk'.tables = disk.tables /\ disk'.manifest.nextFile <= db.nextFile
  <2>1. CASE UNCHANGED disk
    BY <1>1, <2>1, NamesFacts DEF NamesFiles, ManifestNamesFiles
  <2>2. CASE bg.pc = "log" /\ disk' = [disk EXCEPT !.manifest = Logged(@, bg.edit)]
    BY <2>2, NamesLogged
  <2> QED
    BY <1>2, <2>1, <2>2
<1>4. /\ DOMAIN d = DOMAIN Closed /\ d.current = db.current /\ d.seek = db.seek
      /\ d.up = db.up /\ d.nextFile = db.nextFile /\ d.bgError = TRUE
      /\ d.pending = db.pending \ {bg.num} /\ d.replay = db.replay
  BY Fields DEF Shape
<1>5. (EndBackground(Unpend(d)) \/ Resume(d))
  BY DEF BackgroundError
<1> HIDE DEF d
<1>6. DbNames(db, disk)
  BY <1>1, OpenNames
<1>7. PICK k : k = disk'
  OBVIOUS
<1>8. DbNames(d, k)
  BY <1>3, <1>4, <1>6, <1>7 DEF DbNames
<1>9. /\ DOMAIN Unpend(d) = DOMAIN Closed /\ Unpend(d).current = d.current
      /\ Unpend(d).seek = d.seek /\ Unpend(d).up = d.up /\ Unpend(d).nextFile = d.nextFile
      /\ Unpend(d).bgError = d.bgError /\ Unpend(d).pending \subseteq d.pending
      /\ Unpend(d).replay = d.replay
  BY <1>4, Fields DEF Unpend
<1>10. DbNames(Unpend(d), k)
  BY <1>8, <1>9 DEF DbNames
<1>11. \A r \in Readers : Numbers(reader'[r].version) \subseteq DOMAIN disk'.tables
  BY <1>1, <1>3, NamesFacts
<1>12. TablesStay
  BY <1>3 DEF TablesStay
<1>13. CASE EndBackground(Unpend(d))
  BY <1>3, <1>7, <1>10, <1>11, <1>12, <1>13, NamesEndBackground
<1>14. CASE Resume(d)
  <2>1. Numbers(bg.c.version) \subseteq DOMAIN disk'.tables
    BY <1>1, <1>3, NamesFacts
  <2>2. Made \subseteq d.pending \cap DOMAIN disk'.tables
    BY <1>1, <1>3, <1>4, NamesFacts
  <2> QED
    BY <1>3, <1>7, <1>8, <1>11, <1>12, <1>14, <2>1, <2>2, NamesResume
<1> QED
  BY <1>5, <1>13, <1>14

\* Only files that nothing names are deleted.
LEMMA ObsoleteIsNotNamed ==
    ASSUME Shape, NEW k, k = WithoutObsolete(disk)
    PROVE  /\ k.manifest = disk.manifest
           /\ DOMAIN k.tables = DOMAIN disk.tables \cap LiveFiles
           /\ \A n \in DOMAIN k.tables : k.tables[n] = disk.tables[n]
           /\ DOMAIN k.logs = LiveLogs
           /\ \A n \in DOMAIN k.logs : k.logs[n] = disk.logs[n]
<1>1. /\ k.manifest = disk.manifest
      /\ k.tables = Restrict(disk.tables, DOMAIN disk.tables \cap LiveFiles)
      /\ k.logs = Restrict(disk.logs, LiveLogs)
  BY Fields DEF WithoutObsolete, Shape
<1> QED
  BY <1>1 DEF Restrict

\* So the files that are named stay.
LEMMA NamesDeleteObsoleteFiles ==
    ASSUME Shape, NothingBeforeOpen, NamesFiles, DeleteObsoleteFiles
    PROVE  NamesFiles' /\ TablesStay
<1>1. /\ bg.pc = "cleanup" /\ UNCHANGED reader /\ Resume(db)
      /\ disk' = IF db.bgError THEN disk ELSE WithoutObsolete(disk)
  BY DEF DeleteObsoleteFiles
<1>2. db.up = "open"
  BY <1>1, IdleNamesNothing DEF NothingBeforeOpen
<1>3. DbNames(db, disk)
  BY <1>2, OpenNames
<1>4. PICK k : k = disk'
  OBVIOUS
<1>5. /\ k.manifest = disk.manifest /\ DOMAIN k.logs \subseteq DOMAIN disk.logs
      /\ DOMAIN k.tables \subseteq DOMAIN disk.tables
      /\ \A n \in DOMAIN k.tables : k.tables[n] = disk.tables[n]
      /\ ~db.bgError => DOMAIN k.tables = DOMAIN disk.tables \cap LiveFiles
      /\ db.bgError => k = disk
  <2>1. CASE db.bgError
    BY <1>1, <1>4, <2>1
  <2>2. CASE ~db.bgError
    <3>1. k = WithoutObsolete(disk)
      BY <1>1, <1>4, <2>2
    <3> QED
      BY <2>2, <3>1, ObsoleteIsNotNamed DEF LiveLogs
  <2> QED
    BY <2>1, <2>2
<1>6. db.bgError \/ db.current = disk.manifest.version
  BY <1>3 DEF DbNames
<1>7. \A n \in DOMAIN disk.tables :
          (\/ n \in db.pending \cup Numbers(db.current) \cup Numbers(bg.c.version)
           \/ n \in Numbers(disk.manifest.version)
           \/ \E r \in Readers : n \in Numbers(reader[r].version))
              => n \in DOMAIN k.tables
  <2>1. CASE db.bgError
    BY <1>5, <2>1
  <2>2. CASE ~db.bgError
    BY <1>5, <1>6, <2>2 DEF LiveFiles
  <2> QED
    BY <2>1, <2>2
<1>8. /\ Numbers(disk.manifest.version) \subseteq DOMAIN k.tables
      /\ Numbers(db.current) \subseteq DOMAIN k.tables
      /\ Numbers(bg.c.version) \subseteq DOMAIN k.tables
      /\ Made \subseteq db.pending \cap DOMAIN k.tables
      /\ \A r \in Readers : Numbers(reader[r].version) \subseteq DOMAIN k.tables
  BY <1>2, <1>7, NamesFacts
<1>9. DbNames(db, k)
  BY <1>3, <1>5, <1>8 DEF DbNames
<1>10. ManifestNamesFiles'
  BY <1>2, <1>4, <1>5, <1>8, NamesFacts DEF ManifestNamesFiles
<1>11. TablesStay
  BY <1>4, <1>5 DEF TablesStay
<1>12. NamesFiles'
  BY <1>1, <1>4, <1>8, <1>9, <1>10, NamesResume
<1> QED
  BY <1>11, <1>12

\* So a step of the background thread keeps the files.
LEMMA NamesBackground ==
    ASSUME Shape, NothingBeforeOpen, FinitelyMany, NamesFiles, Background
    PROVE  NamesFiles' /\ TablesStay
<1>1. CASE BackgroundAfterError
  <2>1. UNCHANGED <<disk, reader>> /\ db.up = "open" /\ EndBackground(db)
    BY <1>1 DEF BackgroundAfterError, Open
  <2>2. PICK k : k = disk'
    OBVIOUS
  <2>3. DbNames(db, k) /\ ManifestNamesFiles'
    BY <2>1, <2>2, OpenNames DEF NamesFiles, ManifestNamesFiles
  <2>4. \A r \in Readers : Numbers(reader'[r].version) \subseteq DOMAIN disk'.tables
    BY <2>1, NamesFacts
  <2>5. NamesFiles'
    BY <2>1, <2>2, <2>3, <2>4, NamesEndBackground
  <2> QED
    BY <2>1, <2>5 DEF TablesStay
<1> QED
  BY <1>1, NamesBeginCompactMemTable, NamesBuildTable, NamesBeginCompaction, NamesWriteOutput,
     NamesEndMerge, NamesInstallVersion, NamesBackgroundError, NamesDeleteObsoleteFiles
     DEF Background

-----------------------------------------------------------------------------
\* Max of two numbers.
LEMMA MaxOfTwo ==
    ASSUME NEW a \in Nat, NEW b \in Nat
    PROVE  Max({a, b}) \in Nat /\ Max({a, b}) >= a /\ Max({a, b}) >= b
<1>1. \A n \in {a, b} : n <= a + b
  OBVIOUS
<1>2. {a, b} \in SUBSET Nat /\ {a, b} # {} /\ a + b \in Nat
  OBVIOUS
<1>3. Max({a, b}) \in {a, b} /\ \A n \in {a, b} : Max({a, b}) >= n
  BY <1>1, <1>2, MaxIsGreatest
<1> QED
  BY <1>3

\* A recovery starts from what the manifest says.
LEMMA NamesRecover ==
    ASSUME Shape, NothingBeforeOpen, NamesFiles, Recover
    PROVE  NamesFiles' /\ TablesStay
<1>1. /\ db.up = "closed" /\ UNCHANGED <<disk, reader, bg>>
      /\ Numbers(disk.manifest.version) \subseteq DOMAIN disk.tables
  BY DEF Recover
<1>2. /\ db'.up = "replaying" /\ db'.nextFile = disk.manifest.nextFile + 1
      /\ db'.current = disk.manifest.version /\ db'.pending = {} /\ db'.seek = {}
      /\ db'.replay.logs = LogsToReplay(disk.manifest)
  BY DEF Recover, Closed, NoReplay
<1>3. ManifestNamesFiles'
  BY <1>1 DEF NamesFiles, ManifestNamesFiles
<1>4. LogsToReplay(disk.manifest) \subseteq Nat
  BY DEF NamesFiles, ManifestNamesFiles, LogsToReplay
<1>5. Below(disk.manifest.nextFile) \subseteq Below(disk.manifest.nextFile + 1)
  BY DEF NamesFiles, ManifestNamesFiles, Below
<1>6. VersionsNameFiles'
  BY <1>1, <1>2, <1>4, <1>5 DEF NamesFiles, ManifestNamesFiles, VersionsNameFiles
<1>7. bg' = BgIdle
  BY <1>1 DEF NothingBeforeOpen
<1>8. BackgroundNamesFiles'
  BY <1>7, IdleNamesNothing DEF BackgroundNamesFiles, Made
<1> QED
  BY <1>1, <1>3, <1>6, <1>8 DEF NamesFiles, TablesStay

\* A replayed log is written to tables of new numbers, and its own number is taken.
LEMMA NamesReplay ==
    ASSUME Shape, NothingBeforeOpen, NamesFiles, ReplayRecord \/ EndOfLog
    PROVE  NamesFiles' /\ TablesStay
<1> DEFINE n == db.nextFile
<1>1. /\ db.up = "replaying" /\ UNCHANGED <<reader, bg>>
      /\ \A x \in DOMAIN Closed \ {"replay", "lastSeq", "nextFile", "pending"} : db'[x] = db[x]
      /\ db'.replay.logs \in {db.replay.logs, db.replay.logs \ {OldestLog}}
  BY ReplayDoes, Zenon
<1>2. PICK next \in {n, Max({n, OldestLog + 1})} :
          /\ next # n => db.replay.logs # {}
          /\ \/ UNCHANGED disk /\ db'.pending = db.pending /\ db'.nextFile = next
             \/ /\ \E mem : disk' = [disk EXCEPT !.tables = With(@, n, mem)]
                /\ db'.pending = db.pending \cup {n}
                /\ db'.nextFile = Max({next, n + 1})
  BY ReplayDoes
<1>3. /\ db'.up = "replaying" /\ db'.current = db.current /\ db'.seek = db.seek
      /\ db'.bgError = db.bgError
  BY <1>1, Fields
<1>4. n \in Nat /\ n > 0 /\ disk.manifest.nextFile <= n /\ db.replay.logs \subseteq Nat
  BY <1>1 DEF NamesFiles, ManifestNamesFiles, VersionsNameFiles
<1>5. next \in Nat /\ next >= n
  <2>1. CASE next = n
    BY <2>1, <1>4
  <2>2. CASE next # n
    <3>1. \E m \in db.replay.logs : \A l \in db.replay.logs : m <= l
      BY <1>2, <1>4, <2>2, LeastNat
    <3>2. OldestLog \in Nat
      BY <1>4, <3>1 DEF OldestLog, Min
    <3>3. OldestLog + 1 \in Nat
      BY <3>2
    <3> HIDE DEF n
    <3>4. Max({n, OldestLog + 1}) \in Nat /\ Max({n, OldestLog + 1}) >= n
      BY <1>4, <3>3, MaxOfTwo
    <3> QED
      BY <1>2, <2>2, <3>4
  <2> QED
    BY <2>1, <2>2
<1>6. Numbers(disk.manifest.version) \cup Numbers(db.current) \cup db.pending \subseteq Below(n)
  BY <1>1, <1>4 DEF NamesFiles, ManifestNamesFiles, VersionsNameFiles, Below
<1>7. n \notin Below(n)
  BY <1>4, NextNumber
<1>8. db'.replay.logs \subseteq Nat
  BY <1>1, <1>4
<1>9. bg' = BgIdle
  BY <1>1 DEF NothingBeforeOpen
<1>10. BackgroundNamesFiles'
  BY <1>9, IdleNamesNothing DEF BackgroundNamesFiles, Made
<1>11. CASE UNCHANGED disk /\ db'.pending = db.pending /\ db'.nextFile = next
  <2>1. ManifestNamesFiles' /\ TablesStay
    BY <1>11 DEF NamesFiles, ManifestNamesFiles, TablesStay
  <2>2. Below(n) \subseteq Below(next)
    BY <1>4, <1>5 DEF Below
  <2>3. VersionsNameFiles'
    BY <1>1, <1>3, <1>4, <1>5, <1>8, <1>11, <2>2 DEF NamesFiles, ManifestNamesFiles, VersionsNameFiles
  <2> QED
    BY <1>10, <2>1, <2>3 DEF NamesFiles
<1>12. CASE /\ \E mem : disk' = [disk EXCEPT !.tables = With(@, n, mem)]
            /\ db'.pending = db.pending \cup {n} /\ db'.nextFile = Max({next, n + 1})
  <2>1. PICK mem : disk' = [disk EXCEPT !.tables = With(@, n, mem)]
    BY <1>12
  <2>2. /\ disk'.manifest = disk.manifest /\ disk'.logs = disk.logs
        /\ disk'.tables = With(disk.tables, n, mem)
    BY <2>1, Fields DEF Shape
  <2>3. /\ DOMAIN disk'.tables = DOMAIN disk.tables \cup {n}
        /\ \A m \in DOMAIN disk.tables \ {n} : disk'.tables[m] = disk.tables[m]
    BY <2>2 DEF With, Overlay
  <2>4. db'.nextFile \in Nat /\ db'.nextFile >= n + 1
    <3>1. n + 1 \in Nat
      BY <1>4
    <3> HIDE DEF n
    <3> QED
      BY <1>5, <1>12, <3>1, MaxOfTwo
  <2>5. Below(n) \cup {n} \subseteq Below(db'.nextFile)
    BY <1>4, <2>4 DEF Below
  <2>6. ManifestNamesFiles' /\ TablesStay
    BY <1>6, <1>7, <2>2, <2>3 DEF NamesFiles, ManifestNamesFiles, TablesStay
  <2>7. VersionsNameFiles'
    <3>1. db'.up = "replaying" /\ db'.current = db.current /\ db'.bgError = db.bgError
          /\ db'.seek = db.seek /\ UNCHANGED reader /\ db'.pending = db.pending \cup {n}
      BY <1>1, <1>3, <1>12
    <3>2. disk'.manifest.nextFile <= db'.nextFile
      BY <1>4, <2>2, <2>4 DEF NamesFiles, ManifestNamesFiles
    <3>3. Numbers(db.current) \subseteq Below(db'.nextFile) \cap DOMAIN disk'.tables
      BY <1>6, <2>3, <2>5 DEF NamesFiles, VersionsNameFiles
    <3>4. db'.pending \subseteq Below(db'.nextFile) /\ db'.pending \subseteq DOMAIN disk'.tables
      BY <1>1, <1>6, <2>3, <2>5, <3>1 DEF NamesFiles, VersionsNameFiles
    <3>5. \A r \in Readers : Numbers(reader'[r].version) \subseteq DOMAIN disk'.tables
      BY <2>3, <3>1 DEF NamesFiles, VersionsNameFiles
    <3>6. \A c \in db'.seek : c[1] \in Levels /\ c[2] \in db'.current[c[1]]
      BY <3>1 DEF NamesFiles, VersionsNameFiles
    <3>7. db'.current = disk'.manifest.version \/ db'.bgError
      BY <1>1, <2>2, <3>1 DEF NamesFiles, VersionsNameFiles
    <3> QED
      BY <1>8, <2>4, <3>1, <3>2, <3>3, <3>4, <3>5, <3>6, <3>7 DEF VersionsNameFiles
  <2> QED
    BY <1>10, <2>6, <2>7 DEF NamesFiles
<1> QED
  BY <1>2, <1>11, <1>12

\* The new log takes a number.
LEMMA NamesBeginLog ==
    ASSUME Shape, NothingBeforeOpen, NamesFiles, BeginLog
    PROVE  NamesFiles' /\ TablesStay
<1>1. /\ db.up = "replaying" /\ db'.up = "replayed" /\ UNCHANGED <<reader, bg>>
      /\ disk'.manifest = disk.manifest /\ disk'.tables = disk.tables
      /\ disk'.logs = With(disk.logs, db.nextFile, EmptyLog)
      /\ db'.nextFile = db.nextFile + 1 /\ db'.current = db.current /\ db'.seek = db.seek
      /\ db'.bgError = db.bgError /\ db'.pending = db.pending /\ db'.replay = db.replay
  BY Fields DEF BeginLog, Shape
<1>2. DOMAIN disk'.logs = DOMAIN disk.logs \cup {db.nextFile}
  BY <1>1 DEF With, Overlay
<1>3. ManifestNamesFiles' /\ TablesStay
  BY <1>1, <1>2 DEF NamesFiles, ManifestNamesFiles, VersionsNameFiles, TablesStay
<1>4. Below(db.nextFile) \subseteq Below(db.nextFile + 1)
  BY DEF NamesFiles, VersionsNameFiles, Below
<1>5. VersionsNameFiles'
  BY <1>1, <1>4 DEF NamesFiles, ManifestNamesFiles, VersionsNameFiles
<1>6. bg' = BgIdle
  BY <1>1 DEF NothingBeforeOpen
<1>7. BackgroundNamesFiles'
  BY <1>6, IdleNamesNothing DEF BackgroundNamesFiles, Made
<1> QED
  BY <1>3, <1>5, <1>7 DEF NamesFiles

\* The new manifest names the recovered tables too.
LEMMA NamesInstallRecovered ==
    ASSUME Shape, NothingBeforeOpen, NamesFiles, InstallRecovered
    PROVE  NamesFiles' /\ TablesStay
<1> DEFINE e == Edit({<<0, Meta(n, disk.tables[n])>> : n \in db.pending}, {}, db.log, <<>>)
<1>1. /\ db.up = "replayed" /\ UNCHANGED <<reader, bg>>
      /\ disk' = [disk EXCEPT !.manifest = Logged(@, e)]
      /\ db' = [db EXCEPT !.up = "installed", !.current = Apply(@, e),
                          !.logNumber = db.log, !.pending = {}]
  BY DEF InstallRecovered
<1>2. e.nextFile = db.nextFile /\ Added(e) \subseteq db.pending
  <2>1. \A n : Meta(n, disk.tables[n]).num = n
    BY DEF Meta
  <2>2. e.nextFile = db.nextFile /\ e.added = {<<0, Meta(n, disk.tables[n])>> : n \in db.pending}
    BY DEF Edit
  <2> HIDE DEF e
  <2> QED
    BY <2>1, <2>2 DEF Added
<1> HIDE DEF e
<1>3. /\ disk'.tables = disk.tables /\ disk'.logs = disk.logs
      /\ disk'.manifest.nextFile = db.nextFile
      /\ disk'.manifest.version = Apply(disk.manifest.version, e)
  BY <1>1, <1>2, Fields DEF Shape, Logged
<1>4. /\ db'.up = "installed" /\ db'.current = Apply(db.current, e) /\ db'.pending = {}
      /\ db'.nextFile = db.nextFile /\ db'.bgError = db.bgError /\ db'.replay = db.replay
      /\ db'.seek = db.seek
  BY <1>1, Fields DEF Shape
<1>5. /\ db.current = disk.manifest.version /\ db.seek = {} /\ bg = BgIdle
      /\ db.nextFile \in Nat /\ db.nextFile > 0
      /\ db.pending \subseteq Below(db.nextFile) \cap DOMAIN disk.tables
      /\ Numbers(db.current) \subseteq Below(db.nextFile) \cap DOMAIN disk.tables
      /\ DOMAIN disk.logs \subseteq Nat /\ db.replay.logs \subseteq Nat
      /\ \A r \in Readers : Numbers(reader[r].version) \subseteq DOMAIN disk.tables
  BY <1>1 DEF NamesFiles, ManifestNamesFiles, VersionsNameFiles, NothingBeforeOpen
<1>6. Numbers(Apply(db.current, e)) \subseteq Below(db.nextFile) \cap DOMAIN disk.tables
  BY <1>2, <1>5, NumbersOfApply
<1>7. ManifestNamesFiles' /\ TablesStay
  BY <1>3, <1>5, <1>6 DEF ManifestNamesFiles, TablesStay
<1>8. VersionsNameFiles'
  BY <1>1, <1>3, <1>4, <1>5, <1>6 DEF VersionsNameFiles
<1>9. BackgroundNamesFiles'
  BY <1>1, <1>5, IdleNamesNothing DEF BackgroundNamesFiles, Made
<1> QED
  BY <1>7, <1>8, <1>9 DEF NamesFiles

\* At the end of DB::Open, only files that nothing names are deleted.
LEMMA NamesFinishOpen ==
    ASSUME Shape, NothingBeforeOpen, NamesFiles, FinishOpen
    PROVE  NamesFiles' /\ TablesStay
<1>1. /\ db.up = "installed" /\ UNCHANGED <<reader, bg>>
      /\ disk' = WithoutObsolete(disk) /\ db' = MaybeSchedule([db EXCEPT !.up = "open"])
  BY DEF FinishOpen
<1>2. /\ db'.up = "open" /\ db'.current = db.current /\ db'.pending = db.pending
      /\ db'.nextFile = db.nextFile /\ db'.bgError = db.bgError /\ db'.replay = db.replay
      /\ db'.seek = db.seek
  BY <1>1, Fields DEF Shape, MaybeSchedule
<1>3. PICK k : k = disk'
  OBVIOUS
<1>4. /\ k.manifest = disk.manifest /\ DOMAIN k.logs \subseteq DOMAIN disk.logs
      /\ DOMAIN k.tables = DOMAIN disk.tables \cap LiveFiles
      /\ \A n \in DOMAIN k.tables : k.tables[n] = disk.tables[n]
  BY <1>1, <1>3, ObsoleteIsNotNamed DEF LiveLogs
<1>5. db.current = disk.manifest.version /\ bg = BgIdle
  BY <1>1 DEF NamesFiles, VersionsNameFiles, NothingBeforeOpen
<1>6. /\ Numbers(db.current) \subseteq DOMAIN k.tables
      /\ \A r \in Readers : Numbers(reader[r].version) \subseteq DOMAIN k.tables
  BY <1>1, <1>4 DEF LiveFiles, NamesFiles, VersionsNameFiles
<1>7. ManifestNamesFiles' /\ TablesStay
  BY <1>3, <1>4, <1>5, <1>6 DEF NamesFiles, ManifestNamesFiles, TablesStay
<1>8. VersionsNameFiles'
  <2>1. db.nextFile \in Nat /\ disk'.manifest.nextFile <= db'.nextFile
    BY <1>1, <1>2, <1>3, <1>4 DEF NamesFiles, VersionsNameFiles
  <2>2. Numbers(db'.current) \subseteq Below(db'.nextFile) \cap DOMAIN disk'.tables
    BY <1>2, <1>3, <1>6 DEF NamesFiles, VersionsNameFiles
  <2>3. db'.current = disk'.manifest.version
    BY <1>2, <1>3, <1>4, <1>5
  <2>4. \A r \in Readers : Numbers(reader'[r].version) \subseteq DOMAIN disk'.tables
    BY <1>1, <1>3, <1>6
  <2>5. db'.pending \subseteq Below(db'.nextFile) /\ db'.replay.logs \subseteq Nat
    BY <1>2 DEF NamesFiles, VersionsNameFiles
  <2>6. \A c \in db'.seek : c[1] \in Levels /\ c[2] \in db'.current[c[1]]
    BY <1>2 DEF NamesFiles, VersionsNameFiles
  <2> QED
    BY <1>2, <2>1, <2>2, <2>3, <2>4, <2>5, <2>6 DEF VersionsNameFiles
<1>9. BackgroundNamesFiles'
  <2>1. bg' = BgIdle
    BY <1>1, <1>5
  <2> QED
    BY <2>1, IdleNamesNothing DEF BackgroundNamesFiles, Made
<1> QED
  BY <1>7, <1>8, <1>9 DEF NamesFiles

\* A crash leaves the files as they are, and closes the database.
LEMMA NamesCrash ==
    ASSUME Shape, NamesFiles, Crash
    PROVE  NamesFiles' /\ TablesStay
<1>1. db' = Closed /\ bg' = BgIdle /\ reader' = [r \in Readers |-> NotReading]
  BY DEF Crash
<1>2. UNCHANGED disk \/ \E left : disk' = [disk EXCEPT !.logs =
                    Overlay(@, [n \in Unsynced |->
                        [records |-> SubSeq(disk.logs[n].records, 1, left[n]),
                         synced |-> left[n]]])]
  BY DEF Crash
<1>3. /\ disk'.manifest = disk.manifest /\ disk'.tables = disk.tables
      /\ DOMAIN disk'.logs = DOMAIN disk.logs
  <2>1. CASE UNCHANGED disk
    BY <2>1
  <2>2. ASSUME NEW g, DOMAIN g = Unsynced, disk' = [disk EXCEPT !.logs = Overlay(@, g)]
        PROVE  /\ disk'.manifest = disk.manifest /\ disk'.tables = disk.tables
               /\ DOMAIN disk'.logs = DOMAIN disk.logs
    BY <2>2, Fields DEF Shape, Overlay, Unsynced
  <2>3. ASSUME NEW left, disk' = [disk EXCEPT !.logs =
                    Overlay(@, [n \in Unsynced |->
                        [records |-> SubSeq(disk.logs[n].records, 1, left[n]),
                         synced |-> left[n]]])]
        PROVE  /\ disk'.manifest = disk.manifest /\ disk'.tables = disk.tables
               /\ DOMAIN disk'.logs = DOMAIN disk.logs
    <3> DEFINE g == [n \in Unsynced |-> [records |-> SubSeq(disk.logs[n].records, 1, left[n]),
                                         synced |-> left[n]]]
    <3>1. DOMAIN g = Unsynced /\ disk' = [disk EXCEPT !.logs = Overlay(@, g)]
      BY <2>3
    <3> HIDE DEF g
    <3> QED
      BY <2>2, <3>1
  <2> QED
    BY <1>2, <2>1, <2>3
<1>4. /\ db'.nextFile = 0 /\ db'.up = "closed" /\ db'.current = NoFiles /\ db'.pending = {}
      /\ db'.replay.logs = {} /\ db'.seek = {}
  BY <1>1 DEF Closed, NoReplay
<1>5. \A r \in Readers : reader'[r].version = NoFiles
  BY <1>1 DEF NotReading
<1>6. ManifestNamesFiles' /\ TablesStay
  BY <1>3 DEF NamesFiles, ManifestNamesFiles, TablesStay
<1>7. VersionsNameFiles'
  BY <1>4, <1>5, NoNumbers DEF VersionsNameFiles
<1>8. BackgroundNamesFiles'
  BY <1>1, IdleNamesNothing DEF BackgroundNamesFiles, Made
<1> QED
  BY <1>6, <1>7, <1>8 DEF NamesFiles

\* Every step keeps the files.
LEMMA NamesNext ==
    ASSUME Shape, NothingBeforeOpen, FinitelyMany, NamesFiles, [Next]_vars
    PROVE  NamesFiles' /\ TablesStay
<1>1. CASE UNCHANGED vars
  BY <1>1 DEF vars, NamesFiles, ManifestNamesFiles, VersionsNameFiles, BackgroundNamesFiles,
              Made, TablesStay
<1>2. ASSUME disk'.tables = disk.tables PROVE TablesStay
  BY <1>2 DEF TablesStay
<1>3. CASE Opening
  BY <1>3, NamesRecover, NamesReplay, NamesBeginLog, NamesInstallRecovered, NamesFinishOpen DEF Opening
<1> QED
  BY <1>1, <1>2, <1>3, NamesWriter, NamesReader, NamesBackground, NamesCrash DEF Next

-----------------------------------------------------------------------------
\* What is named is there, in every reachable state.
THEOREM FilesInvariant == Spec => []FilesInv
<1>1. Init => FilesInv
  BY ShapeInit, FiniteInit, NamesInit DEF FilesInv, NamesFiles
<1>2. FilesInv /\ [Next]_vars => FilesInv'
  BY ShapeNext, FiniteNext, NamesNext DEF FilesInv, NamesFiles
<1> QED
  BY <1>1, <1>2, PTL DEF Spec

\* A file number is not used again while the table it names is needed (NewFileNumber,
\* MarkFileNumberUsed, and next_file_number_ in every edit of the manifest).
THEOREM NoTableIsOverwritten == Spec => TablesAreNotOverwritten
<1>1. FilesInv /\ [Next]_vars => TablesStay
  BY NamesNext DEF FilesInv, NamesFiles
<1>2. FilesInv /\ [Next]_vars =>
          [\A n \in DOMAIN disk.tables \cap DOMAIN disk'.tables :
              n \in Numbers(disk.manifest.version) \cup Numbers(db.current)
                  => disk'.tables[n] = disk.tables[n]]_vars
  BY <1>1 DEF TablesStay
<1> QED
  BY <1>2, FilesInvariant, PTL DEF Spec, TablesAreNotOverwritten

-----------------------------------------------------------------------------
\* The group that the first writer writes is of one writer at least, and of those in
\* the queue.
LEMMA GroupHasFirst ==
    ASSUME queue \in Seq(Writers), queue # <<>>
    PROVE  GroupLength \in 1..Len(queue)
<1> DEFINE Size(n) == Len(FlattenSeq([i \in 1..n |-> writer[queue[i]].ops]))
           T == {n \in 1..Len(queue) : \A i \in 2..n :
                     Size(i) <= MaxGroupSize /\ (writer[queue[i]].sync => writer[queue[1]].sync)}
<1>1. GroupLength = Max(T)
  BY DEF GroupLength
<1>2. Len(queue) \in Nat /\ Len(queue) >= 1
  BY EmptySeq, LenProperties
<1> HIDE DEF Size
<1>3. 1 \in T
  BY <1>2
<1>4. T \in SUBSET Nat /\ \A n \in T : n <= Len(queue)
  BY <1>2
<1> HIDE DEF T
<1>5. Max(T) \in T
  BY <1>2, <1>3, <1>4, MaxIsGreatest
<1> QED
  BY <1>1, <1>5 DEF T

\* A memtable goes to a level that there is.
LEMMA PickedLevel ==
    ASSUME NEW v, NEW lo, NEW hi
    PROVE  PickLevelForMemTableOutput(v, lo, hi) \in Levels
<1> DEFINE MayPass(l) ==
             /\ ~OverlapInLevel(v, l + 1, lo, hi)
             /\ l + 2 < NumLevels =>
                    TotalFileSize(OverlappingInputs(v, l + 2, lo, hi)) <= MaxGrandParentOverlap
           T == {l \in 0..MaxMemCompactLevel : \A m \in 0..l - 1 : MayPass(m)}
<1>1. PickLevelForMemTableOutput(v, lo, hi) \in {0, Max(T)}
  BY DEF PickLevelForMemTableOutput
<1> HIDE DEF MayPass
<1>2. MaxMemCompactLevel \in Nat /\ 0..MaxMemCompactLevel \subseteq Levels
  BY VersionSetAssumption DEF Levels
<1>3. 0 \in T
  BY <1>2
<1>4. T \in SUBSET Nat /\ \A n \in T : n <= MaxMemCompactLevel
  BY <1>2
<1>5. T \subseteq Levels
  BY <1>2
<1> HIDE DEF T
<1>6. Max(T) \in T
  BY <1>2, <1>3, <1>4, MaxIsGreatest
<1> QED
  BY <1>1, <1>5, <1>6, ZeroIsLevel

\* No other writer than the first is past the wait for room.
LEMMA OnlyFirstIsBusy ==
    ASSUME FirstIsBusy, NEW w \in Writers, queue # <<>>, Head(queue) = w
    PROVE  \A v \in Writers \ {w} : ~Busy(v)
BY DEF FirstIsBusy

\* A step of the background thread or of a reader changes nothing of that.
LEMMA BusyStays ==
    ASSUME Shape, FirstIsBusy, UNCHANGED <<queue, group>>, db'.log = db.log,
           writer' = writer \/ writer' = Wake(writer)
    PROVE  FirstIsBusy'
<1>1. \A w \in Writers : Busy(w)' => Busy(w) /\ writer'[w].pc = writer[w].pc
  <2>1. CASE writer' = writer
    BY <2>1 DEF Busy
  <2>2. CASE writer' = Wake(writer)
    BY <2>2, Woken DEF Busy
  <2> QED
    BY <2>1, <2>2
<1> QED
  BY <1>1 DEF FirstIsBusy

\* Where no writer is busy, there is only the queue to look at.
LEMMA NoneIsBusy ==
    ASSUME queue' \in Seq(Writers), DOMAIN group' = DOMAIN NoGroup,
           \A w \in Writers : ~Busy(w)'
    PROVE  FirstIsBusy'
BY DEF FirstIsBusy

\* The first writer goes on with its group.
LEMMA FirstGoesOn ==
    ASSUME Shape, FirstIsBusy, NEW w \in Writers, queue # <<>>, Head(queue) = w, Busy(w),
           UNCHANGED queue, db'.log = db.log,
           \A v \in Writers \ {w} : writer'[v] = writer[v],
           DOMAIN group' = DOMAIN group, group'.batches = group.batches, group'.log = group.log,
           writer[w].pc # "publish"
    PROVE  FirstIsBusy'
<1>1. \A v \in Writers : Busy(v)' => v = w
  BY OnlyFirstIsBusy DEF Busy
<1> QED
  BY <1>1 DEF FirstIsBusy

\* A sequence of writers stays one when a writer joins it or the first ones leave.
LEMMA QueueSteps ==
    ASSUME queue \in Seq(Writers)
    PROVE  /\ \A w \in Writers : Append(queue, w) \in Seq(Writers)
           /\ \A w \in Writers : Append(queue, w) # <<>>
           /\ \A w \in Writers : queue # <<>> => Head(Append(queue, w)) = Head(queue)
           /\ queue # <<>> => Tail(queue) \in Seq(Writers) /\ Head(queue) = queue[1]
           /\ \A n \in Nat : SubSeq(queue, n + 1, Len(queue)) \in Seq(Writers)
<1>1. \A w \in Writers : /\ Append(queue, w) \in Seq(Writers) /\ Append(queue, w) # <<>>
                         /\ queue # <<>> => Head(Append(queue, w)) = Head(queue)
  <2> SUFFICES ASSUME NEW w \in Writers
               PROVE  /\ Append(queue, w) \in Seq(Writers) /\ Append(queue, w) # <<>>
                      /\ queue # <<>> => Head(Append(queue, w)) = Head(queue)
    OBVIOUS
  <2>1. Append(queue, w) \in Seq(Writers) /\ Append(queue, w) # <<>>
    BY AppendProperties
  <2>2. ASSUME queue # <<>> PROVE Head(Append(queue, w)) = Head(queue)
    <3>1. Head(queue) = queue[1] /\ 1 \in 1..Len(queue)
      BY <2>2, HeadTailProperties, EmptySeq, LenProperties
    <3>2. Append(queue, w)[1] = queue[1]
      BY <3>1, AppendProperties
    <3>3. Head(Append(queue, w)) = Append(queue, w)[1]
      BY <2>1, HeadTailProperties
    <3> QED
      BY <3>1, <3>2, <3>3
  <2> QED
    BY <2>1, <2>2
<1>2. queue # <<>> => Tail(queue) \in Seq(Writers) /\ Head(queue) = queue[1]
  BY HeadTailProperties
<1>3. \A n \in Nat : SubSeq(queue, n + 1, Len(queue)) \in Seq(Writers)
  <2> SUFFICES ASSUME NEW n \in Nat PROVE SubSeq(queue, n + 1, Len(queue)) \in Seq(Writers)
    OBVIOUS
  <2> DEFINE s == [i \in 1..Len(queue) - (n + 1) + 1 |-> queue[n + 1 + i - 1]]
  <2>1. Len(queue) \in Nat /\ \A i \in 1..Len(queue) : queue[i] \in Writers
    BY LenProperties, ElementOfSeq
  <2>2. SubSeq(queue, n + 1, Len(queue)) \in Seq(Writers)
    BY <2>1
  <2> QED
    BY <2>2
<1> QED
  BY <1>1, <1>2, <1>3

\* The steps of writers keep it so.
LEMMA BusyWriter ==
    ASSUME Shape, FirstIsBusy, NEW w \in Writers, WriterStep(w) \/ \E b \in Batches : Write(w, b)
    PROVE  FirstIsBusy'
<1>0. /\ queue \in Seq(Writers) /\ DOMAIN group = DOMAIN NoGroup
      /\ DOMAIN writer = Writers /\ \A v \in Writers : DOMAIN writer[v] = {"pc", "ops", "sync"}
      /\ DOMAIN db = DOMAIN Closed
  BY Fields DEF Shape, FirstIsBusy
<1>1. ASSUME NEW b \in Batches, Write(w, b) PROVE FirstIsBusy'
  <2>1. /\ writer[w].pc = "idle" /\ UNCHANGED <<db, group>> /\ queue' = Append(queue, w)
        /\ writer'[w].pc = "queued" /\ \A v \in Writers \ {w} : writer'[v] = writer[v]
    BY <1>0, <1>1 DEF Write
  <2>2. \A v \in Writers : Busy(v)' => Busy(v) /\ v # w
    BY <2>1 DEF Busy
  <2>3. \A v \in Writers : Busy(v) => Head(queue') = v /\ queue' # <<>>
    BY <1>0, <2>1, QueueSteps DEF FirstIsBusy
  <2>4. queue' \in Seq(Writers)
    BY <1>0, <2>1, QueueSteps
  <2> QED
    BY <2>1, <2>2, <2>3, <2>4 DEF FirstIsBusy
<1>2. CASE WaitForRoom(w)
  <2>1. UNCHANGED <<db, group, queue>> /\ \A v \in Writers : Busy(v)' => Busy(v) /\ writer'[v] = writer[v]
    BY <1>0, <1>2 DEF WaitForRoom, Busy
  <2> QED
    BY <2>1 DEF FirstIsBusy
<1>3. CASE NoRoom(w)
  <2>1. /\ queue # <<>> /\ Head(queue) = w /\ UNCHANGED group /\ queue' = Tail(queue)
        /\ ~Busy(w)' /\ \A v \in Writers \ {w} : writer'[v] = writer[v]
    BY <1>0, <1>3 DEF NoRoom, AtFront, Busy, Idle
  <2>2. \A v \in Writers : ~Busy(v)'
    BY <2>1, OnlyFirstIsBusy DEF Busy
  <2> QED
    BY <1>0, <2>1, <2>2, NoneIsBusy, QueueSteps
<1>4. CASE BeginWrite(w)
  <2>1. /\ queue # <<>> /\ Head(queue) = w /\ UNCHANGED queue
        /\ \A v \in Writers \ {w} : writer'[v] = writer[v]
    BY <1>0, <1>4 DEF BeginWrite, AtFront
  <2>2. \A v \in Writers : Busy(v)' => v = w
    BY <2>1, OnlyFirstIsBusy DEF Busy
  <2>3. \E f : group' = [batches |-> [i \in 1..GroupLength |-> f[i]], seq |-> db.lastSeq + 1,
                         log |-> db'.log, failed |-> FALSE]
    <3> DEFINE seqs == [i \in 1..GroupLength |-> db.lastSeq + 1
                    + Len(FlattenSeq([j \in 1..i - 1 |-> writer[queue[j]].ops]))]
               bs == [i \in 1..GroupLength |-> [ops |-> writer[queue[i]].ops,
                         sync |-> writer[queue[i]].sync, seq |-> seqs[i], log |-> db'.log]]
    <3>1. group' = [batches |-> [i \in 1..GroupLength |-> bs[i]], seq |-> db.lastSeq + 1,
                    log |-> db'.log, failed |-> FALSE]
      BY <1>4 DEF BeginWrite
    <3> HIDE DEF seqs, bs
    <3> QED
      BY <3>1
  <2>4. DOMAIN group' = DOMAIN NoGroup /\ group'.log = db'.log
        /\ \E f : group'.batches = [i \in 1..GroupLength |-> f[i]]
    BY <2>3 DEF NoGroup
  <2>5. GroupLength \in Nat \ {0}
    BY <1>0, <2>1, GroupHasFirst, LenProperties
  <2>6. Len(group'.batches) = GroupLength
    BY <2>4, <2>5
  <2> QED
    BY <1>0, <2>1, <2>2, <2>4, <2>5, <2>6 DEF FirstIsBusy
<1>5. CASE AppendToLog(w)
  <2>1. /\ queue # <<>> /\ Head(queue) = w /\ UNCHANGED <<db, queue, group>>
        /\ writer[w].pc = "append" /\ \A v \in Writers \ {w} : writer'[v] = writer[v]
    BY <1>0, <1>5 DEF AppendToLog, AtFront
  <2>2. Busy(w)
    BY <2>1 DEF Busy
  <2> QED
    BY <2>1, <2>2, FirstGoesOn
<1>6. CASE Sync(w)
  <2>1. /\ queue # <<>> /\ Head(queue) = w /\ UNCHANGED <<db, queue, group>>
        /\ writer[w].pc = "sync" /\ \A v \in Writers \ {w} : writer'[v] = writer[v]
    BY <1>0, <1>6 DEF Sync, AtFront
  <2>2. Busy(w)
    BY <2>1 DEF Busy
  <2> QED
    BY <2>1, <2>2, FirstGoesOn
<1>7. CASE SyncFails(w)
  <2>1. /\ queue # <<>> /\ Head(queue) = w /\ UNCHANGED <<db, queue>>
        /\ writer[w].pc = "sync" /\ \A v \in Writers \ {w} : writer'[v] = writer[v]
        /\ group' = [group EXCEPT !.failed = TRUE]
    BY <1>0, <1>7 DEF SyncFails, AtFront
  <2>2. Busy(w)
    BY <2>1 DEF Busy
  <2>3. DOMAIN group' = DOMAIN group /\ group'.batches = group.batches /\ group'.log = group.log
    BY <1>0, <2>1 DEF NoGroup
  <2> QED
    BY <2>1, <2>2, <2>3, FirstGoesOn
<1>8. CASE InsertIntoMemTable(w)
  <2>1. /\ queue # <<>> /\ Head(queue) = w /\ UNCHANGED <<queue, group>>
        /\ writer[w].pc = "insert" /\ \A v \in Writers \ {w} : writer'[v] = writer[v]
        /\ db' = [db EXCEPT !.memtables[group.log] = @ \cup InsertInto(GroupOps, group.seq)]
    BY <1>0, <1>8 DEF InsertIntoMemTable, AtFront
  <2>2. Busy(w)
    BY <2>1 DEF Busy
  <2>3. db'.log = db.log
    BY <1>0, <2>1, Fields
  <2> QED
    BY <2>1, <2>2, <2>3, FirstGoesOn
<1>9. CASE Publish(w)
  <2> DEFINE n == Len(group.batches)
  <2>1. /\ queue # <<>> /\ Head(queue) = w /\ writer[w].pc = "publish"
        /\ writer' = [v \in Writers |-> IF \E i \in 1..n : queue[i] = v THEN Idle ELSE writer[v]]
        /\ queue' = SubSeq(queue, n + 1, Len(queue))
        /\ group' \in {group, NoGroup}
    BY <1>9 DEF Publish, AtFront
  <2>2. Busy(w)
    BY <2>1 DEF Busy
  <2>3. n \in Nat \ {0}
    BY <2>2 DEF FirstIsBusy
  <2>4. 1 \in 1..n /\ queue[1] = w
    BY <1>0, <2>1, <2>3, QueueSteps
  <2> HIDE DEF n
  <2>5. writer'[w].pc = "idle" /\ \A v \in Writers : writer'[v].pc \in {"idle", writer[v].pc}
    BY <2>1, <2>4 DEF Idle
  <2>6. \A v \in Writers : ~Busy(v)'
    BY <2>1, <2>5, OnlyFirstIsBusy DEF Busy
  <2>7. queue' \in Seq(Writers)
    BY <1>0, <2>1, <2>3, QueueSteps
  <2>8. DOMAIN group' = DOMAIN NoGroup
    BY <1>0, <2>1
  <2> QED
    BY <2>6, <2>7, <2>8, NoneIsBusy
<1> QED
  BY <1>1, <1>2, <1>3, <1>4, <1>5, <1>6, <1>7, <1>8, <1>9 DEF WriterStep

-----------------------------------------------------------------------------
\* The part of the invariant that is about the logs.
KeepsLogs == LogsExist /\ EditsKeepLogs /\ LogsAreKept

\* The tables of the manifest hold what they held, while it is the same manifest.
LEMMA TablesOfManifestStay ==
    ASSUME NamesFiles, NamesFiles', TablesStay, disk'.manifest = disk.manifest
    PROVE  TablesOf(disk.manifest.version)' = TablesOf(disk.manifest.version)
<1>1. /\ Numbers(disk.manifest.version) \subseteq DOMAIN disk.tables
      /\ Numbers(disk.manifest.version) \subseteq DOMAIN disk'.tables
  BY DEF NamesFiles, ManifestNamesFiles
<1>2. \A n \in Numbers(disk.manifest.version) : disk'.tables[n] = disk.tables[n]
  BY <1>1 DEF TablesStay
<1> QED
  BY <1>1, <1>2 DEF TablesOf

\* Logs from the number of the version on may be needed: a step that keeps them, the
\* manifest and the memtables, keeps what is needed.
LEMMA LogsStay ==
    ASSUME NamesFiles, NamesFiles', TablesStay, LogsExist, LogsAreKept,
           disk'.manifest = disk.manifest,
           \A n \in DOMAIN disk.logs : n >= db.logNumber => n \in DOMAIN disk'.logs,
           db'.up = db.up, db'.log = db.log, db'.logNumber = db.logNumber, db'.imm = db.imm,
           db.nextFile <= db'.nextFile,
           DOMAIN db'.memtables = DOMAIN db.memtables,
           \A m \in db.imm : db'.memtables[m] = db.memtables[m]
    PROVE  LogsExist' /\ LogsAreKept'
<1>1. /\ db.nextFile \in Nat /\ db'.nextFile \in Nat /\ DOMAIN disk.logs \subseteq Nat
      /\ DOMAIN disk'.logs \subseteq Nat
  BY DEF NamesFiles, VersionsNameFiles, ManifestNamesFiles
<1>2. \A m \in db.imm : m \in Nat /\ m >= db.logNumber /\ m \in DOMAIN disk'.logs
  BY <1>1 DEF LogsExist
<1>3. db.up \in {"replayed", "installed", "open"} =>
          /\ db'.log \in DOMAIN disk'.logs /\ db'.log \in Below(db'.nextFile)
          /\ db'.logNumber \in 0..db'.log /\ disk'.manifest.log <= db'.log
          /\ db'.imm \cup {db'.log} \subseteq DOMAIN db'.memtables
  BY <1>1 DEF LogsExist, Below
<1>4. LogsExist'
  BY <1>2, <1>3 DEF LogsExist
<1>5. LogsAreKept'
  <2> SUFFICES ASSUME db.up = "open", NEW m \in db.imm PROVE LogIsKept(m)'
    BY DEF LogsAreKept
  <2>1. LogIsKept(m)
    BY DEF LogsAreKept
  <2>2. CASE m \in LogsToReplay(disk.manifest)
    BY <1>2, <2>2 DEF LogsToReplay, LogIsKept
  <2>3. CASE db.memtables[m] \subseteq TablesOf(disk.manifest.version)
    BY <2>3, TablesOfManifestStay DEF LogIsKept
  <2> QED
    BY <2>1, <2>2, <2>3 DEF LogIsKept
<1> QED
  BY <1>4, <1>5

\* The edit on its way stays right while neither it nor the memtables change.
LEMMA EditStays ==
    ASSUME EditsKeepLogs, bg' = bg, disk'.tables = disk.tables,
           db'.log = db.log, db'.logNumber = db.logNumber, db'.imm = db.imm,
           \A m \in db.imm : db'.memtables[m] = db.memtables[m]
    PROVE  EditsKeepLogs'
BY DEF EditsKeepLogs

\* Without an edit on its way there is nothing to say of it.
LEMMA NoEditIsRight ==
    ASSUME bg'.pc \notin {"build", "log"}
    PROVE  EditsKeepLogs'
BY DEF EditsKeepLogs

\* What the end of a background task, or going on with a merge, changes.
LEMMA AfterResume ==
    ASSUME Shape, NEW d, DOMAIN d = DOMAIN Closed, Resume(d) \/ EndBackground(d)
    PROVE  /\ \A x \in DOMAIN Closed \ {"scheduled"} : db'[x] = d[x]
           /\ bg'.pc \in {"idle", "merge"} /\ writer' = Wake(writer)
<1>1. CASE EndBackground(d)
  <2> DEFINE b == [d EXCEPT !.scheduled = FALSE]
  <2>1. DOMAIN b = DOMAIN Closed /\ \A x \in DOMAIN Closed \ {"scheduled"} : b[x] = d[x]
    OBVIOUS
  <2>2. db' = MaybeSchedule(b) /\ bg' = BgIdle /\ writer' = Wake(writer)
    BY <1>1 DEF EndBackground
  <2> HIDE DEF b
  <2> QED
    BY <2>1, <2>2, MaybeScheduleShape, IdleNamesNothing
<1>2. CASE ~EndBackground(d)
  BY <1>2, Fields DEF Resume, Shape
<1> QED
  BY <1>1, <1>2

\* The steps of the writers keep the logs: a new memtable gets the current log for its
\* own only when the earlier one has become a table.
LEMMA LogsWriter ==
    ASSUME Shape, NamesFiles, NamesFiles', FirstIsBusy, KeepsLogs, disk'.tables = disk.tables,
           NEW w \in Writers, WriterStep(w) \/ \E b \in Batches : Write(w, b)
    PROVE  KeepsLogs'
<1>0. /\ DOMAIN disk = {"tables", "logs", "manifest"} /\ DOMAIN db = DOMAIN Closed
      /\ DOMAIN bg = DOMAIN BgIdle /\ db.nextFile \in Nat /\ TablesStay
  BY Fields DEF Shape, NamesFiles, VersionsNameFiles, TablesStay
<1>1. ASSUME disk'.manifest = disk.manifest, DOMAIN disk'.logs = DOMAIN disk.logs,
             db'.up = db.up, db'.log = db.log, db'.logNumber = db.logNumber, db'.imm = db.imm,
             db'.nextFile = db.nextFile, DOMAIN db'.memtables = DOMAIN db.memtables, bg' = bg,
             \A m \in db.imm : db'.memtables[m] = db.memtables[m]
      PROVE  KeepsLogs'
  <2>1. db.nextFile <= db'.nextFile
    BY <1>0, <1>1
  <2> QED
    BY <1>0, <1>1, <2>1, LogsStay, EditStays DEF KeepsLogs
<1>2. ASSUME NEW b \in Batches, Write(w, b) PROVE KeepsLogs'
  BY <1>1, <1>2 DEF Write
<1>3. CASE WaitForRoom(w)
  BY <1>1, <1>3 DEF WaitForRoom
<1>4. CASE NoRoom(w)
  BY <1>1, <1>4 DEF NoRoom
<1>5. CASE BeginWrite(w)
  <2>1. /\ db.up = "open" /\ UNCHANGED bg /\ (HasRoom \/ ~MustWait)
        /\ db' = IF HasRoom THEN db ELSE SwitchMemTable(db)
        /\ disk' = [disk EXCEPT !.logs = IF HasRoom THEN @ ELSE With(@, db'.log, EmptyLog)]
    BY <1>5 DEF BeginWrite, Open
  <2>2. CASE HasRoom
    BY <1>0, <1>1, <2>1, <2>2
  <2>3. CASE ~HasRoom
    <3>1. db.imm = {}
      BY <2>1, <2>3 DEF MustWait
    <3> DEFINE d == [db EXCEPT !.nextFile = @ + 1, !.log = db.nextFile, !.imm = {db.log},
                               !.memtables = With(@, db.nextFile, {})]
    <3>2. /\ DOMAIN d = DOMAIN Closed /\ d.up = db.up /\ d.log = db.nextFile
          /\ d.nextFile = db.nextFile + 1 /\ d.imm = {db.log} /\ d.logNumber = db.logNumber
          /\ d.memtables = With(db.memtables, db.nextFile, {})
      BY <1>0, Fields
    <3>3. db' = MaybeSchedule(d)
      BY <2>1, <2>3 DEF SwitchMemTable
    <3> HIDE DEF d
    <3>4. /\ db'.up = db.up /\ db'.log = db.nextFile /\ db'.nextFile = db.nextFile + 1
          /\ db'.imm = {db.log} /\ db'.logNumber = db.logNumber
          /\ db'.memtables = With(db.memtables, db.nextFile, {})
      BY <3>2, <3>3, MaybeScheduleShape, Fields
    <3>5. /\ disk'.manifest = disk.manifest /\ disk'.logs = With(disk.logs, db.nextFile, EmptyLog)
      BY <1>0, <2>1, <2>3, <3>4
    <3>6. /\ DOMAIN disk'.logs = DOMAIN disk.logs \cup {db.nextFile}
          /\ DOMAIN db'.memtables = DOMAIN db.memtables \cup {db.nextFile}
      BY <3>4, <3>5 DEF With, Overlay
    <3>7. /\ disk.manifest.log \in Nat /\ disk.manifest.log < disk.manifest.nextFile
          /\ disk.manifest.nextFile \in Nat
          /\ db.log \in DOMAIN disk.logs /\ db.log \in Nat /\ db.log < db.nextFile
          /\ db.logNumber \in 0..db.log /\ disk.manifest.log <= db.log
          /\ db.log \in DOMAIN db.memtables
      BY <1>0, <2>1 DEF KeepsLogs, LogsExist, Below, NamesFiles, ManifestNamesFiles
    <3>8. db'.log \in Below(db'.nextFile)
      BY <1>0, <3>4, <3>7 DEF Below
    <3>9. LogsExist'
      BY <1>0, <2>1, <3>4, <3>5, <3>6, <3>7, <3>8 DEF LogsExist
    <3>10. LogsAreKept'
      BY <3>4, <3>5, <3>6, <3>7 DEF LogsAreKept, LogIsKept, LogsToReplay
    <3>11. EditsKeepLogs'
      BY <2>1, <3>1, <3>4 DEF KeepsLogs, EditsKeepLogs
    <3> QED
      BY <3>9, <3>10, <3>11 DEF KeepsLogs
  <2> QED
    BY <2>2, <2>3
<1>6. CASE AppendToLog(w)
  BY <1>0, <1>1, <1>6 DEF AppendToLog
<1>7. CASE Sync(w)
  BY <1>0, <1>1, <1>7 DEF Sync
<1>8. CASE SyncFails(w)
  BY <1>1, <1>8 DEF SyncFails
<1>9. CASE InsertIntoMemTable(w)
  <2>1. /\ queue # <<>> /\ Head(queue) = w /\ UNCHANGED <<disk, bg>> /\ writer[w].pc = "insert"
        /\ db' = [db EXCEPT !.memtables[group.log] = @ \cup InsertInto(GroupOps, group.seq)]
    BY <1>9 DEF InsertIntoMemTable, AtFront
  <2>2. group.log = db.log
    BY <2>1 DEF FirstIsBusy, Busy
  <2>3. \A m \in db.imm : m # db.log
    BY DEF KeepsLogs, LogsExist
  <2>4. /\ db'.up = db.up /\ db'.log = db.log /\ db'.logNumber = db.logNumber
        /\ db'.imm = db.imm /\ db'.nextFile = db.nextFile
        /\ db'.memtables = [db.memtables EXCEPT ![db.log] = @ \cup InsertInto(GroupOps, group.seq)]
    BY <1>0, <2>1, <2>2, Fields
  <2>5. /\ DOMAIN db'.memtables = DOMAIN db.memtables
        /\ \A m \in db.imm : db'.memtables[m] = db.memtables[m]
    BY <2>3, <2>4
  <2> QED
    BY <1>1, <2>1, <2>4, <2>5
<1>10. CASE Publish(w)
  <2>1. UNCHANGED <<disk, bg>>
        /\ db' = [db EXCEPT !.lastSeq = @ + Len(GroupOps), !.bgError = @ \/ group.failed]
    BY <1>10 DEF Publish
  <2>2. /\ db'.up = db.up /\ db'.log = db.log /\ db'.logNumber = db.logNumber
        /\ db'.imm = db.imm /\ db'.nextFile = db.nextFile /\ db'.memtables = db.memtables
    BY <1>0, <2>1, Fields
  <2> QED
    BY <1>1, <2>1, <2>2
<1> QED
  BY <1>2, <1>3, <1>4, <1>5, <1>6, <1>7, <1>8, <1>9, <1>10 DEF WriterStep

\* Readers and snapshots have nothing to do with the logs.
LEMMA LogsReader ==
    ASSUME Shape, NamesFiles, NamesFiles', FirstIsBusy, KeepsLogs, disk'.tables = disk.tables,
           \/ \E s \in Snapshots : GetSnapshot(s) \/ ReleaseSnapshot(s)
           \/ \E r \in Readers : BeginRead(r) \/ EndRead(r)
    PROVE  FirstIsBusy' /\ KeepsLogs'
<1>0. DOMAIN db = DOMAIN Closed /\ db.nextFile \in Nat /\ TablesStay
  BY DEF Shape, NamesFiles, VersionsNameFiles, TablesStay
<1>1. ASSUME UNCHANGED <<disk, bg, queue, writer, group>>,
             \A x \in DOMAIN Closed \ {"scheduled", "seek", "snapshots"} : db'[x] = db[x]
      PROVE  FirstIsBusy' /\ KeepsLogs'
  <2>1. /\ db'.up = db.up /\ db'.log = db.log /\ db'.logNumber = db.logNumber
        /\ db'.imm = db.imm /\ db'.nextFile = db.nextFile /\ db'.memtables = db.memtables
    BY <1>1, Fields
  <2> QED
    BY <1>0, <1>1, <2>1, BusyStays, LogsStay, EditStays DEF KeepsLogs
<1>2. ASSUME NEW s \in Snapshots, GetSnapshot(s) PROVE FirstIsBusy' /\ KeepsLogs'
  BY <1>0, <1>1, <1>2 DEF GetSnapshot
<1>3. ASSUME NEW s \in Snapshots, ReleaseSnapshot(s) PROVE FirstIsBusy' /\ KeepsLogs'
  BY <1>0, <1>1, <1>3 DEF ReleaseSnapshot
<1>4. ASSUME NEW r \in Readers, BeginRead(r) PROVE FirstIsBusy' /\ KeepsLogs'
  BY <1>0, <1>1, <1>4 DEF BeginRead
<1>5. ASSUME NEW r \in Readers, EndRead(r) PROVE FirstIsBusy' /\ KeepsLogs'
  <2>1. /\ UNCHANGED <<disk, bg, queue, writer, group>>
        /\ UNCHANGED db \/ \E S : db' = MaybeSchedule([db EXCEPT !.seek = S])
    BY <1>5, Zenon DEF EndRead
  <2>2. CASE UNCHANGED db
    BY <1>1, <2>1, <2>2
  <2>3. ASSUME NEW S, db' = MaybeSchedule([db EXCEPT !.seek = S])
        PROVE  FirstIsBusy' /\ KeepsLogs'
    <3> DEFINE d == [db EXCEPT !.seek = S]
    <3>1. DOMAIN d = DOMAIN Closed /\ \A x \in DOMAIN Closed \ {"seek"} : d[x] = db[x]
      BY <1>0
    <3>2. db' = MaybeSchedule(d)
      BY <2>3
    <3> HIDE DEF d
    <3>3. \A x \in DOMAIN Closed \ {"scheduled", "seek", "snapshots"} : db'[x] = db[x]
      BY <3>1, <3>2, MaybeScheduleShape
    <3> QED
      BY <1>1, <2>1, <3>3
  <2> QED
    BY <2>1, <2>2, <2>3
<1> QED
  BY <1>2, <1>3, <1>4, <1>5

-----------------------------------------------------------------------------
\* What every step of the background thread leaves as it is.
LEMMA BackgroundFrame ==
    ASSUME Shape, NothingBeforeOpen, Background
    PROVE  /\ db.up = "open" /\ db'.up = "open" /\ UNCHANGED <<queue, group>>
           /\ db'.log = db.log /\ db'.memtables = db.memtables
           /\ db'.nextFile \in {db.nextFile, db.nextFile + 1}
           /\ writer' = writer \/ writer' = Wake(writer)
<1>0. DOMAIN db = DOMAIN Closed
  BY DEF Shape
<1>1. ASSUME NEW d, Resume(d) \/ EndBackground(d), DOMAIN d = DOMAIN Closed,
             db.up = "open", UNCHANGED <<queue, group>>,
             \A x \in {"up", "log", "memtables", "nextFile"} : d[x] = db[x]
      PROVE  /\ db.up = "open" /\ db'.up = "open" /\ UNCHANGED <<queue, group>>
             /\ db'.log = db.log /\ db'.memtables = db.memtables
             /\ db'.nextFile \in {db.nextFile, db.nextFile + 1}
             /\ writer' = writer \/ writer' = Wake(writer)
  BY <1>1, AfterResume, Fields
<1>2. CASE BackgroundAfterError
  BY <1>0, <1>1, <1>2 DEF BackgroundAfterError, Open
<1>3. CASE BeginCompactMemTable
  BY <1>0, <1>3, Fields DEF BeginCompactMemTable, Open
<1>4. CASE BuildTable
  BY <1>0, <1>4, Fields DEF BuildTable, Open
<1>5. CASE BeginCompaction
  <2>1. db.up = "open" /\ UNCHANGED <<queue, group, writer>>
    BY <1>5, Zenon DEF BeginCompaction, Open
  <2>2. PICK c, e, todo, pointers : Begins(c, e, todo, pointers)
    BY <1>5, CompactionBegun
  <2>3. db' = [db EXCEPT !.pointers = pointers]
    BY <2>2 DEF Begins
  <2> QED
    BY <1>0, <2>1, <2>3, Fields
<1>6. CASE WriteOutput
  BY <1>0, <1>6, Fields DEF WriteOutput, Open
<1>7. CASE EndMerge
  BY <1>7 DEF EndMerge, Open
<1>8. CASE InstallVersion
  <2> DEFINE d == [db EXCEPT !.current = Apply(@, bg.edit), !.logNumber = bg.edit.log, !.seek = {}]
  <2>1. /\ db.up = "open" /\ UNCHANGED <<queue, group>>
        /\ \/ EndBackground(d)
           \/ db' = [d EXCEPT !.imm = {}] /\ UNCHANGED writer
           \/ db' = Unpend(d) /\ UNCHANGED writer
    BY <1>8 DEF InstallVersion, Open
  <2>2. /\ DOMAIN d = DOMAIN Closed
        /\ \A x \in {"up", "log", "memtables", "nextFile"} : d[x] = db[x]
    BY <1>0, Fields
  <2> HIDE DEF d
  <2>3. CASE EndBackground(d)
    BY <1>1, <2>1, <2>2, <2>3
  <2>4. CASE db' = [d EXCEPT !.imm = {}] /\ UNCHANGED writer
    BY <2>1, <2>2, <2>4, Fields
  <2>5. CASE db' = Unpend(d) /\ UNCHANGED writer
    BY <2>1, <2>2, <2>5, Fields DEF Unpend
  <2> QED
    BY <2>1, <2>3, <2>4, <2>5
<1>9. CASE BackgroundError
  <2> DEFINE d == [db EXCEPT !.bgError = TRUE, !.pending = @ \ {bg.num}]
  <2>1. /\ db.up = "open" /\ UNCHANGED <<queue, group>>
        /\ EndBackground(Unpend(d)) \/ Resume(d)
    BY <1>9 DEF BackgroundError, Open
  <2>2. /\ DOMAIN d = DOMAIN Closed
        /\ \A x \in {"up", "log", "memtables", "nextFile"} : d[x] = db[x]
    BY <1>0, Fields
  <2> HIDE DEF d
  <2>3. /\ DOMAIN Unpend(d) = DOMAIN Closed
        /\ \A x \in {"up", "log", "memtables", "nextFile"} : Unpend(d)[x] = db[x]
    BY <2>2, Fields DEF Unpend
  <2> QED
    BY <1>1, <2>1, <2>2, <2>3
<1>10. CASE DeleteObsoleteFiles
  <2>1. bg.pc = "cleanup" /\ Resume(db) /\ UNCHANGED <<queue, group>>
    BY <1>10 DEF DeleteObsoleteFiles
  <2>2. db.up = "open"
    BY <2>1, IdleNamesNothing DEF NothingBeforeOpen
  <2> QED
    BY <1>0, <1>1, <2>1, <2>2
<1> QED
  BY <1>2, <1>3, <1>4, <1>5, <1>6, <1>7, <1>8, <1>9, <1>10 DEF Background

\* While the manifest, the number of the version and the immutable memtable stay, a
\* step of the background thread may delete logs before that number.
LEMMA LogsKeptBehind ==
    ASSUME Shape, NothingBeforeOpen, NamesFiles, NamesFiles', TablesStay, KeepsLogs, Background,
           disk'.manifest = disk.manifest, db'.logNumber = db.logNumber, db'.imm = db.imm,
           \A n \in DOMAIN disk.logs : n >= db.logNumber => n \in DOMAIN disk'.logs
    PROVE  LogsExist' /\ LogsAreKept'
<1>1. /\ db.up = "open" /\ db'.up = "open" /\ db'.log = db.log /\ db'.memtables = db.memtables
      /\ db'.nextFile \in {db.nextFile, db.nextFile + 1} /\ db.nextFile \in Nat
  BY BackgroundFrame DEF NamesFiles, VersionsNameFiles
<1>2. db.nextFile <= db'.nextFile
  BY <1>1
<1> QED
  BY <1>1, <1>2, LogsStay DEF KeepsLogs

\* An edit that the background thread makes keeps the logs that memtables need.
LEMMA EditIsRight ==
    ASSUME Shape, NamesFiles, KeepsLogs, Background, NothingBeforeOpen
    PROVE  ~(InstallVersion \/ BackgroundError \/ DeleteObsoleteFiles) =>
               /\ EditsKeepLogs'
               /\ disk'.manifest = disk.manifest /\ disk'.logs = disk.logs
               /\ db'.logNumber = db.logNumber /\ db'.imm = db.imm
<1>0. /\ DOMAIN db = DOMAIN Closed /\ DOMAIN disk = {"tables", "logs", "manifest"}
      /\ DOMAIN bg = DOMAIN BgIdle /\ db.nextFile \in Nat /\ db.nextFile > 0 /\ db.up = "open"
      /\ db.log \in Below(db.nextFile) /\ db.logNumber \in 0..db.log
  <2>1. db.up = "open"
    BY BackgroundFrame
  <2>2. db.nextFile \in Nat /\ db.nextFile > 0
    BY <2>1, NamesFacts
  <2>3. db.log \in Below(db.nextFile) /\ db.logNumber \in 0..db.log
    BY <2>1 DEF KeepsLogs, LogsExist
  <2> QED
    BY <2>1, <2>2, <2>3, Fields DEF Shape
<1> DEFINE Goal == /\ EditsKeepLogs'
                   /\ disk'.manifest = disk.manifest /\ disk'.logs = disk.logs
                   /\ db'.logNumber = db.logNumber /\ db'.imm = db.imm
<1>1. CASE BackgroundAfterError
  <2>1. EndBackground(db) /\ UNCHANGED disk
    BY <1>1 DEF BackgroundAfterError
  <2>2. bg'.pc \in {"idle", "merge"} /\ db'.logNumber = db.logNumber /\ db'.imm = db.imm
    BY <1>0, <2>1, AfterResume, Fields
  <2> QED
    BY <2>1, <2>2, NoEditIsRight
<1>2. CASE BeginCompactMemTable
  <2>1. /\ db.imm # {} /\ UNCHANGED disk
        /\ bg' = [bg EXCEPT !.pc = "build", !.kind = "flush", !.num = db.nextFile]
        /\ db' = [db EXCEPT !.nextFile = @ + 1, !.pending = @ \cup {db.nextFile}]
    BY <1>2 DEF BeginCompactMemTable
  <2>2. /\ bg'.pc = "build" /\ bg'.kind = "flush"
        /\ db'.logNumber = db.logNumber /\ db'.imm = db.imm
    BY <1>0, <2>1, Fields
  <2> QED
    BY <2>1, <2>2 DEF EditsKeepLogs
<1>3. CASE BuildTable
  <2> DEFINE E == UNION {db.memtables[m] : m \in db.imm}
             meta == Meta(bg.num, E)
             level == PickLevelForMemTableOutput(db.current, meta.smallest.key, meta.largest.key)
  <2>1. /\ bg.pc = "build" /\ db' = [db EXCEPT !.pending = @ \ {bg.num}]
        /\ disk' = IF E = {} THEN disk ELSE [disk EXCEPT !.tables = With(@, bg.num, E)]
        /\ bg' = [bg EXCEPT !.pc = "log",
                            !.edit = FlushEdit(IF E = {} THEN {} ELSE {<<level, meta>>})]
    BY <1>3 DEF BuildTable
  <2>2. bg.kind = "flush" /\ db.imm # {}
    BY <2>1 DEF KeepsLogs, EditsKeepLogs
  <2>3. level \in Levels /\ meta.num = bg.num /\ \A m \in db.imm : db.memtables[m] \subseteq E
    BY PickedLevel DEF Meta
  <2> HIDE DEF E, meta, level
  <2>4. /\ disk'.manifest = disk.manifest /\ disk'.logs = disk.logs
        /\ E # {} => disk'.tables = With(disk.tables, bg.num, E)
    BY <1>0, <2>1
  <2>5. db'.logNumber = db.logNumber /\ db'.imm = db.imm /\ db'.log = db.log
        /\ db'.memtables = db.memtables
    BY <1>0, <2>1, Fields
  <2>6. /\ bg'.pc = "log" /\ bg'.kind = "flush"
        /\ bg'.edit = FlushEdit(IF E = {} THEN {} ELSE {<<level, meta>>})
    BY <1>0, <2>1, <2>2, Fields
  <2>7. /\ bg'.edit.log = db.log /\ bg'.edit.nextFile = db.nextFile
        /\ bg'.edit.added = IF E = {} THEN {} ELSE {<<level, meta>>}
    BY <2>6 DEF FlushEdit, Edit
  <2>8. \A a \in bg'.edit.added : a \in Levels \X {a[2]}
    <3>1. \A a \in bg'.edit.added : a = <<level, meta>>
      BY <2>7
    <3> QED
      BY <2>3, <3>1
  <2>9. \A m \in db.imm :
            db.memtables[m] \subseteq UNION {disk'.tables[n] : n \in Added(bg'.edit)}
    <3>1. CASE E = {}
      BY <2>3, <3>1
    <3>2. CASE E # {}
      <4>1. bg'.edit.added = {<<level, meta>>}
        BY <2>7, <3>2
      <4>2. Added(bg'.edit) = {bg.num}
        BY <2>3, <4>1 DEF Added
      <4>3. disk'.tables[bg.num] = E
        BY <2>4, <3>2 DEF With, Overlay
      <4> QED
        BY <2>3, <4>2, <4>3
    <3> QED
      BY <3>1, <3>2
  <2>10. EditsKeepLogs'
    BY <1>0, <2>2, <2>5, <2>6, <2>7, <2>8, <2>9 DEF EditsKeepLogs
  <2> QED
    BY <2>4, <2>5, <2>10
<1>4. CASE BeginCompaction
  <2>1. UNCHANGED disk
    BY <1>4, Zenon DEF BeginCompaction
  <2>2. PICK c, e, todo, pointers : Begins(c, e, todo, pointers)
    BY <1>4, CompactionBegun
  <2>3. db' = [db EXCEPT !.pointers = pointers]
    BY <2>2 DEF Begins
  <2>4. db'.logNumber = db.logNumber /\ db'.imm = db.imm
    BY <1>0, <2>3, Fields
  <2>5. CASE bg' = [bg EXCEPT !.pc = "merge", !.c = c, !.todo = todo]
    BY <1>0, <2>1, <2>4, <2>5, Fields, NoEditIsRight
  <2>6. ASSUME bg' = [bg EXCEPT !.pc = "log", !.kind = "move", !.edit = e], NEW f,
               e = Edit({<<c.level + 1, f>>}, {<<c.level, f.num>>}, db.logNumber, Pointer(c))
        PROVE  Goal
    <3>1. bg'.pc = "log" /\ bg'.kind = "move" /\ bg'.edit = e
      BY <1>0, <2>6, Fields
    <3>2. e.log = db.logNumber /\ e.nextFile = db.nextFile
      BY <2>6 DEF Edit
    <3>3. e.log \in Below(e.nextFile) \cup {0}
      BY <1>0, <3>2 DEF Below
    <3>4. EditsKeepLogs'
      BY <2>4, <3>1, <3>2, <3>3 DEF EditsKeepLogs
    <3> QED
      BY <2>1, <2>4, <3>4
  <2> QED
    BY <2>2, <2>5, <2>6 DEF Begins
<1>5. CASE WriteOutput
  <2>1. /\ bg.pc = "merge" /\ disk' = [disk EXCEPT !.tables = With(@, db.nextFile, Head(bg.todo))]
        /\ bg' = [bg EXCEPT !.todo = Tail(@), !.made = Append(@, Meta(db.nextFile, Head(bg.todo)))]
        /\ db' = [db EXCEPT !.nextFile = db.nextFile + 1, !.pending = @ \cup {db.nextFile}]
    BY <1>5 DEF WriteOutput
  <2>2. /\ bg'.pc = "merge" /\ disk'.manifest = disk.manifest /\ disk'.logs = disk.logs
        /\ db'.logNumber = db.logNumber /\ db'.imm = db.imm
    BY <1>0, <2>1, Fields
  <2> QED
    BY <2>2, NoEditIsRight
<1>6. CASE EndMerge
  <2>1. /\ UNCHANGED <<disk, db>>
        /\ \E added, deleted : bg' = [bg EXCEPT !.pc = "log", !.kind = "merge",
               !.edit = Edit(added, deleted, db.logNumber, Pointer(bg.c))]
    BY <1>6 DEF EndMerge
  <2>2. PICK added, deleted : bg' = [bg EXCEPT !.pc = "log", !.kind = "merge",
               !.edit = Edit(added, deleted, db.logNumber, Pointer(bg.c))]
    BY <2>1
  <2>3. /\ bg'.pc = "log" /\ bg'.kind = "merge"
        /\ bg'.edit = Edit(added, deleted, db.logNumber, Pointer(bg.c))
    BY <1>0, <2>2, Fields
  <2>4. bg'.edit.log = db.logNumber /\ bg'.edit.nextFile = db.nextFile
    BY <2>3 DEF Edit
  <2>5. bg'.edit.log \in Below(bg'.edit.nextFile) \cup {0}
    BY <1>0, <2>4 DEF Below
  <2>6. EditsKeepLogs'
    BY <2>1, <2>3, <2>4, <2>5 DEF EditsKeepLogs
  <2> QED
    BY <2>1, <2>6
<1> QED
  BY <1>1, <1>2, <1>3, <1>4, <1>5, <1>6 DEF Background

\* A manifest with the edit in it passes over no log that is needed: that of a flushed
\* memtable is not, as the table is in the manifest.
LEMMA LogsAfterEdit ==
    ASSUME Shape, NothingBeforeOpen, NamesFiles, NamesFiles', KeepsLogs, Background, bg.pc = "log",
           disk' = [disk EXCEPT !.manifest = Logged(@, bg.edit)]
    PROVE  /\ disk'.logs = disk.logs /\ disk'.manifest.log = bg.edit.log
           /\ disk'.manifest.log \in Nat /\ disk'.manifest.log < disk'.manifest.nextFile
           /\ bg.edit.log \in 0..db.log
           /\ \A m \in db.imm : LogIsKept(m)'
<1>1. /\ db.up = "open" /\ db'.memtables = db.memtables
  BY BackgroundFrame
<1>2. /\ disk'.logs = disk.logs /\ disk'.manifest.log = bg.edit.log
      /\ disk'.manifest.nextFile = bg.edit.nextFile /\ disk'.tables = disk.tables
      /\ disk'.manifest.version = Apply(disk.manifest.version, bg.edit)
  BY Fields DEF Shape, Logged
<1>3. bg.edit.nextFile \in Nat /\ bg.edit.nextFile > 0 /\ DOMAIN disk.logs \subseteq Nat
      /\ Added(bg.edit) \subseteq DOMAIN disk.tables
  BY DEF NamesFiles, ManifestNamesFiles, VersionsNameFiles, BackgroundNamesFiles
<1>4. bg.edit.log \in Nat /\ bg.edit.log < bg.edit.nextFile
  BY <1>3 DEF KeepsLogs, EditsKeepLogs, Below
<1>5. db.log \in Nat /\ db.logNumber \in 0..db.log /\ bg.edit.log \in {db.log, db.logNumber}
  BY <1>1 DEF KeepsLogs, EditsKeepLogs, LogsExist, Below
<1>6. CASE bg.kind = "flush"
  <2>1. Added(bg.edit) \subseteq Numbers(disk'.manifest.version)
    <3> SUFFICES ASSUME NEW a \in bg.edit.added PROVE a[2].num \in Numbers(disk'.manifest.version)
      BY DEF Added
    <3>1. a \in Levels \X {a[2]}
      BY <1>6 DEF KeepsLogs, EditsKeepLogs
    <3>2. a[1] \in Levels /\ <<a[1], a[2]>> \in bg.edit.added
      BY <3>1
    <3>3. a[2] \in Apply(disk.manifest.version, bg.edit)[a[1]]
      BY <3>2 DEF Apply
    <3> QED
      BY <1>2, <3>2, <3>3, NumberOfFile
  <2>2. UNION {disk.tables[n] : n \in Added(bg.edit)} \subseteq TablesOf(disk.manifest.version)'
    BY <1>2, <1>3, <2>1 DEF TablesOf
  <2>3. \A m \in db.imm : db.memtables[m] \subseteq UNION {disk.tables[n] : n \in Added(bg.edit)}
    BY <1>6 DEF KeepsLogs, EditsKeepLogs
  <2> QED
    BY <1>1, <1>2, <1>4, <1>5, <2>2, <2>3 DEF LogIsKept
<1>7. CASE bg.kind # "flush"
  <2>1. bg.edit.log = db.logNumber
    BY <1>7 DEF KeepsLogs, EditsKeepLogs
  <2>2. \A m \in db.imm : m \in DOMAIN disk.logs /\ m >= db.logNumber
    BY <1>5 DEF KeepsLogs, LogsExist
  <2> QED
    BY <1>2, <1>4, <1>5, <2>1, <2>2 DEF LogIsKept, LogsToReplay
<1> QED
  BY <1>6, <1>7

\* So the logs that memtables need are kept when a version is installed,
LEMMA LogsInstallVersion ==
    ASSUME Shape, NothingBeforeOpen, NamesFiles, NamesFiles', KeepsLogs, Background, InstallVersion
    PROVE  KeepsLogs'
<1> DEFINE d == [db EXCEPT !.current = Apply(@, bg.edit), !.logNumber = bg.edit.log, !.seek = {}]
<1>1. /\ bg.pc = "log" /\ disk' = [disk EXCEPT !.manifest = Logged(@, bg.edit)]
      /\ \/ bg.kind = "move" /\ EndBackground(d)
         \/ bg.kind = "flush" /\ db' = [d EXCEPT !.imm = {}] /\ bg' = [bg EXCEPT !.pc = "cleanup"]
         \/ /\ bg.kind = "merge"
            /\ db' = Unpend(d) /\ bg' = [BgIdle EXCEPT !.pc = "cleanup", !.kind = "merge"]
  BY DEF InstallVersion
<1>2. DOMAIN d = DOMAIN Closed /\ d.logNumber = bg.edit.log /\ d.imm = db.imm
  BY Fields DEF Shape
<1> HIDE DEF d
<1>3. /\ db'.logNumber = bg.edit.log /\ bg'.pc \notin {"build", "log"}
      /\ \/ db'.imm = {}
         \/ bg.kind # "flush" /\ db'.imm = db.imm
  <2>1. CASE bg.kind = "move" /\ EndBackground(d)
    BY <1>2, <2>1, AfterResume, Fields
  <2>2. CASE bg.kind = "flush" /\ db' = [d EXCEPT !.imm = {}] /\ bg' = [bg EXCEPT !.pc = "cleanup"]
    BY <1>2, <2>2, Fields DEF Shape
  <2>3. CASE /\ bg.kind = "merge"
             /\ db' = Unpend(d) /\ bg' = [BgIdle EXCEPT !.pc = "cleanup", !.kind = "merge"]
    BY <1>2, <2>3, Fields DEF Unpend
  <2> QED
    BY <1>1, <2>1, <2>2, <2>3
<1>4. /\ db.up = "open" /\ db'.up = "open" /\ db'.log = db.log /\ db'.memtables = db.memtables
      /\ db'.nextFile \in {db.nextFile, db.nextFile + 1} /\ db.nextFile \in Nat
  BY BackgroundFrame DEF NamesFiles, VersionsNameFiles
<1>5. /\ disk'.logs = disk.logs /\ disk'.manifest.log = bg.edit.log
      /\ disk'.manifest.log \in Nat /\ disk'.manifest.log < disk'.manifest.nextFile
      /\ bg.edit.log \in 0..db.log
      /\ \A m \in db.imm : LogIsKept(m)'
  BY <1>1, LogsAfterEdit
<1>6. /\ db.log \in DOMAIN disk.logs /\ db.log \in Below(db.nextFile)
      /\ db.imm \cup {db.log} \subseteq DOMAIN db.memtables
      /\ \A m \in db.imm : m \in db.logNumber..db.log - 1 /\ m \in DOMAIN disk.logs
      /\ bg.kind # "flush" => bg.edit.log = db.logNumber
  BY <1>1, <1>4 DEF KeepsLogs, LogsExist, EditsKeepLogs
<1>7. db'.log \in Below(db'.nextFile) /\ disk'.manifest.log <= db'.log
  BY <1>4, <1>5, <1>6 DEF Below
<1>8. \A m \in db'.imm : m \in db'.logNumber..db'.log - 1 /\ m \in DOMAIN disk'.logs
  BY <1>3, <1>4, <1>5, <1>6
<1>9. LogsExist'
  BY <1>3, <1>4, <1>5, <1>6, <1>7, <1>8 DEF LogsExist
<1>10. LogsAreKept'
  BY <1>3, <1>5 DEF LogsAreKept
<1> QED
  BY <1>3, <1>9, <1>10, NoEditIsRight DEF KeepsLogs

\* when the manifest may or may not have the edit,
LEMMA LogsBackgroundError ==
    ASSUME Shape, NothingBeforeOpen, NamesFiles, NamesFiles', KeepsLogs, TablesStay, Background,
           BackgroundError
    PROVE  KeepsLogs'
<1> DEFINE d == [db EXCEPT !.bgError = TRUE, !.pending = @ \ {bg.num}]
<1>1. /\ EndBackground(Unpend(d)) \/ Resume(d)
      /\ \/ UNCHANGED disk
         \/ bg.pc = "log" /\ disk' = [disk EXCEPT !.manifest = Logged(@, bg.edit)]
  BY DEF BackgroundError
<1>2. DOMAIN d = DOMAIN Closed /\ d.logNumber = db.logNumber /\ d.imm = db.imm
  BY Fields DEF Shape
<1> HIDE DEF d
<1>3. /\ DOMAIN Unpend(d) = DOMAIN Closed /\ Unpend(d).logNumber = db.logNumber
      /\ Unpend(d).imm = db.imm
  BY <1>2, Fields DEF Unpend
<1>4. /\ db'.logNumber = db.logNumber /\ db'.imm = db.imm /\ bg'.pc \notin {"build", "log"}
  BY <1>1, <1>2, <1>3, AfterResume, Fields
<1>5. CASE UNCHANGED disk
  BY <1>4, <1>5, LogsKeptBehind, NoEditIsRight DEF KeepsLogs
<1>6. CASE bg.pc = "log" /\ disk' = [disk EXCEPT !.manifest = Logged(@, bg.edit)]
  <2>1. /\ db.up = "open" /\ db'.up = "open" /\ db'.log = db.log /\ db'.memtables = db.memtables
        /\ db'.nextFile \in {db.nextFile, db.nextFile + 1} /\ db.nextFile \in Nat
    BY BackgroundFrame DEF NamesFiles, VersionsNameFiles
  <2>2. /\ disk'.logs = disk.logs /\ disk'.manifest.log = bg.edit.log
        /\ disk'.manifest.log \in Nat /\ disk'.manifest.log < disk'.manifest.nextFile
        /\ bg.edit.log \in 0..db.log
        /\ \A m \in db.imm : LogIsKept(m)'
    BY <1>6, LogsAfterEdit
  <2>3. /\ db.log \in DOMAIN disk.logs /\ db.log \in Below(db.nextFile)
        /\ db.logNumber \in 0..db.log
        /\ db.imm \cup {db.log} \subseteq DOMAIN db.memtables
        /\ \A m \in db.imm : m \in db.logNumber..db.log - 1 /\ m \in DOMAIN disk.logs
    BY <2>1 DEF KeepsLogs, LogsExist
  <2>4. db'.log \in Below(db'.nextFile) /\ disk'.manifest.log <= db'.log
    BY <2>1, <2>2, <2>3 DEF Below
  <2>5. LogsExist'
    BY <1>4, <2>1, <2>2, <2>3, <2>4 DEF LogsExist
  <2>6. LogsAreKept'
    BY <1>4, <2>2 DEF LogsAreKept
  <2> QED
    BY <1>4, <2>5, <2>6, NoEditIsRight DEF KeepsLogs
<1> QED
  BY <1>1, <1>5, <1>6

\* and when files are deleted.
LEMMA LogsDeleteObsoleteFiles ==
    ASSUME Shape, NothingBeforeOpen, NamesFiles, NamesFiles', KeepsLogs, TablesStay, Background,
           DeleteObsoleteFiles
    PROVE  KeepsLogs'
<1>1. Resume(db) /\ disk' = IF db.bgError THEN disk ELSE WithoutObsolete(disk)
  BY DEF DeleteObsoleteFiles
<1>2. db'.logNumber = db.logNumber /\ db'.imm = db.imm /\ bg'.pc \notin {"build", "log"}
  BY <1>1, AfterResume, Fields DEF Shape
<1>3. PICK k : k = disk'
  OBVIOUS
<1>4. k.manifest = disk.manifest /\ \A n \in DOMAIN disk.logs : n >= db.logNumber => n \in DOMAIN k.logs
  <2>1. CASE db.bgError
    BY <1>1, <1>3, <2>1
  <2>2. CASE ~db.bgError
    <3>1. k = WithoutObsolete(disk)
      BY <1>1, <1>3, <2>2
    <3> QED
      BY <3>1, ObsoleteIsNotNamed DEF LiveLogs
  <2> QED
    BY <2>1, <2>2
<1> QED
  BY <1>2, <1>3, <1>4, LogsKeptBehind, NoEditIsRight DEF KeepsLogs

\* Every step of the background thread keeps the logs that are needed.
LEMMA LogsBackground ==
    ASSUME Shape, NothingBeforeOpen, NamesFiles, NamesFiles', FirstIsBusy, KeepsLogs, TablesStay,
           Background
    PROVE  FirstIsBusy' /\ KeepsLogs'
<1>1. FirstIsBusy'
  BY BackgroundFrame, BusyStays
<1>2. CASE InstallVersion
  BY <1>1, <1>2, LogsInstallVersion
<1>3. CASE BackgroundError
  BY <1>1, <1>3, LogsBackgroundError
<1>4. CASE DeleteObsoleteFiles
  BY <1>1, <1>4, LogsDeleteObsoleteFiles
<1>5. CASE ~(InstallVersion \/ BackgroundError \/ DeleteObsoleteFiles)
  <2>1. /\ EditsKeepLogs'
        /\ disk'.manifest = disk.manifest /\ disk'.logs = disk.logs
        /\ db'.logNumber = db.logNumber /\ db'.imm = db.imm
    BY <1>5, EditIsRight
  <2>2. LogsExist' /\ LogsAreKept'
    BY <2>1, LogsKeptBehind
  <2> QED
    BY <1>1, <2>1, <2>2 DEF KeepsLogs
<1> QED
  BY <1>2, <1>3, <1>4, <1>5

-----------------------------------------------------------------------------
\* A step of DB::Open or a crash, after which nobody works: only what LogsExist says
\* of the logs is left to show.
LEMMA LogsAtRest ==
    ASSUME FirstIsBusy, UNCHANGED <<queue, group>> \/ (queue' = <<>> /\ group' = NoGroup),
           \A w \in Writers : writer'[w].pc = "idle", bg' = BgIdle, db'.imm = {}, LogsExist'
    PROVE  FirstIsBusy' /\ KeepsLogs'
<1>1. queue' \in Seq(Writers) /\ DOMAIN group' = DOMAIN NoGroup
  BY EmptySeq DEF FirstIsBusy
<1>2. FirstIsBusy'
  BY <1>1, NoneIsBusy DEF Busy
<1>3. EditsKeepLogs'
  BY IdleNamesNothing, NoEditIsRight
<1>4. LogsAreKept'
  BY DEF LogsAreKept
<1> QED
  BY <1>2, <1>3, <1>4 DEF KeepsLogs

\* Recovery goes on from the log that the manifest names, and ends with a new one.
LEMMA LogsOpening ==
    ASSUME Shape, NothingBeforeOpen, NamesFiles, LogsExist, Opening
    PROVE  LogsExist' /\ db'.imm = {}
<1>0. /\ DOMAIN db = DOMAIN Closed /\ DOMAIN disk = {"tables", "logs", "manifest"}
      /\ DOMAIN db.replay = DOMAIN NoReplay
      /\ disk.manifest.log \in Nat /\ disk.manifest.log < disk.manifest.nextFile
      /\ disk.manifest.nextFile \in Nat /\ db.nextFile \in Nat
      /\ db.up # "closed" => disk.manifest.nextFile <= db.nextFile
      /\ db.up # "open" => db.imm = {}
  BY Fields DEF Shape, LogsExist, NamesFiles, ManifestNamesFiles, VersionsNameFiles, NothingBeforeOpen
<1>1. CASE Recover
  <2>1. /\ UNCHANGED disk /\ db'.up = "replaying" /\ db'.imm = {}
        /\ db'.logNumber = disk.manifest.log
    BY <1>1 DEF Recover, Closed
  <2> QED
    BY <1>0, <2>1 DEF LogsExist
<1>2. CASE ReplayRecord \/ EndOfLog
  <2>1. /\ db.up = "replaying"
        /\ \A x \in DOMAIN Closed \ {"replay", "lastSeq", "nextFile", "pending"} : db'[x] = db[x]
        /\ \/ UNCHANGED disk
           \/ \E mem : disk' = [disk EXCEPT !.tables = With(@, db.nextFile, mem)]
    BY <1>2, ReplayDoes
  <2>2. db'.up = "replaying" /\ db'.logNumber = db.logNumber /\ db'.imm = db.imm
    BY <2>1, Fields
  <2>3. disk'.manifest = disk.manifest
    BY <1>0, <2>1
  <2> QED
    BY <1>0, <2>1, <2>2, <2>3 DEF LogsExist
<1>3. CASE BeginLog
  <2>1. /\ db.up = "replaying" /\ disk' = [disk EXCEPT !.logs = With(@, db.nextFile, EmptyLog)]
        /\ db' = [db EXCEPT !.up = "replayed", !.nextFile = @ + 1, !.log = db.nextFile,
                            !.memtables = With(<<>>, db.nextFile, {})]
    BY <1>3 DEF BeginLog
  <2>2. /\ disk'.manifest = disk.manifest /\ disk'.logs = With(disk.logs, db.nextFile, EmptyLog)
        /\ db'.up = "replayed" /\ db'.nextFile = db.nextFile + 1 /\ db'.log = db.nextFile
        /\ db'.memtables = With(<<>>, db.nextFile, {}) /\ db'.logNumber = db.logNumber
        /\ db'.imm = {}
    BY <1>0, <2>1, Fields
  <2>3. db'.log \in DOMAIN disk'.logs /\ db'.log \in DOMAIN db'.memtables
    BY <2>2 DEF With, Overlay
  <2>4. db.logNumber = disk.manifest.log
    BY <2>1 DEF LogsExist
  <2>5. /\ db'.log \in Below(db'.nextFile) /\ db'.logNumber \in 0..db'.log
        /\ disk'.manifest.log <= db'.log
    BY <1>0, <2>1, <2>2, <2>4 DEF Below
  <2> QED
    BY <1>0, <2>2, <2>3, <2>5 DEF LogsExist
<1>4. CASE InstallRecovered
  <2> DEFINE e == Edit({<<0, Meta(n, disk.tables[n])>> : n \in db.pending}, {}, db.log, <<>>)
  <2>1. /\ db.up = "replayed" /\ disk' = [disk EXCEPT !.manifest = Logged(@, e)]
        /\ db' = [db EXCEPT !.up = "installed", !.current = Apply(@, e),
                            !.logNumber = db.log, !.pending = {}]
    BY <1>4 DEF InstallRecovered
  <2>2. e.log = db.log /\ e.nextFile = db.nextFile
    BY DEF Edit
  <2> HIDE DEF e
  <2>3. /\ disk'.logs = disk.logs /\ disk'.manifest.log = db.log
        /\ disk'.manifest.nextFile = db.nextFile
    BY <1>0, <2>1, <2>2 DEF Logged
  <2>4. /\ db'.up = "installed" /\ db'.nextFile = db.nextFile /\ db'.log = db.log
        /\ db'.memtables = db.memtables /\ db'.logNumber = db.log /\ db'.imm = {}
    BY <1>0, <2>1, Fields
  <2>5. /\ db.log \in DOMAIN disk.logs /\ db.log \in Below(db.nextFile)
        /\ db.log \in DOMAIN db.memtables
    BY <2>1 DEF LogsExist
  <2>6. db.log \in Nat /\ db.log < db.nextFile
    BY <1>0, <2>5 DEF Below
  <2> QED
    BY <2>3, <2>4, <2>5, <2>6 DEF LogsExist
<1>5. CASE FinishOpen
  <2>1. /\ db.up = "installed" /\ disk' = WithoutObsolete(disk)
        /\ db' = MaybeSchedule([db EXCEPT !.up = "open"])
    BY <1>5 DEF FinishOpen
  <2>2. PICK k : k = disk'
    OBVIOUS
  <2>3. k.manifest = disk.manifest /\ DOMAIN k.logs = LiveLogs
    BY <2>1, <2>2, ObsoleteIsNotNamed
  <2>4. /\ db'.up = "open" /\ db'.nextFile = db.nextFile /\ db'.log = db.log
        /\ db'.memtables = db.memtables /\ db'.logNumber = db.logNumber /\ db'.imm = {}
    BY <1>0, <2>1, Fields DEF MaybeSchedule
  <2>5. /\ db.log \in DOMAIN disk.logs /\ db.log \in Below(db.nextFile)
        /\ db.logNumber \in 0..db.log /\ disk.manifest.log <= db.log
        /\ db.log \in DOMAIN db.memtables
    BY <2>1 DEF LogsExist
  <2>6. db.log \in LiveLogs
    BY <1>0, <2>5 DEF LiveLogs, Below
  <2> QED
    BY <1>0, <2>2, <2>3, <2>4, <2>5, <2>6 DEF LogsExist
<1> QED
  BY <1>1, <1>2, <1>3, <1>4, <1>5 DEF Opening

\* At first the log of the manifest is one that has been used.
LEMMA LogsInit == Init => FirstIsBusy /\ KeepsLogs
<1> SUFFICES ASSUME Init PROVE FirstIsBusy /\ KeepsLogs
  OBVIOUS
<1>1. db.up = "closed" /\ db.imm = {} /\ bg.pc = "idle"
  BY IdleNamesNothing DEF Init, Closed
<1>2. disk.manifest.log \in Nat /\ disk.manifest.log < disk.manifest.nextFile
  BY LeftByOK DEF Init, DiskOK
<1>3. KeepsLogs
  BY <1>1, <1>2 DEF KeepsLogs, LogsExist, EditsKeepLogs, LogsAreKept
<1>4. queue \in Seq(Writers) /\ group = NoGroup /\ \A w \in Writers : writer[w].pc = "idle"
  BY EmptySeq DEF Init, Idle
<1>5. FirstIsBusy
  BY <1>4 DEF FirstIsBusy, Busy
<1> QED
  BY <1>3, <1>5

\* Every step keeps the logs that are needed.
LEMMA LogsNext ==
    ASSUME LogsInv, FilesInv', TablesStay, [Next]_vars
    PROVE  FirstIsBusy' /\ KeepsLogs'
<1>0. /\ Shape /\ NothingBeforeOpen /\ NamesFiles /\ NamesFiles' /\ FirstIsBusy
      /\ LogsExist /\ KeepsLogs
  BY DEF LogsInv, FilesInv, NamesFiles, KeepsLogs
<1>1. CASE UNCHANGED vars
  BY <1>0, <1>1 DEF vars, FirstIsBusy, Busy, KeepsLogs, LogsExist, EditsKeepLogs, LogsAreKept,
                    LogIsKept, LogsToReplay, TablesOf, Added
<1>2. CASE \E w \in Writers : WriterStep(w) \/ \E b \in Batches : Write(w, b)
  BY <1>0, <1>2, NamesWriter, BusyWriter, LogsWriter
<1>3. CASE \/ \E s \in Snapshots : GetSnapshot(s) \/ ReleaseSnapshot(s)
           \/ \E r \in Readers : BeginRead(r) \/ EndRead(r)
  BY <1>0, <1>3, NamesReader, LogsReader
<1>4. CASE Background
  BY <1>0, <1>4, LogsBackground
<1>5. CASE Opening
  <2>1. db.up # "open" /\ UNCHANGED <<queue, writer, group, bg>>
    <3>1. CASE ReplayRecord \/ EndOfLog
      BY <1>0, <3>1, ReplayDoes
    <3>2. CASE Recover \/ BeginLog \/ InstallRecovered \/ FinishOpen
      BY <3>2 DEF Recover, BeginLog, InstallRecovered, FinishOpen
    <3> QED
      BY <1>5, <3>1, <3>2 DEF Opening
  <2>2. bg' = BgIdle /\ \A w \in Writers : writer'[w].pc = "idle"
    BY <1>0, <2>1 DEF NothingBeforeOpen
  <2>3. LogsExist' /\ db'.imm = {}
    BY <1>0, <1>5, LogsOpening
  <2> QED
    BY <1>0, <2>1, <2>2, <2>3, LogsAtRest
<1>6. CASE Crash
  <2>1. /\ db' = Closed /\ queue' = <<>> /\ group' = NoGroup /\ bg' = BgIdle
        /\ writer' = [w \in Writers |-> Idle]
        /\ UNCHANGED disk \/ \E logs : disk' = [disk EXCEPT !.logs = logs]
    BY <1>6 DEF Crash
  <2>2. disk'.manifest = disk.manifest
    BY <1>0, <2>1, Fields DEF Shape
  <2>3. db'.up = "closed" /\ db'.imm = {}
    BY <2>1 DEF Closed
  <2>4. LogsExist'
    BY <1>0, <2>2, <2>3 DEF LogsExist
  <2>5. \A w \in Writers : writer'[w].pc = "idle"
    BY <2>1 DEF Idle
  <2> QED
    BY <1>0, <2>1, <2>3, <2>4, <2>5, LogsAtRest
<1> QED
  BY <1>1, <1>2, <1>3, <1>4, <1>5, <1>6 DEF Next

\* In every reachable state the logs of the memtables are there, and recovery will
\* replay them, or find what they held in a table.
THEOREM LogsInvariant == Spec => []LogsInv
<1>1. Init => LogsInv
  BY ShapeInit, FiniteInit, NamesInit, LogsInit DEF LogsInv, FilesInv, NamesFiles, KeepsLogs
<1>2. LogsInv /\ [Next]_vars => LogsInv'
  <2> SUFFICES ASSUME LogsInv, [Next]_vars PROVE LogsInv'
    OBVIOUS
  <2>1. Shape /\ NothingBeforeOpen /\ FinitelyMany /\ NamesFiles
    BY DEF LogsInv, FilesInv, NamesFiles
  <2>2. FilesInv' /\ TablesStay
    BY <2>1, ShapeNext, FiniteNext, NamesNext DEF FilesInv, NamesFiles
  <2> QED
    BY <2>2, LogsNext DEF LogsInv, KeepsLogs
<1> QED
  BY <1>1, <1>2, PTL DEF Spec

\* No file that is still needed is deleted (RemoveObsoleteFiles), nor passed over by
\* the manifest: a table that a version names, the manifest's, the current one, or one
\* that a compaction or a reader still refers to; the log of a memtable which no table
\* holds yet.
THEOREM NeededFilesAreKept == Spec => []NeededFilesExist
<1>1. LogsInv => NeededFilesExist
  <2> SUFFICES ASSUME LogsInv PROVE NeededFilesExist
    OBVIOUS
  <2>1. FilesInv /\ LogsExist /\ LogsAreKept
    BY DEF LogsInv
  <2>2. /\ Numbers(disk.manifest.version) \subseteq DOMAIN disk.tables
        /\ Numbers(db.current) \subseteq DOMAIN disk.tables
        /\ Numbers(bg.c.version) \subseteq DOMAIN disk.tables
        /\ \A r \in Readers : Numbers(reader[r].version) \subseteq DOMAIN disk.tables
    BY <2>1 DEF FilesInv, ManifestNamesFiles, VersionsNameFiles, BackgroundNamesFiles
  <2>3. ASSUME db.up = "open" PROVE LogIsKept(db.log)
    <3>1. db.log \in DOMAIN disk.logs /\ db.log >= disk.manifest.log
      BY <2>1, <2>3 DEF LogsExist, Below, FilesInv, ManifestNamesFiles, VersionsNameFiles
    <3> QED
      BY <3>1 DEF LogIsKept, LogsToReplay
  <2>4. db.up = "open" => \A m \in db.imm : LogIsKept(m)
    BY <2>1 DEF LogsAreKept
  <2> QED
    BY <2>2, <2>3, <2>4 DEF NeededFilesExist
<1> QED
  BY <1>1, LogsInvariant, PTL
=============================================================================
