----------------------------- MODULE VersionSet -----------------------------
(***************************************************************************)
(* leveldb's versions (db/version_set.cc): which table files make up the   *)
(* database, on which level, where a read looks, and what a compaction     *)
(* takes in and puts out.  A version is a function from levels to sets of  *)
(* file descriptions.  Sizes are counted in entries instead of bytes.      *)
(***************************************************************************)
EXTENDS InternalKeys, FiniteSetsExt, SequencesExt

CONSTANTS
    NumLevels,               \* kNumLevels
    L0CompactionTrigger,     \* kL0_CompactionTrigger
    MaxMemCompactLevel,      \* kMaxMemCompactLevel
    TargetFileSize,          \* where a compaction closes an output file
    MaxGrandParentOverlap,   \* how much of level+2 one output may overlap
    ExpandedLimit,           \* how much an expanded compaction may take in
    MaxBytesForLevel         \* by level, from level 1

ASSUME VersionSetAssumption ==
    /\ NumLevels \in Nat /\ NumLevels > 2
    /\ MaxMemCompactLevel \in 0..NumLevels - 1
    /\ {L0CompactionTrigger, TargetFileSize} \subseteq Nat \ {0}
    /\ {MaxGrandParentOverlap, ExpandedLimit} \subseteq Nat
    /\ MaxBytesForLevel \in [1..NumLevels - 1 -> Nat \ {0}]

\* The function f with the values of g where g has one; and with y at x.
Overlay(f, g) == [z \in DOMAIN f \cup DOMAIN g |-> IF z \in DOMAIN g THEN g[z] ELSE f[z]]
With(f, x, y) == Overlay(f, [z \in {x} |-> y])

Levels == 0..NumLevels - 1
NoFiles == [l \in Levels |-> {}]

\* The FileMetaData of a table that holds the entries E.
Meta(num, E) == [num |-> num, smallest |-> KeyOf(Smallest(E)), largest |-> KeyOf(Largest(E)),
                 size |-> Cardinality(E)]

BySmallest(f, g) ==
    \/ Before(f.smallest, g.smallest)
    \/ f.smallest = g.smallest /\ f.num < g.num
FirstFile(F) == {f \in F : \A g \in F \ {f} : BySmallest(f, g)}
TotalFileSize(F) == MapThenSumSet(LAMBDA f : f.size, F)

SmallestKey(F) == Smallest({f.smallest : f \in F})
LargestKey(F) == Largest({f.largest : f \in F})

Covers(f, k) == f.smallest.key <= k /\ k <= f.largest.key
Overlaps(f, lo, hi) == lo <= f.largest.key /\ f.smallest.key <= hi
OverlapInLevel(v, l, lo, hi) == \E f \in v[l] : Overlaps(f, lo, hi)

-----------------------------------------------------------------------------
\* Where Version::Get looks for k at sequence number s: in every file of level
\* 0 that covers it, newest first, then in one file per level, the first that
\* ends at or after the internal key.
FindFile(F, ikey) == {f \in F : ~Before(f.largest, ikey)
                                /\ \A g \in F \ {f} : BySmallest(g, f) => Before(g.largest, ikey)}
Candidates(v, k, s) ==
    {<<0, f>> : f \in {g \in v[0] : Covers(g, k)}}
    \cup UNION {{<<l, f>> : f \in {g \in FindFile(v[l], [key |-> k, seq |-> s]) :
                                   g.smallest.key <= k}} : l \in Levels \ {0}}

\* (mutant) level 0 searched from the oldest file
SearchedBeforeOldest(c, d) ==
    c[1] < d[1] \/ (c[1] = 0 /\ d[1] = 0 /\ c[2].num < d[2].num)

SearchedBefore(c, d) ==
    c[1] < d[1] \/ (c[1] = 0 /\ d[1] = 0 /\ c[2].num > d[2].num)
FirstSearched(C) == {c \in C : \A d \in C \ {c} : SearchedBefore(c, d)}

\* tables is what is on disk; reading a file that is gone is an error.
IOError == -1
TableGet(v, tables, k, s) ==
    LET C == Candidates(v, k, s)
        stops == {c \in C : c[2].num \notin DOMAIN tables \/ Has(tables[c[2].num], k, s)}
        num == CHOOSE n \in {c[2].num : c \in FirstSearched(stops)} : TRUE
    IN  IF stops = {} THEN NotFound
        ELSE IF num \notin DOMAIN tables THEN IOError ELSE Lookup(tables[num], k, s)

\* Files that a Get has read once it needed a second one: the first is charged.
SeekCharge(v, tables, k, s) ==
    LET C == Candidates(v, k, s)
    IN  {c \in FirstSearched(C) : \E d \in C :
            /\ SearchedBefore(c, d)
            /\ \A b \in C : SearchedBefore(b, d) => ~Has(tables[b[2].num], k, s)}

-----------------------------------------------------------------------------
\* GetOverlappingInputs: on level 0 every file found widens the range.
OverlappingInputs(v, l, lo, hi) ==
    LET At(r) == {f \in v[l] : Overlaps(f, r[1], r[2])}
        Widen(r) == <<Min({r[1]} \cup {f.smallest.key : f \in At(r)}),
                      Max({r[2]} \cup {f.largest.key : f \in At(r)})>>
        Widened[n \in 0..Cardinality(v[0])] == IF n = 0 THEN <<lo, hi>> ELSE Widen(Widened[n - 1])
    IN  At(IF l = 0 THEN Widened[Cardinality(v[0])] ELSE <<lo, hi>>)

\* (mutant) looks at the level it leaves, not at the one it enters
PickLevelOneOff(v, lo, hi) ==
    Max({l \in 0..MaxMemCompactLevel : \A m \in 0..l - 1 : ~OverlapInLevel(v, m, lo, hi)})

\* PickLevelForMemTableOutput: the deepest level the new table may skip to.
PickLevelForMemTableOutput(v, lo, hi) ==
    LET MayPass(l) ==    \* from l to l + 1
            /\ ~OverlapInLevel(v, l + 1, lo, hi)
            /\ l + 2 < NumLevels =>
                   TotalFileSize(OverlappingInputs(v, l + 2, lo, hi)) <= MaxGrandParentOverlap
    IN  IF OverlapInLevel(v, 0, lo, hi) THEN 0
        ELSE Max({l \in 0..MaxMemCompactLevel : \A m \in 0..l - 1 : MayPass(m)})

-----------------------------------------------------------------------------
\* Finalize: the level most in need of compaction, as a fraction of its limit.
Score(v, l) == IF l = 0 THEN <<Cardinality(v[0]), L0CompactionTrigger>>
               ELSE <<TotalFileSize(v[l]), MaxBytesForLevel[l]>>
Higher(a, b) == a[1] * b[2] > b[1] * a[2]
CompactionLevel(v) ==
    {l \in 0..NumLevels - 2 : \A m \in 0..NumLevels - 2 :
        ~Higher(Score(v, m), Score(v, l)) /\ (m < l => Higher(Score(v, l), Score(v, m)))}
SizeCompaction(v) == \E l \in 0..NumLevels - 2 : Score(v, l)[1] >= Score(v, l)[2]

\* AddBoundaryInputs: files that begin with the user key the inputs end with.
AddBoundaryInputs(F, inputs) ==
    LET Boundary(I) == {f \in F : /\ Before(LargestKey(I), f.smallest)
                                  /\ f.smallest.key = LargestKey(I).key}
        Added[n \in 0..Cardinality(F)] ==
            IF n = 0 THEN inputs
            ELSE LET I == Added[n - 1]
                 IN  I \cup FirstFile(Boundary(I))
    IN  Added[Cardinality(F)]

\* SetupOtherInputs: the files of level and level + 1 that go in together.
SetupOtherInputs(v, l, picked) ==
    LET Within(m, F) == OverlappingInputs(v, m, SmallestKey(F).key, LargestKey(F).key)
        in0 == AddBoundaryInputs(v[l], picked)
        in1 == Within(l + 1, in0)
        grown0 == AddBoundaryInputs(v[l], Within(l, in0 \cup in1))
        grows == /\ in1 # {}
                 /\ Cardinality(grown0) > Cardinality(in0)
                 /\ TotalFileSize(in1 \cup grown0) < ExpandedLimit
                 /\ Cardinality(Within(l + 1, grown0)) = Cardinality(in1)
        inputs0 == IF grows THEN grown0 ELSE in0
    IN  [level |-> l, inputs0 |-> inputs0, inputs1 |-> in1, version |-> v,
         grandparents |-> IF l + 2 < NumLevels THEN Within(l + 2, inputs0 \cup in1) ELSE {}]

\* The file a compaction starts from, with its level: by size the first after where
\* the last one on that level ended, else the file charged with too many seeks.
ToCompact(v, pointers, seek) ==
    LET After(l) == {f \in v[l] : Before(pointers[l], f.largest)}
        From(l) == FirstFile(IF After(l) = {} THEN v[l] ELSE After(l))
    IN  IF SizeCompaction(v) THEN UNION {{l} \X From(l) : l \in CompactionLevel(v)} ELSE seek

PickCompaction(v, l, f) ==
    SetupOtherInputs(v, l, IF l > 0 THEN {f}
                           ELSE OverlappingInputs(v, 0, f.smallest.key, f.largest.key))

IsTrivialMove(c) ==
    /\ (\E f \in c.inputs0 : c.inputs0 = {f}) /\ c.inputs1 = {}
    /\ TotalFileSize(c.grandparents) <= MaxGrandParentOverlap

IsBaseLevelForKey(c, k) ==
    \A l \in c.level + 2..NumLevels - 1 : \A f \in c.version[l] : ~Covers(f, k)

-----------------------------------------------------------------------------
\* What DoCompactionWork keeps of the entries E of its inputs: not what a newer
\* entry hides from the oldest snapshot, and no marker that hides nothing.
Kept(c, E, snapshot) ==
    {e \in E : /\ ~\E f \in E : f.key = e.key /\ e.seq < f.seq /\ f.seq <= snapshot
               /\ ~(e.val = Deletion /\ e.seq <= snapshot /\ IsBaseLevelForKey(c, e.key))}

\* The output files: one ends when it is full (MaxOutputFileSize), or when the
\* next key would let it overlap too much of level + 2 (ShouldStopBefore).
Outputs(c, E, snapshot) ==
    LET kept == Kept(c, E, snapshot)
        Passed(e) == {g \in c.grandparents : Before(g.largest, e)}
        Take(acc, e) ==
            LET overlapped == acc.overlapped
                    + IF acc.seen THEN TotalFileSize(Passed(e) \ acc.passed) ELSE 0
                stop == overlapped > MaxGrandParentOverlap
                open == IF stop THEN {} ELSE acc.open
                full == e \in kept /\ Cardinality(open) + 1 >= TargetFileSize
                cut == IF stop /\ acc.open # {} THEN <<acc.open>> ELSE <<>>
            IN  [seen |-> TRUE, passed |-> Passed(e),
                 overlapped |-> IF stop THEN 0 ELSE overlapped,
                 done |-> acc.done \o cut \o (IF full THEN <<open \cup {e}>> ELSE <<>>),
                 open |-> IF full THEN {} ELSE open \cup ({e} \cap kept)]
        After[n \in 0..Cardinality(E)] ==    \* the first n entries
            IF n = 0 THEN [seen |-> FALSE, passed |-> {}, overlapped |-> 0,
                           done |-> <<>>, open |-> {}]
            ELSE Take(After[n - 1], InOrder(E)[n])
        end == After[Cardinality(E)]
    IN  end.done \o IF end.open = {} THEN <<>> ELSE <<end.open>>

\* VersionSet::Builder: an edit applied to a version.
Apply(v, edit) ==
    [l \in Levels |-> {f \in v[l] : <<l, f.num>> \notin edit.deleted}
                      \cup {f \in {a[2] : a \in edit.added} : <<l, f>> \in edit.added}]
Numbers(v) == {f.num : f \in UNION {v[l] : l \in Levels}}
=============================================================================
