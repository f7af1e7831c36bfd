----------------------------- MODULE Iterators -----------------------------
(***************************************************************************)
(* An iterator of a database, as NewDBIterator builds it: db/db_iter.cc    *)
(* over table/merger.cc over the iterators of a memtable and of tables,    *)
(* while a writer goes on inserting into that memtable.  One step is one   *)
(* turn of a loop of DBIter, that is one call of the MergingIterator.      *)
(***************************************************************************)
EXTENDS Block, SkipList

CONSTANTS
    UserKeys,        \* sequences of bytes
    TableContents,   \* what the tables may hold: sequences of sequences of writes
    MemContents,     \* what the memtable may hold at the beginning
    MaxEvents        \* bound: inserts, and blocks that cannot be read

Writes == [key : UserKeys, put : BOOLEAN]

ASSUME IteratorsAssumption ==
    /\ UserKeys \subseteq Seq(Nat) \ {<<>>} /\ MaxEvents \in Nat
    /\ TableContents \subseteq Seq(Seq(Writes)) /\ MemContents \subseteq Seq(Writes)

VARIABLES
    tables,     \* the tables of the version, newest first
    mem,        \* the memtable, a skip list
    sequence,   \* sequence_, the snapshot that is read
    contents,   \* what the snapshot holds
    merged,     \* the MergingIterator
    iter,       \* the DBIter
    call,       \* the call of the user that is running, and its locals
    shown,      \* what key() and value() were when the last call returned
    bounds      \* writes so far, those of them while reading, unreadable blocks

vars == <<tables, mem, sequence, contents, merged, iter, call, shown, bounds>>

Value == 1
Deletion == 0
\* PackSequenceAndType; the value of an entry is its sequence number.
Key(user, seq, type) == Append(user, 2 * seq + type)
SequenceOf(key) == Tag(key) \div 2
TypeOf(key) == Tag(key) % 2

\* The keys of a sequence of [key, put], the first of which has number seq.
KeyOf(write, seq) == Key(write.key, seq, IF write.put THEN Value ELSE Deletion)
Written(writes, seq) == {KeyOf(writes[i], seq + i - 1) : i \in DOMAIN writes}

TableOf(E) ==
    LET key(i) == CHOOSE e \in E : Cardinality({f \in E : Less(f, e)}) = i - 1
    IN  NewTable([i \in 1..Cardinality(E) |-> [key |-> key(i), value |-> SequenceOf(key(i))]])

\* What a reader of the snapshot finds among the keys E.
Visible(E, seq) ==
    LET of(k) == {e \in E : User(e) = k /\ SequenceOf(e) <= seq}
        newest(k) == CHOOSE e \in of(k) : \A f \in of(k) : Tag(f) <= Tag(e)
        found == {k \in {User(e) : e \in E} : of(k) # {} /\ TypeOf(newest(k)) = Value}
    IN  [k \in found |-> SequenceOf(newest(k))]

Nowhere == <<>>
NoCall == [op |-> "none"]
Idle == [asked |-> NoCall, pc |-> "idle", skipping |-> FALSE, type |-> Deletion]
Calls == [op : {"first", "last", "next", "prev"}] \cup [op : {"seek"}, key : UserKeys]

\* A memtable of writes, put in one after the other.
MemTable(writes, seq, heights) ==
    LET list[i \in 0..Len(writes)] ==
            IF i = 0 THEN EmptyList
            ELSE Inserted(list[i - 1], KeyOf(writes[i], seq + i - 1), heights[i])
    IN  list[Len(writes)]

Init ==
    \E writes \in TableContents, memWrites \in MemContents :
    \E heights \in [DOMAIN memWrites -> 1..MaxHeight] :
        LET n == Len(writes)
            seq[i \in 1..(n + 1)] == IF i = 1 THEN 1 ELSE seq[i - 1] + Len(writes[i - 1])
            E(i) == Written(writes[i], seq[i])
            last == seq[n + 1] + Len(memWrites) - 1
        IN  /\ tables = [i \in 1..n |-> TableOf(E(n + 1 - i))]
            /\ mem = MemTable(memWrites, seq[n + 1], heights)
            /\ sequence \in 0..last
            /\ contents = Visible(Chain(mem, 1) \cup UNION {E(i) : i \in 1..n}, sequence)
            /\ merged = [children |-> [i \in 0..n |-> IF i = 0 THEN Nowhere
                                                      ELSE NewTableIter(tables[i])],
                         current |-> -1, forward |-> TRUE]
            /\ bounds = [last |-> last, inserts |-> 0, unread |-> 0]
    /\ iter = [valid |-> FALSE, forward |-> TRUE, savedKey |-> <<>>, savedValue |-> 0]
    /\ call = Idle /\ shown = Nowhere

-----------------------------------------------------------------------------
(* The memtable's iterator is at a node of the list, or Nowhere.             *)

NotHead(n) == IF n = Head0 THEN Nowhere ELSE n
MemMoved(node, op, target) ==
    CASE op = "first" -> mem.next[Head0][1]
      [] op = "last" -> NotHead(FindLast(mem))
      [] op = "seek" -> FindGreaterOrEqual(mem, target)
      [] op = "next" -> mem.next[node][1]
      [] op = "prev" -> NotHead(FindLessThan(mem, node))

TableMoved(t, bad, it, op, target) ==
    CASE op = "first" -> TableSeekToFirst(t, bad, it)
      [] op = "last" -> TableSeekToLast(t, bad, it)
      [] op = "seek" -> TableSeek(t, bad, it, target)
      [] op = "next" -> TableNext(t, bad, it)
      [] op = "prev" -> TablePrev(t, bad, it)

\* Child i of the MergingIterator, the memtable's (0) or a table's; bad are the
\* blocks, <<table, number>>, that cannot be read now.
Moved(c, i, op, target, bad) ==
    IF i = 0 THEN MemMoved(c, op, target)
    ELSE TableMoved(tables[i], {b[2] : b \in {d \in bad : d[1] = i}}, c, op, target)

ChildValid(c, i) == IF i = 0 THEN c # Nowhere ELSE TableValid(tables[i], c)
ChildKey(c, i) == IF i = 0 THEN c ELSE TableKey(c)

-----------------------------------------------------------------------------
(* The MergingIterator, as functions of its state.                           *)

MergedValid(m) == m.current # -1
MergedKey(m) == ChildKey(m.children[m.current], m.current)
MergedValue(m) == IF m.current = 0 THEN SequenceOf(MergedKey(m))
                  ELSE TableValue(m.children[m.current])

\* FindSmallest, FindLargest
Found(children, forward) ==
    LET valid == {i \in DOMAIN children : ChildValid(children[i], i)}
        key(i) == ChildKey(children[i], i)
    IN  [children |-> children, forward |-> forward,
         current |-> IF valid = {} THEN -1
                     ELSE IF forward THEN CHOOSE i \in valid : \A j \in valid : ~Less(key(j), key(i))
                     ELSE CHOOSE i \in valid : \A j \in valid : ~Less(key(i), key(j))]

MergedTo(m, op, target, bad) ==
    Found([i \in DOMAIN m.children |-> Moved(m.children[i], i, op, target, bad)], op # "last")

\* (mutant) a child with nothing behind the current key stays invalid
NotToItsLast(c, i, key, bad) ==
    LET s == Moved(c, i, "seek", key, bad)
    IN  IF ChildValid(s, i) THEN Moved(s, i, "prev", key, bad) ELSE s

\* Prev turns round: a child other than the current one goes before key.
Before(c, i, key, bad) ==
    LET s == Moved(c, i, "seek", key, bad)
    IN  Moved(s, i, IF ChildValid(s, i) THEN "prev" ELSE "last", key, bad)

\* Next turns round: it goes after key.
After(c, i, key, bad) ==
    LET s == Moved(c, i, "seek", key, bad)
    IN  IF ChildValid(s, i) /\ ChildKey(s, i) = key THEN Moved(s, i, "next", key, bad) ELSE s

MergedNext(m, bad) ==
    LET key == MergedKey(m)
    IN  Found([i \in DOMAIN m.children |->
                  IF i = m.current THEN Moved(m.children[i], i, "next", key, bad)
                  ELSE IF m.forward THEN m.children[i]
                  ELSE After(m.children[i], i, key, bad)], TRUE)

MergedPrev(m, bad) ==
    LET key == MergedKey(m)
    IN  Found([i \in DOMAIN m.children |->
                  IF i = m.current THEN Moved(m.children[i], i, "prev", key, bad)
                  ELSE IF ~m.forward THEN m.children[i]
                  ELSE Before(m.children[i], i, key, bad)], FALSE)

Failed(m) == \E i \in DOMAIN m.children \ {0} : TableFailed(m.children[i])

-----------------------------------------------------------------------------
(* DBIter.  A call is asked for, and then runs in steps; each may find one   *)
(* block unreadable.                                                         *)

Ask(c) ==
    /\ call.pc = "idle" /\ (c.op \in {"next", "prev"} => iter.valid)
    /\ call' = [Idle EXCEPT !.asked = c, !.pc = c.op]
    /\ UNCHANGED <<tables, mem, sequence, contents, merged, iter, shown, bounds>>

\* Another thread writes: MemTable::Add, up to the first link.
Insert(k, put, height) ==
    /\ mem.insert = NoInsert /\ bounds.inserts + bounds.unread < MaxEvents
    /\ bounds' = [bounds EXCEPT !.last = @ + 1, !.inserts = @ + 1]
    /\ mem' = Link(BeginInsert(mem, KeyOf([key |-> k, put |-> put], bounds.last + 1), height))
    /\ UNCHANGED <<tables, sequence, contents, merged, iter, call, shown>>

\* ... and the links of the levels above it.
GoOnInserting ==
    /\ mem.insert # NoInsert
    /\ mem' = Link(mem)
    /\ UNCHANGED <<tables, sequence, contents, merged, iter, call, shown, bounds>>

\* A call of the MergingIterator may find that one block, one that it needs,
\* cannot be read.
Faults == {{}} \cup UNION {{{<<i, b>>} : b \in DOMAIN tables[i].blocks} : i \in DOMAIN tables}
Faulty(bad, readable) ==
    IF bad = {} THEN UNCHANGED bounds
    ELSE /\ bounds.inserts + bounds.unread < MaxEvents /\ merged' # readable
         /\ bounds' = [bounds EXCEPT !.unread = @ + 1]

To(op, target) ==
    \E bad \in Faults : /\ merged' = MergedTo(merged, op, target, bad)
                        /\ Faulty(bad, MergedTo(merged, op, target, {}))
ToNext == \E bad \in Faults : /\ merged' = MergedNext(merged, bad)
                              /\ Faulty(bad, MergedNext(merged, {}))
ToPrev == \E bad \in Faults : /\ merged' = MergedPrev(merged, bad)
                              /\ Faulty(bad, MergedPrev(merged, {}))

\* key() and value()
Shown(m, it) == IF ~it.valid THEN Nowhere
                ELSE IF it.forward THEN <<User(MergedKey(m)), MergedValue(m)>>
                ELSE <<it.savedKey, it.savedValue>>

Return == call' = Idle /\ shown' = Shown(merged', iter')
GoOn(c) == call' = c /\ UNCHANGED shown
Nothing == [iter EXCEPT !.valid = FALSE, !.savedKey = <<>>]

\* Seek and SeekToFirst
StartForward ==
    /\ call.pc \in {"seek", "first"}
    /\ LET target == IF call.pc = "seek" THEN Key(call.asked.key, sequence, Value) ELSE <<>>
           started == [iter EXCEPT !.forward = TRUE, !.savedValue = 0,
                          !.savedKey = IF call.pc = "seek" THEN target ELSE @]
       IN  /\ To(call.pc, target)
           /\ IF MergedValid(merged')
              THEN iter' = started /\ GoOn([call EXCEPT !.pc = "find next"])
              ELSE iter' = [started EXCEPT !.valid = FALSE] /\ Return
    /\ UNCHANGED <<tables, mem, sequence, contents>>

SeekToLast ==
    /\ call.pc = "last"
    /\ To("last", <<>>)
    /\ iter' = [iter EXCEPT !.forward = FALSE, !.savedValue = 0]
    /\ GoOn([call EXCEPT !.pc = "find prev"])
    /\ UNCHANGED <<tables, mem, sequence, contents>>

\* Next: the entries of the key shown are skipped.
NextForward ==
    /\ call.pc = "next" /\ iter.forward
    /\ iter' = [iter EXCEPT !.savedKey = User(MergedKey(merged))]
    /\ GoOn([call EXCEPT !.pc = "find next", !.skipping = TRUE])
    /\ UNCHANGED <<tables, mem, sequence, contents, merged, bounds>>

\* ... and turns round.
NextTurns ==
    /\ call.pc = "next" /\ ~iter.forward
    /\ IF MergedValid(merged) THEN ToNext ELSE To("first", <<>>)
    /\ IF MergedValid(merged')
       THEN /\ iter' = [iter EXCEPT !.forward = TRUE]
            /\ GoOn([call EXCEPT !.pc = "find next", !.skipping = TRUE])
       ELSE iter' = [Nothing EXCEPT !.forward = TRUE] /\ Return
    /\ UNCHANGED <<tables, mem, sequence, contents>>

Hidden(user) == call.skipping /\ ~UserLess(iter.savedKey, user)
InSnapshot(key) == SequenceOf(key) <= sequence

\* One turn of FindNextUserEntry.
FindNextUserEntry ==
    /\ call.pc = "find next"
    /\ LET key == MergedKey(merged)
           deleted == InSnapshot(key) /\ TypeOf(key) = Deletion
           found == InSnapshot(key) /\ TypeOf(key) = Value /\ ~Hidden(User(key))
           skip == IF deleted THEN [iter EXCEPT !.savedKey = User(key)] ELSE iter
       IN  IF found
           THEN /\ iter' = [iter EXCEPT !.valid = TRUE, !.savedKey = <<>>]
                /\ UNCHANGED <<merged, bounds>> /\ Return
           ELSE /\ ToNext
                /\ IF MergedValid(merged')
                   THEN iter' = skip /\ GoOn([call EXCEPT !.skipping = @ \/ deleted])
                   ELSE iter' = Nothing /\ Return
    /\ UNCHANGED <<tables, mem, sequence, contents>>

PrevReverse ==
    /\ call.pc = "prev" /\ ~iter.forward
    /\ GoOn([call EXCEPT !.pc = "find prev"])
    /\ UNCHANGED <<tables, mem, sequence, contents, merged, iter, bounds>>

\* Prev turns round: back to before all entries of the key shown.
PrevTurns ==
    /\ call.pc \in {"prev", "scan back"} /\ iter.forward
    /\ LET from == IF call.pc = "prev" THEN User(MergedKey(merged)) ELSE iter.savedKey
       IN  /\ ToPrev
           /\ IF ~MergedValid(merged')
              THEN iter' = [Nothing EXCEPT !.savedValue = 0] /\ Return
              ELSE IF UserLess(User(MergedKey(merged')), from)
              THEN /\ iter' = [iter EXCEPT !.forward = FALSE, !.savedKey = from]
                   /\ GoOn([call EXCEPT !.pc = "find prev"])
              ELSE /\ iter' = [iter EXCEPT !.savedKey = from]
                   /\ GoOn([call EXCEPT !.pc = "scan back"])
    /\ UNCHANGED <<tables, mem, sequence, contents>>

\* One turn of FindPrevUserEntry, and its end.
FindPrevUserEntry ==
    /\ call.pc = "find prev"
    /\ LET key == MergedKey(merged)
           ends == \/ ~MergedValid(merged)
                   \/ /\ InSnapshot(key) /\ call.type # Deletion
                      /\ UserLess(User(key), iter.savedKey)
           taken == IF ~InSnapshot(key) THEN iter
                    ELSE IF TypeOf(key) = Deletion
                    THEN [iter EXCEPT !.savedKey = <<>>, !.savedValue = 0]
                    ELSE [iter EXCEPT !.savedKey = User(key), !.savedValue = MergedValue(merged)]
       IN  IF ends
           THEN /\ iter' = IF call.type = Deletion
                           THEN [Nothing EXCEPT !.savedValue = 0, !.forward = TRUE]
                           ELSE [iter EXCEPT !.valid = TRUE]
                /\ UNCHANGED <<merged, bounds>> /\ Return
           ELSE /\ ToPrev /\ iter' = taken
                /\ GoOn([call EXCEPT !.type = IF InSnapshot(key) THEN TypeOf(key) ELSE @])
    /\ UNCHANGED <<tables, mem, sequence, contents>>

Step == StartForward \/ SeekToLast \/ NextForward \/ NextTurns \/ FindNextUserEntry
           \/ PrevReverse \/ PrevTurns \/ FindPrevUserEntry

Next ==
    \/ \E c \in Calls : Ask(c)
    \/ \E k \in UserKeys, put \in BOOLEAN, height \in 1..MaxHeight : Insert(k, put, height)
    \/ GoOnInserting
    \/ Step

Spec == Init /\ [][Next]_vars
=============================================================================
