------------------------------- MODULE Block -------------------------------
(***************************************************************************)
(* The sorted blocks of leveldb's tables (table/block_builder.cc,          *)
(* table/block.cc) and the iterator over a table made of them              *)
(* (table/two_level_iterator.cc), as operators on their states.  A key is  *)
(* stored as what it does not share with the key before it, except at      *)
(* restart points, so an iterator can only decode it with the key of its   *)
(* predecessor at hand.  An offset in a block is the number of an entry.   *)
(***************************************************************************)
EXTENDS ByteKeys, FiniteSetsExt

CONSTANTS RestartInterval,     \* block_restart_interval
          BlockEntries         \* a data block is full with that many entries

ASSUME BlockAssumption == {RestartInterval, BlockEntries} \subseteq Nat \ {0}

-----------------------------------------------------------------------------
\* (mutant) a restart point shares with the key before it like any other
SharedAlways(interval, b, key) == Common(b.last, key)

\* How much of the last key an entry shares.
Shared(interval, b, key) == IF b.counter < interval THEN Common(b.last, key) ELSE 0

\* BlockBuilder::Add
AddEntry(interval, b, e) ==
    LET restart == b.counter >= interval
        shared == Shared(interval, b, e.key)
    IN  [entries |-> Append(b.entries, [shared |-> shared, value |-> e.value,
                                        delta |-> SubSeq(e.key, shared + 1, Len(e.key))]),
         restarts |-> IF restart THEN Append(b.restarts, Len(b.entries) + 1) ELSE b.restarts,
         counter |-> IF restart THEN 1 ELSE b.counter + 1, last |-> e.key]

\* A block of the entries, a sequence of [key, value].
NewBlock(interval, entries) ==
    LET empty == [entries |-> <<>>, restarts |-> <<1>>, counter |-> 0, last |-> <<>>]
        built[i \in 0..Len(entries)] == IF i = 0 THEN empty
                                        ELSE AddEntry(interval, built[i - 1], entries[i])
        b == built[Len(entries)]
    IN  [entries |-> b.entries, restarts |-> b.restarts]

\* The iterator of a block: current_, the offset after value_, restart_index_,
\* key_ and value_.
Limit(b) == Len(b.entries) + 1

Exhausted(b, it) == [it EXCEPT !.current = Limit(b), !.restart = Len(b.restarts) + 1]
NewIter(b) == [current |-> Limit(b), next |-> 1, restart |-> Len(b.restarts) + 1,
               key |-> <<>>, value |-> 0, corrupt |-> FALSE]
IterValid(b, it) == it.current < Limit(b)
Corrupt(b, it) == [Exhausted(b, it) EXCEPT !.corrupt = TRUE, !.key = <<>>]

\* (mutant) restart_index_ moves on one entry too early
RestartAhead(b, it) ==
    Max({it.restart} \cup {r \in DOMAIN b.restarts : b.restarts[r] <= it.next + 1})

\* restart_index_ when the entry at next is parsed: it only moves on, to the last
\* restart point before that entry.
RestartUpTo(b, it) ==
    Max({it.restart} \cup {r \in DOMAIN b.restarts : b.restarts[r] < it.next})

ParseNextKey(b, it) ==
    IF it.next = Limit(b) THEN Exhausted(b, it)
    ELSE LET e == b.entries[it.next]
         IN  IF Len(it.key) < e.shared THEN Corrupt(b, it)
             ELSE [it EXCEPT !.current = it.next, !.next = @ + 1, !.value = e.value,
                      !.key = SubSeq(@, 1, e.shared) \o e.delta,
                      !.restart = RestartUpTo(b, it)]

SeekToRestartPoint(b, it, r) ==
    [it EXCEPT !.key = <<>>, !.restart = r, !.next = b.restarts[r]]

\* ParseNextKey, until the next entry is at the offset end or behind it, or the key
\* is not before target; at most once for each entry there can be.
ParseToEnd(b, it, end) ==
    LET parsed[n \in 0..Limit(b)] ==
            IF n = 0 THEN ParseNextKey(b, it)
            ELSE LET s == parsed[n - 1]
                 IN  IF ~IterValid(b, s) \/ s.next >= end THEN s ELSE ParseNextKey(b, s)
    IN  parsed[Limit(b)]

ParseToKey(b, it, target) ==
    LET parsed[n \in 0..Limit(b)] ==
            IF n = 0 THEN ParseNextKey(b, it)
            ELSE LET s == parsed[n - 1]
                 IN  IF ~IterValid(b, s) \/ ~Less(s.key, target) THEN s ELSE ParseNextKey(b, s)
    IN  parsed[Limit(b)]

BlockSeekToFirst(b, it) == ParseNextKey(b, SeekToRestartPoint(b, it, 1))

BlockSeekToLast(b, it) ==
    ParseToEnd(b, SeekToRestartPoint(b, it, Len(b.restarts)), Limit(b))

BlockNext(b, it) == ParseNextKey(b, it)

\* (mutant) the restart point of the current entry itself is good enough
RestartNotAfter(b, it) == {r \in 1..it.restart : b.restarts[r] <= it.current}

RestartBefore(b, it) == {r \in 1..it.restart : b.restarts[r] < it.current}

BlockPrev(b, it) ==
    IF RestartBefore(b, it) = {} THEN Exhausted(b, it)
    ELSE ParseToEnd(b, SeekToRestartPoint(b, it, Max(RestartBefore(b, it))), it.current)

\* The binary search for the last restart point with a key before the target;
\* 0 if it meets one that shares.
RestartFor(b, target) ==
    LET search[span \in (DOMAIN b.restarts) \X (DOMAIN b.restarts)] ==
            LET left == span[1]  right == span[2]
                mid == (left + right + 1) \div 2
                e == b.entries[b.restarts[mid]]
            IN  IF left >= right THEN left
                ELSE IF e.shared # 0 THEN 0
                ELSE IF Less(e.delta, target) THEN search[<<mid, right>>]
                ELSE search[<<left, mid - 1>>]
    IN  search[<<1, Len(b.restarts)>>]

BlockSeek(b, it, target) ==
    IF RestartFor(b, target) = 0 THEN Corrupt(b, it)
    ELSE ParseToKey(b, SeekToRestartPoint(b, it, RestartFor(b, target)), target)

-----------------------------------------------------------------------------
\* FindShortestSeparator, of the comparator of internal keys: a user key that
\* is shorter and between the two, with the tag that is first of all.
MaxTag == 99
Separator(key, limit) ==
    LET s == User(key)
        n == Common(s, User(limit))
        short == Append(SubSeq(s, 1, n), s[n + 1] + 1)
    IN  IF n < Len(s) /\ n < Len(User(limit)) /\ s[n + 1] + 1 < User(limit)[n + 1]
           /\ Len(short) < Len(s)
        THEN Append(short, MaxTag) ELSE key

\* FindShortSuccessor
Successor(key) ==
    IF Len(User(key)) > 1 THEN <<key[1] + 1, MaxTag>> ELSE key

\* TableBuilder: data blocks, and an index block with a key not before the last
\* of each block and before the first of the next.
NewTable(entries) ==
    LET count == (Len(entries) + BlockEntries - 1) \div BlockEntries
        Cut(i) == SubSeq(entries, (i - 1) * BlockEntries + 1,
                         IF i = count THEN Len(entries) ELSE i * BlockEntries)
        IndexKey(i) == IF i = count THEN Successor(Last(Cut(i)).key)
                       ELSE Separator(Last(Cut(i)).key, Head(Cut(i + 1)).key)
    IN  [blocks |-> [i \in 1..count |-> NewBlock(RestartInterval, Cut(i))],
         index |-> NewBlock(1, [i \in 1..count |-> [key |-> IndexKey(i), value |-> i]])]

\* TwoLevelIterator: the iterator of the index, the data block of data_iter_
\* (0: there is none, -1: one that could not be read), and that iterator.
Unread == -1
NewTableIter(t) == [index |-> NewIter(t.index), block |-> 0, data |-> <<>>, handle |-> 0,
                    failed |-> FALSE]
TableValid(t, it) == it.block > 0 /\ IterValid(t.blocks[it.block], it.data)
TableKey(it) == it.data.key
TableValue(it) == it.data.value

\* ~status().ok()
TableFailed(it) == it.failed \/ it.index.corrupt \/ it.block = Unread
                      \/ (it.block > 0 /\ it.data.corrupt)

\* SetDataIterator; an error of the iterator that is given up is kept.
SetData(it, n, data) ==
    [it EXCEPT !.failed = TableFailed(it), !.block = n, !.data = data]

\* InitDataBlock; the blocks in bad cannot be read now.
InitDataBlock(t, bad, it) ==
    LET n == it.index.value
    IN  IF ~IterValid(t.index, it.index) THEN SetData(it, 0, <<>>)
        ELSE IF it.block # 0 /\ n = it.handle THEN it
        ELSE [SetData(it, IF n \in bad THEN Unread ELSE n,
                      IF n \in bad THEN <<>> ELSE NewIter(t.blocks[n]))
              EXCEPT !.handle = n]

\* The iterator of the data block, where there is one, moves too.
ToFirst(t, it) ==
    IF it.block > 0 THEN [it EXCEPT !.data = BlockSeekToFirst(t.blocks[it.block], @)] ELSE it
ToLast(t, it) ==
    IF it.block > 0 THEN [it EXCEPT !.data = BlockSeekToLast(t.blocks[it.block], @)] ELSE it
ToTarget(t, it, target) ==
    IF it.block > 0 THEN [it EXCEPT !.data = BlockSeek(t.blocks[it.block], @, target)] ELSE it

\* SkipEmptyDataBlocksForward and -Backward
Forward(t, bad, it) ==
    LET moved[n \in 0..(Len(t.blocks) + 1)] ==
            IF n = 0 THEN it
            ELSE LET s == moved[n - 1]
                 IN  IF TableValid(t, s) THEN s
                     ELSE IF ~IterValid(t.index, s.index) THEN SetData(s, 0, <<>>)
                     ELSE ToFirst(t, InitDataBlock(t, bad,
                                         [s EXCEPT !.index = BlockNext(t.index, @)]))
    IN  moved[Len(t.blocks) + 1]
Backward(t, bad, it) ==
    LET moved[n \in 0..(Len(t.blocks) + 1)] ==
            IF n = 0 THEN it
            ELSE LET s == moved[n - 1]
                 IN  IF TableValid(t, s) THEN s
                     ELSE IF ~IterValid(t.index, s.index) THEN SetData(s, 0, <<>>)
                     ELSE ToLast(t, InitDataBlock(t, bad,
                                        [s EXCEPT !.index = BlockPrev(t.index, @)]))
    IN  moved[Len(t.blocks) + 1]

TableSeek(t, bad, it, target) ==
    Forward(t, bad, ToTarget(t, InitDataBlock(t, bad,
                        [it EXCEPT !.index = BlockSeek(t.index, @, target)]), target))
TableSeekToFirst(t, bad, it) ==
    Forward(t, bad, ToFirst(t, InitDataBlock(t, bad, [it EXCEPT !.index = BlockSeekToFirst(t.index, @)])))
TableSeekToLast(t, bad, it) ==
    Backward(t, bad, ToLast(t, InitDataBlock(t, bad, [it EXCEPT !.index = BlockSeekToLast(t.index, @)])))
TableNext(t, bad, it) == Forward(t, bad, [it EXCEPT !.data = BlockNext(t.blocks[it.block], @)])
TablePrev(t, bad, it) == Backward(t, bad, [it EXCEPT !.data = BlockPrev(t.blocks[it.block], @)])
=============================================================================
