------------------------- MODULE IteratorsInvariant -------------------------
(***************************************************************************)
(* What the properties of the iterators need: the invariant of the links   *)
(* of the skip list; what blocks and tables hold, and where their          *)
(* iterators are; and how the MergingIterator and DBIter go together.      *)
(***************************************************************************)
EXTENDS IteratorsProperties

\* The internal keys that can be in the database.
TaggedKeys == {k \in Seq(Nat) : k # <<>> /\ User(k) \in UserKeys}

\* Key x, or the head of the list, is before key y.
IsBefore(x, y) == x = Head0 \/ Less(x, y)

\* The nodes that a search can meet on level l.
On(list, l) == {Head0} \cup Chain(list, l)

\* Every node has a link on each of its levels, and the head on all of them; a link
\* goes to a later node that has that level, or nowhere.
LinksInv(list) ==
    /\ Head0 \in DOMAIN list.next /\ Nodes(list) \subseteq TaggedKeys
    /\ IsFiniteSet(DOMAIN list.next)
    /\ \A n \in DOMAIN list.next :
          list.next[n] \in Seq(Nodes(list) \cup {Null}) /\ Len(list.next[n]) <= MaxHeight
    /\ Len(list.next[Head0]) = MaxHeight
    /\ \A n \in DOMAIN list.next : \A l \in DOMAIN list.next[n] :
          list.next[n][l] # Null => /\ l \in DOMAIN list.next[list.next[n][l]]
                                    /\ IsBefore(n, list.next[n][l])

\* The nodes of a level are on the levels below it; no level is in use above the
\* height; and a level skips none of its nodes.
LevelsInv(list) ==
    /\ list.height \in 1..MaxHeight
    /\ \A l \in 1..MaxHeight :
          /\ \A m \in 1..l : Chain(list, l) \subseteq Chain(list, m)
          /\ l > list.height => Chain(list, l) = {}
          /\ \A n \in On(list, l), y \in Chain(list, l) :
                IsBefore(n, y) => list.next[n][l] # Null /\ ~Less(y, list.next[n][l])

\* The insertion that goes on has linked its node on the lowest levels; on the others
\* prev is still the node behind which it belongs.
InsertInv(list) ==
    LET i == list.insert
    IN  i # NoInsert =>
            /\ i = [node |-> i.node, prev |-> i.prev, linked |-> i.linked]
            /\ i.node \in Nodes(list) /\ i.linked \in Nat
            /\ i.prev \in Seq(DOMAIN list.next) /\ Len(i.prev) <= list.height
            /\ Len(i.prev) = Len(list.next[i.node]) /\ i.linked < Len(i.prev)
            /\ \A l \in 1..i.linked : i.node \in Chain(list, l)
            /\ \A l \in DOMAIN i.prev :
                  l > i.linked =>
                      /\ i.node \notin Chain(list, l) /\ list.next[i.node][l] = Null
                      /\ i.prev[l] \in On(list, l) /\ IsBefore(i.prev[l], i.node)
                      /\ list.next[i.prev[l]][l] # Null => Less(i.node, list.next[i.prev[l]][l])

\* A list of writes with numbers up to last.
ListInv(list, last) ==
    /\ list = [next |-> list.next, height |-> list.height, insert |-> list.insert]
    /\ LinksInv(list) /\ LevelsInv(list) /\ InsertInv(list)
    /\ \A n \in Nodes(list) : Tag(n) <= 2 * last + 1

(* The links of the memtable's list are in order on every level, while the  *)
(* nodes of a level are among those of the level below, whatever insertion   *)
(* is under way (skiplist.h).                                                *)
ListInvariant ==
    /\ bounds.last \in Nat /\ sequence \in Nat
    /\ bounds = [last |-> bounds.last, inserts |-> bounds.inserts, unread |-> bounds.unread]
    /\ ListInv(mem, bounds.last)

-----------------------------------------------------------------------------
(* Blocks, tables and their iterators. *)

\* Keys as a block may hold them: those of the index need not be of the database.
StoredKeys == Seq(Nat) \ {<<>>}

Ordered(K) == \A i, j \in DOMAIN K : i < j => Less(K[i], K[j])

\* Block b holds the keys K: an entry leaves out a prefix of the key before it, and
\* nothing at a restart point.
Holds(b, K) ==
    /\ b.entries \in Seq([shared : Nat, value : Nat, delta : Seq(Nat)])
    /\ K \in Seq(StoredKeys) /\ Len(K) = Len(b.entries)
    /\ \A i \in DOMAIN K :
          \/ b.entries[i].shared = 0 /\ b.entries[i].delta = K[i]
          \/ /\ i > 1 /\ b.entries[i].shared <= Len(K[i - 1])
             /\ K[i] = SubSeq(K[i - 1], 1, b.entries[i].shared) \o b.entries[i].delta
    /\ b.restarts \in Seq(Nat) /\ b.restarts # <<>> /\ b.restarts[1] = 1
    /\ \A r \in DOMAIN b.restarts \ {1} : b.restarts[r] \in DOMAIN K
    /\ \A r \in DOMAIN b.restarts :
          b.restarts[r] \in DOMAIN K => b.entries[b.restarts[r]].shared = 0

\* Those keys, decoded from the first one on.
KeysOf(b) ==
    LET keys[i \in 1..Len(b.entries)] ==
            LET e == b.entries[i]
            IN  IF e.shared = 0 THEN e.delta ELSE SubSeq(keys[i - 1], 1, e.shared) \o e.delta
    IN  keys

\* An iterator of that block is at an entry, with its key and value, or at the end.
IterStates(b) == [current : 1..Limit(b), next : 1..Limit(b), restart : Nat,
                  key : Seq(Nat), value : Nat, corrupt : {FALSE}]
BlockIters(b, K) ==
    {it \in IterStates(b) :
        IterValid(b, it) =>
            /\ it.next = it.current + 1
            /\ it.key = K[it.current] /\ it.value = b.entries[it.current].value
            /\ it.restart \in DOMAIN b.restarts /\ b.restarts[it.restart] <= it.current}

\* Table t consists of blocks that hold the keys D[1], D[2] and so on, and the index
\* holds the keys I, which separate them.
IsTable(t, D, I) ==
    LET n == Len(t.blocks)
    IN  /\ n \in Nat /\ DOMAIN t.blocks = 1..n
        /\ Len(I) = n /\ Holds(t.index, I) /\ Ordered(I)
        /\ \A i \in 1..n : t.index.entries[i].value = i
        /\ D \in [1..n -> Seq(TaggedKeys)]
        /\ \A i \in 1..n : D[i] # <<>> /\ Holds(t.blocks[i], D[i]) /\ Ordered(D[i])
        /\ \A i \in 1..n : \A j \in DOMAIN D[i] :
              /\ t.blocks[i].entries[j].value = SequenceOf(D[i][j])
              /\ ~Less(I[i], D[i][j])
              /\ \A k \in 1..(i - 1) : Less(I[k], D[i][j])

DataKeys(t) == [i \in DOMAIN t.blocks |-> KeysOf(t.blocks[i])]

\* All of them.
TableKeys(t) == UNION {{DataKeys(t)[i][j] : j \in DOMAIN DataKeys(t)[i]} : i \in DOMAIN DataKeys(t)}

\* The iterator of the data block is one of a block of the table; ...
BlockStates == [current : Nat, next : Nat, restart : Nat, key : Seq(Nat), value : Nat,
                corrupt : {FALSE}]
LooseIters(t, D, I) ==
    {it \in [index : BlockIters(t.index, I), block : Unread..Len(t.blocks),
             data : BlockStates \cup {<<>>}, handle : 0..Len(t.blocks), failed : BOOLEAN] :
        it.block > 0 => /\ it.handle = it.block
                        /\ it.data \in BlockIters(t.blocks[it.block], D[it.block])}

\* ... namely of the one at which the iterator of the index is; ...
TableIters(t, D, I) ==
    {it \in LooseIters(t, D, I) :
        IF IterValid(t.index, it.index)
        THEN it.handle = it.index.current /\ it.block \in {it.index.current, Unread}
        ELSE it.block = 0}

\* ... and between calls it is at an entry, unless the table's iterator is at the end.
AtRest(t, it) == TableValid(t, it) \/ it.block = 0

-----------------------------------------------------------------------------
(* The MergingIterator and the DBIter. *)

\* Child i is such an iterator.
ChildInv(c, i) ==
    IF i = 0 THEN c \in Chain(mem, 1) \cup {Nowhere}
    ELSE /\ c \in TableIters(tables[i], DataKeys(tables[i]), KeysOf(tables[i].index))
         /\ AtRest(tables[i], c)

\* No entry is in two of the tables, or in one and in the memtable.
TablesInv ==
    /\ Len(tables) \in Nat /\ DOMAIN tables = 1..Len(tables)
    /\ \A i \in DOMAIN tables :
          /\ IsTable(tables[i], DataKeys(tables[i]), KeysOf(tables[i].index))
          /\ \A k \in TableKeys(tables[i]) : Tag(k) <= 2 * bounds.last + 1 /\ k \notin Nodes(mem)
    /\ \A i, j \in DOMAIN tables :
          i # j => TableKeys(tables[i]) \cap TableKeys(tables[j]) = {}

\* The current child is at an entry, and none of the others is at one before it, or,
\* if the iterator goes back, after it.
MergedOK(m) ==
    /\ m = [children |-> m.children, current |-> m.current, forward |-> m.forward]
    /\ m.forward \in BOOLEAN
    /\ DOMAIN m.children = 0..Len(tables)
    /\ \A i \in 0..Len(tables) : ChildInv(m.children[i], i)
    /\ m.current \in {-1} \cup 0..Len(tables)
    /\ MergedValid(m) =>
          /\ ChildValid(m.children[m.current], m.current)
          /\ \A i \in 0..Len(tables) :
                ChildValid(m.children[i], i) =>
                    IF m.forward THEN ~Less(ChildKey(m.children[i], i), MergedKey(m))
                    ELSE ~Less(MergedKey(m), ChildKey(m.children[i], i))

MergedInv ==
    MergedOK(merged) /\ bounds.unread \in Nat /\ (bounds.unread = 0 => ~Failed(merged))

\* The variables of the DBIter and of a call.
DBIters == [valid : BOOLEAN, forward : BOOLEAN, savedKey : Seq(Nat), savedValue : Nat]
CallStates == [asked : Calls \cup {NoCall}, skipping : BOOLEAN, type : {Value, Deletion},
               pc : {"idle", "first", "last", "seek", "next", "prev",
                     "find next", "find prev", "scan back"}]
ReaderTypes ==
    /\ iter \in DBIters /\ call \in CallStates
    /\ call.pc = "seek" => call.asked \in [op : {"seek"}, key : UserKeys]
    /\ DOMAIN contents \subseteq UserKeys

\* The directions of the two agree, but while a Prev turns round; and where a call
\* needs the merged iterator at an entry, it is at one.
CallInv ==
    /\ call.pc \in {"next", "prev"} => iter.valid
    /\ call.pc \in {"idle", "next", "prev"} /\ iter.valid =>
          IF iter.forward THEN MergedValid(merged) /\ merged.forward
          ELSE MergedValid(merged) => ~merged.forward
    /\ call.pc = "find next" => MergedValid(merged) /\ merged.forward /\ iter.forward
    /\ call.pc = "find prev" => ~iter.forward /\ (MergedValid(merged) => ~merged.forward)
    /\ call.pc = "scan back" => MergedValid(merged) /\ ~merged.forward /\ iter.forward

(* Every child of the MergingIterator is at an entry that its table or the  *)
(* memtable holds, with the key that was added, or at its end; no entry is   *)
(* in two of them; and the current child is the one in turn                  *)
(* (table/merger.cc, table/two_level_iterator.cc, table/block.cc).           *)
ReaderInvariant == ListInvariant /\ TablesInv /\ MergedInv /\ ReaderTypes /\ CallInv
=============================================================================
