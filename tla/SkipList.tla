------------------------------ MODULE SkipList ------------------------------
(***************************************************************************)
(* The memtable's skip list (db/skiplist.h).  One writer links a new node  *)
(* level by level, from the lowest up; readers search without a lock.      *)
(***************************************************************************)
EXTENDS ByteKeys

CONSTANT MaxHeight    \* kMaxHeight

ASSUME SkipListAssumption == MaxHeight \in Nat \ {0}

\* head_, which is before every key, and nullptr, which is after every key.  A
\* node is named by its key.
Head0 == <<0>>
Null == <<>>

\* next[node][level], level 1 being next_[0]; max_height_; and the locals of an
\* Insert that has not returned: its node, prev, and how many levels are linked.
NoInsert == [node |-> Null, prev |-> <<>>, linked |-> 0]
EmptyList == [next |-> [n \in {Head0} |-> [l \in 1..MaxHeight |-> Null]],
              height |-> 1, insert |-> NoInsert]

Nodes(list) == DOMAIN list.next \ {Head0}
KeyIsAfterNode(key, n) == Less(n, key)

\* A search at node x on a level, down to another: on as long as the next node
\* is one of those to be passed, then down.
Search(list, x, from, to, passed) ==
    LET search[at \in (DOMAIN list.next) \X (to..from)] ==
            LET n == at[1]  l == at[2]
            IN  IF list.next[n][l] \in passed THEN search[<<list.next[n][l], l>>]
                ELSE IF l = to THEN n ELSE search[<<n, l - 1>>]
    IN  search[<<x, from>>]

SearchFor(list, x, from, to, key) ==
    Search(list, x, from, to, {n \in Nodes(list) : KeyIsAfterNode(key, n)})

FindLessThan(list, key) == SearchFor(list, Head0, list.height, 1, key)
FindGreaterOrEqual(list, key) == list.next[FindLessThan(list, key)][1]
FindLast(list) == Search(list, Head0, list.height, 1, Nodes(list))

\* Insert finds prev and allocates a node of a random height.
BeginInsert(list, key, height) ==
    [next |-> [n \in DOMAIN list.next \cup {key} |->
                  IF n = key THEN [l \in 1..height |-> Null] ELSE list.next[n]],
     height |-> IF height > list.height THEN height ELSE list.height,
     insert |-> [node |-> key, linked |-> 0,
                 prev |-> [l \in 1..height |->
                              IF l > list.height THEN Head0
                              ELSE SearchFor(list, Head0, list.height, l, key)]]]

\* (mutant) the levels are linked from the highest down
FromTheTop(insert) == Len(insert.prev) - insert.linked

LevelToLink(insert) == insert.linked + 1

\* The node is linked on one more level; after the last one, Insert returns.
Link(list) ==
    LET i == list.insert
        l == LevelToLink(i)
        next == [list.next EXCEPT ![i.node][l] = list.next[i.prev[l]][l],
                                  ![i.prev[l]][l] = i.node]
    IN  [list EXCEPT !.next = next,
                     !.insert = IF i.linked + 1 = Len(i.prev) THEN NoInsert
                                ELSE [i EXCEPT !.linked = @ + 1]]

\* A whole Insert.
Inserted(list, key, height) ==
    LET linked[l \in 0..height] == IF l = 0 THEN BeginInsert(list, key, height)
                                   ELSE Link(linked[l - 1])
    IN  linked[height]

\* The nodes linked on a level.
Chain(list, l) == {list.next[n][l] : n \in {m \in DOMAIN list.next : l <= Len(list.next[m])}}
                      \ {Null}
=============================================================================
