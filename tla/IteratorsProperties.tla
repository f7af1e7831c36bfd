------------------------ MODULE IteratorsProperties ------------------------
(* What an iterator of a database promises, and the iterators it is made of. *)
EXTENDS Iterators

IterOK(b, it) ==
    /\ it.current \in 1..Limit(b) /\ it.next \in 1..Limit(b)
    /\ IterValid(b, it) => it.restart \in DOMAIN b.restarts
                              /\ b.restarts[it.restart] <= it.current

TypeOK ==
    /\ \A i \in DOMAIN tables :
          LET it == merged.children[i]
          IN  /\ IterOK(tables[i].index, it.index)
              /\ it.block \in Unread..Len(tables[i].blocks)
              /\ it.block > 0 => IterOK(tables[i].blocks[it.block], it.data)
    /\ merged.children[0] \in Chain(mem, 1) \cup {Nowhere}
    /\ merged.current \in DOMAIN merged.children \cup {-1}
    /\ call.pc \in {"idle", "find next", "find prev", "scan back"} \cup {c.op : c \in Calls}
    /\ call.asked \in Calls \cup {NoCall}
    /\ iter.valid /\ iter.forward /\ call.pc \in {"idle", "next", "prev"} => MergedValid(merged)
    /\ DOMAIN contents \subseteq UserKeys

(* The iterator behaves as a cursor in the sorted contents of its snapshot: *)
(* whatever mix of Seek, Next and Prev the user calls, whichever memtable   *)
(* or table an entry is in, whatever is hidden by newer entries and by      *)
(* deletions, and whatever other threads insert in the meantime.  When a    *)
(* block could not be read, status() says so.                               *)
Cursor == INSTANCE Cursor WITH Keys <- UserKeys, Before <- UserLess, at <- shown,
                               asked <- call.asked, ok <- ~Failed(merged)
IsACursor == Cursor!Spec

(* Every turn of the loops of DBIter moves on, to a later entry in          *)
(* FindNextUserEntry and to an earlier one in FindPrevUserEntry and Prev,   *)
(* whatever was inserted since the turn before: with finitely many entries  *)
(* every call returns.                                                      *)
LoopsAdvance ==
    LET next == MergedNext(merged, {})
        prev == MergedPrev(merged, {})
    IN  MergedValid(merged) =>
            /\ call.pc = "find next" /\ MergedValid(next)
                  => Less(MergedKey(merged), MergedKey(next))
            /\ call.pc \in {"find prev", "scan back"} /\ MergedValid(prev)
                  => Less(MergedKey(prev), MergedKey(merged))

(* The key that the iterator of a block decodes is the key that was added,  *)
(* never one with the prefix of another, and no block that was written is   *)
(* taken for corrupt, however the iterator was moved there.                 *)
KeysAreDecoded ==
    /\ bounds.unread = 0 => ~Failed(merged)
    /\ \A i \in DOMAIN tables :
          LET it == merged.children[i]
          IN  TableValid(tables[i], it) =>
                  User(it.data.key) \in UserKeys /\ SequenceOf(it.data.key) = it.data.value

(* skiplist.h:14, "reads progress without any internal locking": wherever a *)
(* search stands, at a node it met on some level and on that level or one  *)
(* below, it ends where the lowest list says, though links have been set   *)
(* since it began.  A stale max_height_ only makes it begin lower.          *)
SearchesAgree ==
    LET Met(l) == {Head0} \cup UNION {Chain(mem, h) : h \in l..MaxHeight}
        Targets == Chain(mem, 1) \cup {Key(k, sequence, Value) : k \in UserKeys}
        Passed(x, key) == x = Head0 \/ Less(x, key)
        Behind(key) == {Head0} \cup {x \in Chain(mem, 1) : Less(x, key)}
        IsLast(x, X) == x \in X /\ \A y \in X \ {x, Head0} : x # Head0 /\ Less(y, x)
    IN  \A l \in 1..MaxHeight, key \in Targets : \A x \in Met(l) :
            Passed(x, key) => IsLast(SearchFor(mem, x, l, 1, key), Behind(key))
=============================================================================
