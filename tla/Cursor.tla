------------------------------- MODULE Cursor -------------------------------
(***************************************************************************)
(* What an iterator of leveldb is to its user (leveldb/iterator.h, db.h):  *)
(* a position in the sorted contents of one snapshot, moved by five calls, *)
(* as long as status() is ok.                                              *)
(***************************************************************************)
EXTENDS Integers

CONSTANTS Keys, Before(_, _)     \* the keys that can be asked for, in order

VARIABLES
    contents,    \* the entries of the snapshot, key to value
    at,          \* the entry the user sees: <<key, value>>, or Nowhere
    asked,       \* the call that is being served, or NoCall
    ok           \* status().ok()

Nowhere == <<>>
NoCall == [op |-> "none"]
Calls == [op : {"first", "last", "next", "prev"}] \cup [op : {"seek"}, key : Keys]

\* The entry before all others of keys in K, or after all of them.
First(K) == IF K = {} THEN Nowhere
            ELSE LET k == CHOOSE k \in K : \A j \in K \ {k} : Before(k, j)
                 IN  <<k, contents[k]>>
Last(K) == IF K = {} THEN Nowhere
           ELSE LET k == CHOOSE k \in K : \A j \in K \ {k} : Before(j, k)
                IN  <<k, contents[k]>>

Answer(call) ==
    LET K == DOMAIN contents
    IN  CASE call.op = "first" -> First(K)
          [] call.op = "last" -> Last(K)
          [] call.op = "seek" -> First({k \in K : ~Before(k, call.key)})
          [] call.op = "next" -> First({k \in K : Before(at[1], k)})
          [] call.op = "prev" -> Last({k \in K : Before(k, at[1])})

Init == at = Nowhere /\ asked = NoCall /\ ok = TRUE

\* Next and Prev need an entry to start from.
Call == /\ asked = NoCall
        /\ asked' \in {c \in Calls : c.op \in {"next", "prev"} => at # Nowhere}
        /\ UNCHANGED <<contents, at, ok>>

Return == /\ asked # NoCall /\ asked' = NoCall
          /\ ok' \in {ok, FALSE} /\ (ok' => at' = Answer(asked))
          /\ UNCHANGED contents

\* An error can show before the call that met it returns.
Fail == ok /\ ok' = FALSE /\ UNCHANGED <<contents, at, asked>>

vars == <<contents, at, asked, ok>>

Spec == Init /\ [][Call \/ Return \/ Fail]_vars
=============================================================================
