--------------------------- MODULE KeyValueStore ---------------------------
(***************************************************************************)
(* What leveldb promises (include/leveldb/db.h, options.h): batches take   *)
(* effect one after the other and as a whole, reads and snapshots see the  *)
(* contents of one moment for as long as they last, and a crash loses no   *)
(* batch that was written with sync.                                       *)
(***************************************************************************)
EXTENDS Naturals, SequencesExt

CONSTANTS Keys, Writers, Readers, Snapshots, NotFound

VARIABLES
    contents,   \* the value of every key
    history,    \* the batches it is made of: [ops, sync]
    pending,    \* per writer: the batch it waits for
    doubtful,   \* batches whose sync failed: after a crash they may be there
    snaps,      \* per snapshot, and per reader: the contents it sees
    views

vars == <<contents, history, pending, doubtful, snaps, views>>

NoBatch == [ops |-> <<>>, sync |-> FALSE]
NoView == [k \in {} |-> NotFound]
Empty == [k \in Keys |-> NotFound]

Effect(c, ops) == FoldLeft(LAMBDA d, op : [d EXCEPT ![op.key] = op.val], c, ops)
Replay(h) == FoldLeft(LAMBDA d, b : Effect(d, b.ops), Empty, h)

\* The batches of h without those at the positions in lost.
Without(h, lost) ==
    FoldLeft(LAMBDA kept, i : IF i \in lost THEN kept ELSE Append(kept, h[i]),
             <<>>, [i \in DOMAIN h |-> i])

\* Whatever an earlier session left is there to stay.
Init ==
    /\ contents = Replay(history) /\ \A i \in DOMAIN history : history[i].sync
    /\ doubtful = <<>>
    /\ pending = [w \in Writers |-> NoBatch]
    /\ snaps = [s \in Snapshots |-> NoView]
    /\ views = [r \in Readers |-> NoView]

\* The orders in which some of the waiting writers can be served.
Waiting == {w \in Writers : pending[w] # NoBatch}
Orders == {f \in UNION {[1..n -> Waiting] : n \in 1..Cardinality(Waiting)} : IsInjective(f)}
BatchesOf(ws) == [i \in DOMAIN ws |-> pending[ws[i]]]
Answer(ws) == pending' = [w \in Writers |-> IF w \in ToSet(ws) THEN NoBatch ELSE pending[w]]

Submit(w) ==
    /\ pending[w] = NoBatch
    /\ pending' = [pending EXCEPT ![w] = pending'[w]] /\ pending'[w] # NoBatch
    /\ UNCHANGED <<contents, history, doubtful, snaps, views>>

\* Some waiting batches take effect, one after the other, and are acknowledged.
Commit(ws) ==
    /\ doubtful = <<>>
    /\ Answer(ws)
    /\ history' = history \o BatchesOf(ws)
    /\ contents' = Replay(history')
    /\ UNCHANGED <<doubtful, snaps, views>>

\* Some writers get an error; the batches have no effect, at most after a crash.
Fail(ws) ==
    /\ Answer(ws)
    /\ doubtful' \in {doubtful, BatchesOf(ws)}
    /\ UNCHANGED <<contents, history, snaps, views>>

GetSnapshot(s) ==
    /\ snaps[s] = NoView /\ snaps'[s] # NoView
    /\ snaps' = [snaps EXCEPT ![s] = contents]
    /\ UNCHANGED <<contents, history, pending, doubtful, views>>

ReleaseSnapshot(s) ==
    /\ snaps[s] # NoView /\ snaps' = [snaps EXCEPT ![s] = NoView]
    /\ UNCHANGED <<contents, history, pending, doubtful, views>>

BeginRead(r) ==
    /\ views[r] = NoView /\ views'[r] # NoView
    /\ \E c \in {contents} \cup ({snaps[s] : s \in Snapshots} \ {NoView}) :
           views' = [views EXCEPT ![r] = c]
    /\ UNCHANGED <<contents, history, pending, doubtful, snaps>>

EndRead(r) ==
    /\ views[r] # NoView /\ views' = [views EXCEPT ![r] = NoView]
    /\ UNCHANGED <<contents, history, pending, doubtful, snaps>>

\* Batches without sync may be lost; of those not acknowledged, some that would
\* have been served together may have made it, with no promise of lasting.
Crash ==
    /\ pending' = [w \in Writers |-> NoBatch] /\ doubtful' = <<>>
    /\ snaps' = [s \in Snapshots |-> NoView] /\ views' = [r \in Readers |-> NoView]
    /\ \E lost \in SUBSET {i \in DOMAIN history : ~history[i].sync} :
       \E late \in {<<>>, doubtful} \cup {BatchesOf(ws) : ws \in Orders} :
           history' = Without(history, lost)
                        \o [i \in DOMAIN late |-> [late[i] EXCEPT !.sync = FALSE]]
    /\ contents' = Replay(history')

Next ==
    \/ \E w \in Writers : Submit(w)
    \/ \E ws \in Orders : Commit(ws) \/ Fail(ws)
    \/ \E s \in Snapshots : GetSnapshot(s) \/ ReleaseSnapshot(s)
    \/ \E r \in Readers : BeginRead(r) \/ EndRead(r)
    \/ Crash

Spec == Init /\ [][Next]_vars
=============================================================================
