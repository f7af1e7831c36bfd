----------------------------- MODULE MCLevelDB -----------------------------
(* A small leveldb: three levels, memtables and tables of a few entries. *)
EXTENDS LevelDBInvariant

Synced(ops) == [ops |-> ops, sync |-> TRUE]
NotSynced(ops) == [ops |-> ops, sync |-> FALSE]
Put(k) == [key |-> k, put |-> TRUE]
Delete(k) == [key |-> k, put |-> FALSE]

MCBatches == {Synced(<<Put(3)>>), NotSynced(<<Delete(1), Put(2)>>)}
MCEarlier == <<<<[key |-> 1, val |-> 8], [key |-> 3, val |-> 8]>>, <<[key |-> 3, val |-> 9]>>>>
MCMaxBytes == <<1, 10>>
WriterSymmetry == Permutations(Writers)
=============================================================================
