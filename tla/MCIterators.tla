---------------------------- MODULE MCIterators ----------------------------
(* An instance of Iterators for TLC. *)
EXTENDS IteratorsProperties, TLC

MCKeys == {<<1, 1>>, <<1, 3>>, <<3, 1>>}
Put(k) == [key |-> k, put |-> TRUE]
Delete(k) == [key |-> k, put |-> FALSE]

\* The newest key of the older table is in a block with two restart points.
MCTables == {<< <<Put(<<1, 1>>), Put(<<1, 3>>), Put(<<3, 1>>), Put(<<1, 1>>)>>,
                <<Delete(<<1, 1>>), Put(<<1, 3>>)>> >>}
MCMem == {<<>>, <<Delete(<<1, 3>>)>>}
=============================================================================
