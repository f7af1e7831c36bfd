---------------------------- MODULE InternalKeys ----------------------------
(***************************************************************************)
(* The entries of leveldb (db/dbformat.h): a user key, the sequence number *)
(* of the write, and a value or a deletion marker.  An internal key is the *)
(* key and the sequence number; memtables and tables are sets of entries,  *)
(* read in the order of their internal keys.                               *)
(***************************************************************************)
EXTENDS Integers, Sequences, FiniteSets

CONSTANT Keys    \* user keys, compared as numbers

ASSUME KeysAssumption == Keys \subseteq Nat /\ Keys # {}

\* A deletion marker, and the answer NotFound.  Values are positive.
Deletion == 0
NotFound == 0

Entries == [key : Keys, seq : Nat \ {0}, val : Nat]
KeyOf(e) == [key |-> e.key, seq |-> e.seq]

\* InternalKeyComparator: increasing user key, then decreasing sequence number.
Before(a, b) == a.key < b.key \/ (a.key = b.key /\ a.seq > b.seq)

Smallest(E) == CHOOSE e \in E : \A f \in E \ {e} : Before(e, f)
Largest(E) == CHOOSE e \in E : \A f \in E \ {e} : Before(f, e)
InOrder(E) ==
    [i \in 1..Cardinality(E) |-> CHOOSE e \in E : Cardinality({f \in E : Before(f, e)}) = i - 1]

\* What a seek to the internal key (k, s) meets with user key k.
Versions(E, k, s) == {e \in E : e.key = k /\ e.seq <= s}
Has(E, k, s) == Versions(E, k, s) # {}
Lookup(E, k, s) ==
    LET V == Versions(E, k, s) IN IF V = {} THEN NotFound ELSE Smallest(V).val

\* A batch is a sequence of operations; its header holds the sequence number of
\* the first, each operation takes the next one when it goes into a memtable.
InsertInto(ops, seq) ==
    {[key |-> ops[i].key, seq |-> seq + i - 1, val |-> ops[i].val] : i \in DOMAIN ops}
=============================================================================
