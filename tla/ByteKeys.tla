------------------------------ MODULE ByteKeys ------------------------------
(***************************************************************************)
(* Internal keys of leveldb as they are stored (db/dbformat.h): a user     *)
(* key, a sequence of bytes, and the tag, the sequence number of the write *)
(* with the type of the entry in its lowest bits.                          *)
(***************************************************************************)
EXTENDS Integers, SequencesExt

User(key) == Front(key)
Tag(key) == Last(key)

\* The length of the longest common prefix.
Common(a, b) == CHOOSE n \in 0..Len(a) :
    /\ n <= Len(b) /\ \A i \in 1..n : a[i] = b[i]
    /\ n < Len(a) /\ n < Len(b) => a[n + 1] # b[n + 1]

\* BytewiseComparator
UserLess(a, b) == LET n == Common(a, b)
                  IN  n < Len(b) /\ (n < Len(a) => a[n + 1] < b[n + 1])

\* InternalKeyComparator: the newer of two entries of one user key is first.
Less(a, b) == \/ UserLess(User(a), User(b))
              \/ User(a) = User(b) /\ Tag(a) > Tag(b)
=============================================================================
