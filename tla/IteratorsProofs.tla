-------------------------- MODULE IteratorsProofs --------------------------
(***************************************************************************)
(* The memtable's skip list, which readers search while a writer links     *)
(* nodes into it, for every number of levels, keys and insertions; and     *)
(* ReaderInvariant, an inductive invariant of Spec, for every content of   *)
(* the tables and the memtable, every number of entries in a block and     *)
(* between restarts, and any number of blocks that cannot be read: blocks  *)
(* decode to the keys they were built of, the iterators of blocks, tables  *)
(* and the memtable stay at entries they hold, and DBIter moves on.        *)
(***************************************************************************)
EXTENDS IteratorsInvariant, FiniteSetTheorems, SequenceTheorems, WellFoundedInduction, TLAPS

-----------------------------------------------------------------------------
(* The order of the keys. *)

\* A nonempty set of natural numbers has a least element.
LEMMA LeastNat ==
    ASSUME NEW T \in SUBSET Nat, T # {}
    PROVE  \E n \in T : \A m \in T : n <= m
<1>1. \E n \in T : \A m \in T : <<m, n>> \notin OpToRel(<, Nat)
  BY NatLessThanWellFounded, WFMin
<1>2. PICK n \in T : \A m \in T : <<m, n>> \notin OpToRel(<, Nat)
  BY <1>1
<1>3. \A m \in T : n <= m
  <2>1. SUFFICES ASSUME NEW m \in T, m < n PROVE FALSE
    OBVIOUS
  <2>2. <<m, n>> \in OpToRel(<, Nat)
    BY <2>1 DEF OpToRel
  <2> QED
    BY <1>2, <2>2
<1> QED
  BY <1>3

\* Two sequences have a longest common prefix, and Common is its length.
LEMMA CommonIs ==
    ASSUME NEW a \in Seq(Nat), NEW b \in Seq(Nat)
    PROVE  /\ Common(a, b) \in 0..Len(a) /\ Common(a, b) <= Len(b)
           /\ \A i \in 1..Common(a, b) : a[i] = b[i]
           /\ Common(a, b) < Len(a) /\ Common(a, b) < Len(b)
                 => a[Common(a, b) + 1] # b[Common(a, b) + 1]
<1> DEFINE T == {n \in Nat : n > Len(a) \/ n > Len(b)
                                \/ (n >= 1 /\ n <= Len(a) /\ n <= Len(b) /\ a[n] # b[n])}
<1>0. T \in SUBSET Nat
  OBVIOUS
<1>1. T # {}
  <2>1. Len(a) + 1 \in T
    OBVIOUS
  <2> QED
    BY <2>1
<1>2. PICK n \in T : \A m \in T : n <= m
  <2> HIDE DEF T
  <2> QED
    BY <1>0, <1>1, LeastNat
<1>3. n \in Nat \ {0}
  OBVIOUS
<1> DEFINE c == n - 1
<1>4. c \in Nat /\ c \notin T
  <2>1. c \in Nat /\ ~(n <= c)
    BY <1>3
  <2> HIDE DEF c, T
  <2> QED
    BY <2>1, <1>2
<1>5. c \in 0..Len(a) /\ c <= Len(b)
  BY <1>4
<1>6. ASSUME NEW i \in 1..c PROVE a[i] = b[i]
  <2>1. i \notin T
    BY <1>2, <1>4
  <2> QED
    BY <2>1, <1>5
<1>7. c < Len(a) /\ c < Len(b) => a[c + 1] # b[c + 1]
  BY <1>3, <1>4
<1>8. c \in 0..Len(a) /\ c <= Len(b) /\ (\A i \in 1..c : a[i] = b[i])
      /\ (c < Len(a) /\ c < Len(b) => a[c + 1] # b[c + 1])
  BY <1>5, <1>6, <1>7
<1> HIDE DEF c
<1> QED
  BY <1>8 DEF Common

\* UserLess says that the first difference of two sequences decides.
LEMMA UserLessIs ==
    ASSUME NEW a \in Seq(Nat), NEW b \in Seq(Nat)
    PROVE  UserLess(a, b) <=> \E n \in 0..Len(a) : /\ n < Len(b) /\ \A i \in 1..n : a[i] = b[i]
                                                   /\ n < Len(a) => a[n + 1] < b[n + 1]
<1> DEFINE c == Common(a, b)
<1>1. /\ c \in 0..Len(a) /\ c <= Len(b) /\ (\A i \in 1..c : a[i] = b[i])
      /\ (c < Len(a) /\ c < Len(b) => a[c + 1] # b[c + 1])
  BY CommonIs
<1>2. UserLess(a, b) <=> c < Len(b) /\ (c < Len(a) => a[c + 1] < b[c + 1])
  BY DEF UserLess
<1> HIDE DEF c
<1>3. ASSUME NEW n \in 0..Len(a), n < Len(b), \A i \in 1..n : a[i] = b[i],
             n < Len(a) => a[n + 1] < b[n + 1]
      PROVE  n = c
  <2>0. Len(a) \in Nat /\ Len(b) \in Nat /\ (\A i \in 1..Len(a) : a[i] \in Nat)
        /\ (\A i \in 1..Len(b) : b[i] \in Nat)
    OBVIOUS
  <2>1. CASE n < c
    <3>1. n + 1 \in 1..c /\ n + 1 \in 1..Len(a) /\ n + 1 \in 1..Len(b) /\ n < Len(a)
      BY <2>1, <1>1, <2>0
    <3>2. a[n + 1] = b[n + 1] /\ a[n + 1] < b[n + 1] /\ a[n + 1] \in Nat
      BY <3>1, <1>1, <1>3, <2>0
    <3> QED
      BY <3>2
  <2>2. CASE c < n
    <3>1. c + 1 \in 1..n /\ c < Len(a) /\ c < Len(b)
      BY <2>2, <1>1, <1>3, <2>0
    <3> QED
      BY <3>1, <1>1, <1>3
  <2> QED
    BY <2>1, <2>2, <1>1, <2>0
<1>4. ASSUME UserLess(a, b)
      PROVE  \E n \in 0..Len(a) : /\ n < Len(b) /\ \A i \in 1..n : a[i] = b[i]
                                  /\ n < Len(a) => a[n + 1] < b[n + 1]
  BY <1>1, <1>2, <1>4
<1> QED
  BY <1>2, <1>3, <1>4

\* UserLess is a strict total order.
LEMMA UserLessIsAnOrder ==
    /\ \A a \in Seq(Nat) : ~UserLess(a, a)
    /\ \A a, b, c \in Seq(Nat) : UserLess(a, b) /\ UserLess(b, c) => UserLess(a, c)
    /\ \A a, b \in Seq(Nat) : UserLess(a, b) \/ a = b \/ UserLess(b, a)
<1>1. ASSUME NEW a \in Seq(Nat), UserLess(a, a) PROVE FALSE
  <2>1. PICK n \in 0..Len(a) : n < Len(a) /\ (n < Len(a) => a[n + 1] < a[n + 1])
    BY <1>1, UserLessIs
  <2>2. n + 1 \in 1..Len(a)
    BY <2>1
  <2>3. a[n + 1] \in Nat
    BY <2>2
  <2> QED
    BY <2>1, <2>3
<1>2. ASSUME NEW a \in Seq(Nat), NEW b \in Seq(Nat), NEW c \in Seq(Nat),
             UserLess(a, b), UserLess(b, c)
      PROVE  UserLess(a, c)
  <2>0. /\ Len(a) \in Nat /\ Len(b) \in Nat /\ Len(c) \in Nat
        /\ \A i \in 1..Len(a) : a[i] \in Nat
        /\ \A i \in 1..Len(b) : b[i] \in Nat
        /\ \A i \in 1..Len(c) : c[i] \in Nat
    OBVIOUS
  <2>1. PICK n \in 0..Len(a) : /\ n < Len(b) /\ \A i \in 1..n : a[i] = b[i]
                               /\ n < Len(a) => a[n + 1] < b[n + 1]
    BY <1>2, UserLessIs
  <2>2. PICK m \in 0..Len(b) : /\ m < Len(c) /\ \A i \in 1..m : b[i] = c[i]
                               /\ m < Len(b) => b[m + 1] < c[m + 1]
    BY <1>2, UserLessIs
  <2>3. CASE n <= m
    <3>1. n < Len(c) /\ n \in 0..Len(a) /\ n \in 1..Len(c) \cup {0}
      BY <2>3, <2>2, <2>0
    <3>2. \A i \in 1..n : a[i] = c[i]
      <4> TAKE i \in 1..n
      <4>1. i \in 1..m
        BY <2>3, <2>0, <2>2
      <4> QED
        BY <4>1, <2>1, <2>2
    <3>3. n < Len(a) => a[n + 1] < c[n + 1]
      <4>1. SUFFICES ASSUME n < Len(a) PROVE a[n + 1] < c[n + 1]
        OBVIOUS
      <4>2. n + 1 \in 1..Len(a) /\ n + 1 \in 1..Len(b) /\ n + 1 \in 1..Len(c)
        <5>1. n \in Nat /\ n < Len(a) /\ n < Len(b) /\ n < Len(c)
          BY <4>1, <2>1, <3>1, <2>0
        <5> QED
          BY <5>1, <2>0
      <4>3. a[n + 1] \in Nat /\ b[n + 1] \in Nat /\ c[n + 1] \in Nat /\ a[n + 1] < b[n + 1]
        BY <4>1, <4>2, <2>0, <2>1
      <4>4. b[n + 1] <= c[n + 1]
        <5>1. CASE n = m
          <6>1. b[m + 1] < c[m + 1]
            BY <5>1, <2>1, <2>2
          <6> QED
            BY <6>1, <5>1, <4>3
        <5>2. CASE n < m
          <6>1. n + 1 \in 1..m
            BY <5>2, <2>2, <2>0
          <6>2. b[n + 1] = c[n + 1]
            BY <6>1, <2>2
          <6> QED
            BY <6>2, <4>3
        <5> QED
          BY <5>1, <5>2, <2>3, <2>1, <2>2, <2>0
      <4> QED
        BY <4>3, <4>4
    <3> QED
      BY <3>1, <3>2, <3>3, UserLessIs
  <2>4. CASE m < n
    <3>1. m < Len(c) /\ m \in 0..Len(a) /\ m < Len(b)
      BY <2>4, <2>2, <2>1, <2>0
    <3>2. \A i \in 1..m : a[i] = c[i]
      <4> TAKE i \in 1..m
      <4>1. i \in 1..n
        BY <2>4, <2>0, <2>1, <2>2
      <4> QED
        BY <4>1, <2>1, <2>2
    <3>3. m < Len(a) => a[m + 1] < c[m + 1]
      <4>1. m + 1 \in 1..n
        BY <2>4, <2>2, <2>0
      <4> QED
        BY <4>1, <3>1, <2>1, <2>2
    <3> QED
      BY <3>1, <3>2, <3>3, UserLessIs
  <2> QED
    BY <2>3, <2>4, <2>0, <2>1, <2>2
<1>3. ASSUME NEW a \in Seq(Nat), NEW b \in Seq(Nat), ~UserLess(a, b), ~UserLess(b, a)
      PROVE  a = b
  <2> DEFINE n == Common(a, b)
  <2>0. /\ Len(a) \in Nat /\ Len(b) \in Nat
        /\ \A i \in 1..Len(a) : a[i] \in Nat
        /\ \A i \in 1..Len(b) : b[i] \in Nat
    OBVIOUS
  <2>1. /\ n \in 0..Len(a) /\ n <= Len(b) /\ (\A i \in 1..n : a[i] = b[i])
        /\ (n < Len(a) /\ n < Len(b) => a[n + 1] # b[n + 1])
    BY CommonIs
  <2> HIDE DEF n
  <2>2. \A i \in 1..n : b[i] = a[i]
    BY <2>1
  <2>3. ~(n < Len(a) /\ n < Len(b))
    <3>1. SUFFICES ASSUME n < Len(a), n < Len(b) PROVE FALSE
      OBVIOUS
    <3>2. n + 1 \in 1..Len(a) /\ n + 1 \in 1..Len(b) /\ n \in 0..Len(b)
      BY <3>1, <2>0, <2>1
    <3>3. a[n + 1] < b[n + 1] \/ b[n + 1] < a[n + 1]
      <4>1. a[n + 1] \in Nat /\ b[n + 1] \in Nat /\ a[n + 1] # b[n + 1]
        BY <3>1, <3>2, <2>0, <2>1
      <4> QED
        BY <4>1
    <3>4. CASE a[n + 1] < b[n + 1]
      BY <3>4, <3>1, <3>2, <2>1, <1>3, UserLessIs
    <3>5. CASE b[n + 1] < a[n + 1]
      BY <3>5, <3>1, <3>2, <2>2, <1>3, UserLessIs
    <3> QED
      BY <3>3, <3>4, <3>5
  <2>4. ~(n < Len(b))
    <3>1. SUFFICES ASSUME n < Len(b) PROVE FALSE
      OBVIOUS
    <3>2. ~(n < Len(a))
      BY <3>1, <2>3
    <3> QED
      BY <3>1, <3>2, <2>1, <1>3, UserLessIs
  <2>5. ~(n < Len(a))
    <3>1. SUFFICES ASSUME n < Len(a) PROVE FALSE
      OBVIOUS
    <3>2. n \in 0..Len(b)
      BY <2>1, <2>0
    <3> QED
      BY <3>1, <3>2, <2>4, <2>2, <1>3, UserLessIs
  <2>6. Len(a) = n /\ Len(b) = n
    BY <2>4, <2>5, <2>1, <2>0
  <2> QED
    BY <2>6, <2>1, SeqEqual
<1> QED
  BY <1>1, <1>2, <1>3

-----------------------------------------------------------------------------
\* A key is its user key and its tag, and neither the head of the list nor nullptr.
LEMMA KeyParts ==
    ASSUME NEW k \in TaggedKeys
    PROVE  /\ User(k) \in UserKeys /\ User(k) \in Seq(Nat) /\ User(k) # <<>> /\ Tag(k) \in Nat
           /\ k = Append(User(k), Tag(k)) /\ k # Head0 /\ k # Null
<1>1. k \in Seq(Nat) /\ k # <<>> /\ User(k) \in UserKeys
  BY DEF TaggedKeys
<1>2. User(k) \in Seq(Nat) /\ User(k) # <<>>
  BY <1>1, IteratorsAssumption
<1>3. Len(k) \in Nat /\ Len(k) > 0
  BY <1>1
<1>4. Tag(k) \in Nat
  <2>1. Len(k) \in 1..Len(k) /\ k[Len(k)] \in Nat
    BY <1>1, <1>3
  <2> QED
    BY <2>1 DEF Tag, Last
<1>5. k = Append(User(k), Tag(k))
  BY <1>1, <1>3 DEF User, Tag, Front, Last
<1>6. k # Head0
  <2>1. SUFFICES ASSUME k = Head0 PROVE FALSE
    OBVIOUS
  <2>2. Len(k) = 1
    BY <2>1 DEF Head0
  <2>3. User(k) = <<>>
    BY <1>1, <2>2 DEF User, Front
  <2> QED
    BY <1>2, <2>3
<1> QED
  BY <1>1, <1>2, <1>4, <1>5, <1>6 DEF Null

\* Less is a strict total order of the keys, and the head is not one of them.
LEMMA LessIsAnOrder ==
    /\ \A a \in TaggedKeys : ~Less(a, a)
    /\ \A a, b, c \in TaggedKeys : Less(a, b) /\ Less(b, c) => Less(a, c)
    /\ \A a, b \in TaggedKeys : Less(a, b) \/ a = b \/ Less(b, a)
<1>0. \A a \in TaggedKeys : User(a) \in Seq(Nat) /\ Tag(a) \in Nat /\ a = Append(User(a), Tag(a))
  BY KeyParts
<1>1. ASSUME NEW a \in TaggedKeys PROVE ~Less(a, a)
  BY <1>0, UserLessIsAnOrder DEF Less
<1>2. ASSUME NEW a \in TaggedKeys, NEW b \in TaggedKeys, NEW c \in TaggedKeys,
             Less(a, b), Less(b, c)
      PROVE  Less(a, c)
  BY <1>0, <1>2, UserLessIsAnOrder DEF Less
<1>3. ASSUME NEW a \in TaggedKeys, NEW b \in TaggedKeys, ~Less(a, b), ~Less(b, a)
      PROVE  a = b
  <2>1. User(a) = User(b)
    BY <1>0, <1>3, UserLessIsAnOrder DEF Less
  <2>2. Tag(a) = Tag(b)
    BY <1>0, <1>3, <2>1 DEF Less
  <2> QED
    BY <2>1, <2>2, <1>0
<1> QED
  BY <1>1, <1>2, <1>3

\* The key of a write is one, with the number of the write.
LEMMA KeyIs ==
    ASSUME NEW u \in UserKeys, NEW s \in Nat, NEW t \in {Value, Deletion}
    PROVE  /\ Key(u, s, t) \in TaggedKeys /\ Tag(Key(u, s, t)) = 2 * s + t
           /\ User(Key(u, s, t)) = u
<1> DEFINE k == Append(u, 2 * s + t)
<1>1. u \in Seq(Nat) /\ u # <<>> /\ 2 * s + t \in Nat
  BY IteratorsAssumption DEF Value, Deletion
<1>2. k \in Seq(Nat) /\ k # <<>> /\ Len(k) = Len(u) + 1 /\ k[Len(k)] = 2 * s + t
  BY <1>1
<1>3. SubSeq(k, 1, Len(k) - 1) = u
  BY <1>1
<1> QED
  BY <1>2, <1>3 DEF TaggedKeys, Key, User, Tag, Front, Last

\* A nonempty, finite set of keys has a last one.
LEMMA LastKey ==
    ASSUME NEW S \in SUBSET TaggedKeys, S # {}, IsFiniteSet(S)
    PROVE  \E x \in S : \A y \in S \ {x} : Less(y, x)
<1> DEFINE HasLast(U) == \E x \in U : \A y \in U \ {x} : Less(y, x)
           Bad == {U \in SUBSET S : U # {} /\ ~HasLast(U)}
           Sizes == {Cardinality(U) : U \in Bad}
<1>1. SUFFICES Bad = {}
  OBVIOUS
<1>2. SUFFICES ASSUME Bad # {} PROVE FALSE
  OBVIOUS
<1>3. \A U \in SUBSET S : IsFiniteSet(U) /\ Cardinality(U) \in Nat
  BY FS_Subset, FS_CardinalityType
<1>4. Sizes \in SUBSET Nat /\ Sizes # {}
  <2> HIDE DEF HasLast
  <2> QED
    BY <1>2, <1>3
<1>5. PICK n \in Sizes : \A m \in Sizes : n <= m
  <2> HIDE DEF Sizes
  <2> QED
    BY <1>4, LeastNat
<1>6. PICK U \in Bad : n = Cardinality(U)
  <2> HIDE DEF Bad
  <2> QED
    BY <1>5
<1>7. U \in SUBSET S /\ U # {} /\ ~HasLast(U)
  BY <1>6
<1>8. PICK x \in U : TRUE
  BY <1>7
<1> DEFINE V == U \ {x}
<1>9. Cardinality(V) = n - 1 /\ V \in SUBSET S /\ n \in Nat
  <2>1. IsFiniteSet(U) /\ Cardinality(U) \in Nat
    BY <1>3, <1>7
  <2>2. Cardinality(U \ {x}) = Cardinality(U) - 1
    BY <2>1, <1>8, FS_RemoveElement
  <2> QED
    BY <2>1, <2>2, <1>6, <1>7
<1>10. V \notin Bad
  <2>1. SUFFICES ASSUME V \in Bad PROVE FALSE
    OBVIOUS
  <2>2. n - 1 \in Sizes
    <3> HIDE DEF Bad, V
    <3> QED
      BY <2>1, <1>9
  <2>3. n <= n - 1
    <3> HIDE DEF Sizes
    <3> QED
      BY <2>2, <1>5
  <2> QED
    BY <2>3, <1>9
<1>11. V # {}
  <2>1. SUFFICES ASSUME V = {} PROVE HasLast(U)
    BY <1>7
  <2> QED
    BY <2>1, <1>8
<1>12. PICK z \in V : \A y \in V \ {z} : Less(y, z)
  BY <1>9, <1>10, <1>11
<1>13. x \in TaggedKeys /\ z \in TaggedKeys /\ x # z
  BY <1>7, <1>8, <1>9, <1>12
<1>14. CASE Less(x, z)
  <2>1. \A y \in U \ {z} : Less(y, z)
    BY <1>12, <1>14
  <2> QED
    BY <2>1, <1>12, <1>7
<1>15. CASE Less(z, x)
  <2>1. \A y \in U \ {x} : Less(y, x)
    <3> TAKE y \in U \ {x}
    <3>1. y \in TaggedKeys
      BY <1>7
    <3>2. y = z \/ Less(y, z)
      BY <1>12
    <3> QED
      BY <3>1, <3>2, <1>13, <1>15, LessIsAnOrder
  <2> QED
    BY <2>1, <1>8, <1>7
<1> QED
  BY <1>13, <1>14, <1>15, LessIsAnOrder

\* A recursion that does nothing but go on elsewhere, or end, has a solution: it is
\* over at the points of B, and goes from any other point x to s[x].
TailRecursive(X, V, B, s, v) ==
    {f \in [X -> V] : \A x \in X : f[x] = IF x \in B THEN v[x] ELSE f[s[x]]}

LEMMA TailRecursion ==
    ASSUME NEW X, NEW V, NEW B \in SUBSET X, NEW s \in [X -> X], NEW v \in [X -> V]
    PROVE  TailRecursive(X, V, B, s, v) # {}
<1> DEFINE Closed(C) == C \subseteq X /\ \A z \in C \ B : s[z] \in C
           Ends(x) == {y \in B : \A C : Closed(C) /\ x \in C => y \in C}
           f == [x \in X |-> IF x \in B THEN v[x]
                             ELSE IF Ends(x) = {} THEN CHOOSE c : c \in V
                             ELSE v[CHOOSE y : y \in Ends(x)]]
<1>1. ASSUME NEW x \in X \ B PROVE Ends(x) = Ends(s[x])
  <2>1. ASSUME NEW y \in Ends(s[x]) PROVE y \in Ends(x)
    <3>1. ASSUME NEW C, Closed(C), x \in C PROVE y \in C
      <4>1. s[x] \in C
        BY <3>1
      <4> QED
        BY <4>1, <3>1, <2>1
    <3> QED
      BY <3>1, <2>1
  <2>2. ASSUME NEW y \in Ends(x) PROVE y \in Ends(s[x])
    <3>1. ASSUME NEW C, Closed(C), s[x] \in C PROVE y \in C
      <4> DEFINE D == C \cup {x}
      <4>1. Closed(D) /\ x \in D
        BY <3>1
      <4>2. y \in D
        <5> HIDE DEF D, Closed
        <5> QED
          BY <4>1, <2>2
      <4> QED
        BY <4>2, <2>2
    <3> QED
      BY <3>1, <2>2
  <2> QED
    BY <2>1, <2>2
<1>2. ASSUME NEW x \in B PROVE Ends(x) = {x}
  <2>1. Closed({x})
    OBVIOUS
  <2>2. \A y \in Ends(x) : y \in {x}
    BY <2>1
  <2>3. x \in Ends(x)
    OBVIOUS
  <2> QED
    BY <2>2, <2>3
<1>3. \A x \in X : Ends(x) \subseteq B
  OBVIOUS
<1> HIDE DEF Ends
<1>4. \A x \in X : f[x] = IF x \in B THEN v[x] ELSE f[s[x]]
  <2> TAKE x \in X
  <2>1. CASE x \in B
    BY <2>1
  <2>2. CASE x \notin B
    <3>1. s[x] \in X /\ Ends(x) = Ends(s[x])
      BY <2>2, <1>1
    <3>2. CASE s[x] \in B
      <4>1. Ends(s[x]) = {s[x]}
        BY <3>2, <1>2
      <4>2. (CHOOSE y : y \in {s[x]}) = s[x]
        OBVIOUS
      <4>3. f[x] = v[s[x]]
        BY <4>1, <4>2, <3>1, <2>2
      <4>4. f[s[x]] = v[s[x]]
        BY <3>1, <3>2
      <4> QED
        BY <4>3, <4>4, <2>2
    <3>3. CASE s[x] \notin B
      BY <3>1, <3>3, <2>2
    <3> QED
      BY <3>2, <3>3
  <2> QED
    BY <2>1, <2>2
<1>5. f \in [X -> V]
  <2>1. \A x \in X : f[x] \in V
    <3> TAKE x \in X
    <3>1. v[x] \in V /\ \A y \in B : v[y] \in V
      OBVIOUS
    <3>2. (CHOOSE c : c \in V) \in V
      BY <3>1
    <3>3. Ends(x) # {} => (CHOOSE y : y \in Ends(x)) \in B
      BY <1>3
    <3> QED
      BY <3>1, <3>2, <3>3
  <2> QED
    BY <2>1
<1> HIDE DEF f
<1>6. f \in TailRecursive(X, V, B, s, v)
  BY <1>4, <1>5 DEF TailRecursive
<1> QED
  BY <1>6

-----------------------------------------------------------------------------
(* The search in the list. *)

\* The function with which Search computes.
Walk(list, from, to, passed) ==
    LET search[at \in (DOMAIN list.next) \X (to..from)] ==
            LET n == at[1]  l == at[2]
            IN  IF list.next[n][l] \in passed THEN search[<<list.next[n][l], l>>]
                ELSE IF l = to THEN n ELSE search[<<n, l - 1>>]
    IN  search

IsWalk(g, list, from, to, passed) ==
    \A n \in DOMAIN list.next, l \in to..from :
        g[<<n, l>>] = IF list.next[n][l] \in passed THEN g[<<list.next[n][l], l>>]
                      ELSE IF l = to THEN n ELSE g[<<n, l - 1>>]

\* It is what its definition says.
LEMMA WalkIs ==
    ASSUME NEW list, NEW from \in Nat, NEW to \in Nat, NEW passed \in SUBSET DOMAIN list.next
    PROVE  /\ \A x : Search(list, x, from, to, passed) = Walk(list, from, to, passed)[<<x, from>>]
           /\ IsWalk(Walk(list, from, to, passed), list, from, to, passed)
<1> DEFINE X == (DOMAIN list.next) \X (to..from)
           Ahead(at) == list.next[at[1]][at[2]]
           B == {at \in X : Ahead(at) \notin passed /\ at[2] = to}
           s == [at \in X |-> IF Ahead(at) \in passed THEN <<Ahead(at), at[2]>>
                              ELSE IF at[2] = to THEN at ELSE <<at[1], at[2] - 1>>]
           v == [at \in X |-> at[1]]
           Is(g) == g = [at \in X |-> IF Ahead(at) \in passed THEN g[<<Ahead(at), at[2]>>]
                                      ELSE IF at[2] = to THEN at[1] ELSE g[<<at[1], at[2] - 1>>]]
<1>1. s \in [X -> X]
  <2>1. ASSUME NEW at \in X PROVE s[at] \in X
    <3>1. at[1] \in DOMAIN list.next /\ at[2] \in to..from
      OBVIOUS
    <3>2. CASE Ahead(at) \in passed
      BY <3>1, <3>2
    <3>3. CASE Ahead(at) \notin passed /\ at[2] # to
      <4>1. at[2] - 1 \in to..from
        BY <3>1, <3>3
      <4> QED
        BY <4>1, <3>1, <3>3
    <3> QED
      BY <3>2, <3>3
  <2>2. s = [at \in X |-> s[at]]
    OBVIOUS
  <2> HIDE DEF s, X
  <2> QED
    BY <2>1, <2>2
<1>2. v \in [X -> DOMAIN list.next] /\ B \in SUBSET X
  OBVIOUS
<1>3. PICK f \in [X -> DOMAIN list.next] :
          \A at \in X : f[at] = IF at \in B THEN v[at] ELSE f[s[at]]
  <2> DEFINE S == TailRecursive(X, DOMAIN list.next, B, s, v)
  <2> HIDE DEF X, B, s, v
  <2>1. S # {}
    BY <1>1, <1>2, TailRecursion
  <2>2. PICK f \in S : TRUE
    <3> HIDE DEF S
    <3> QED
      BY <2>1
  <2>3. f \in [X -> DOMAIN list.next]
        /\ \A at \in X : f[at] = IF at \in B THEN v[at] ELSE f[s[at]]
    BY <2>2 DEF TailRecursive
  <2> HIDE DEF S
  <2> QED
    BY <2>3
<1>4. Is(f)
  <2>1. \A at \in X : (IF at \in B THEN v[at] ELSE f[s[at]])
            = (IF Ahead(at) \in passed THEN f[<<Ahead(at), at[2]>>]
               ELSE IF at[2] = to THEN at[1] ELSE f[<<at[1], at[2] - 1>>])
    <3> TAKE at \in X
    <3>1. at \in B <=> Ahead(at) \notin passed /\ at[2] = to
      OBVIOUS
    <3>2. v[at] = at[1] /\ s[at] = IF Ahead(at) \in passed THEN <<Ahead(at), at[2]>>
                                   ELSE IF at[2] = to THEN at ELSE <<at[1], at[2] - 1>>
      OBVIOUS
    <3> HIDE DEF B, v, s, Ahead, X
    <3> QED
      BY <3>1, <3>2
  <2> HIDE DEF X, B, v, s, Ahead
  <2> QED
    BY <1>3, <2>1
<1> DEFINE g == CHOOSE h : Is(h)
<1>5. Is(g)
  <2> HIDE DEF Is
  <2> QED
    BY <1>4
<1>6. \A x : Search(list, x, from, to, passed) = Walk(list, from, to, passed)[<<x, from>>]
  BY DEF Search, Walk
<1>7. Walk(list, from, to, passed) = g
  BY DEF Walk
<1>8. ASSUME NEW n \in DOMAIN list.next, NEW l \in to..from
      PROVE  g[<<n, l>>] = IF list.next[n][l] \in passed
                           THEN g[<<list.next[n][l], l>>]
                           ELSE IF l = to THEN n ELSE g[<<n, l - 1>>]
  <2> HIDE DEF g
  <2>1. <<n, l>> \in X
    OBVIOUS
  <2> QED
    BY <1>5, <2>1
<1> HIDE DEF g
<1>9. IsWalk(g, list, from, to, passed)
  BY <1>8 DEF IsWalk
<1> QED
  BY <1>6, <1>7, <1>9

\* A link of a node leads to a later node of that level, or nowhere.
LEMMA LinkIs ==
    ASSUME NEW list, LinksInv(list), NEW l \in 1..MaxHeight, NEW n \in On(list, l)
    PROVE  /\ n \in DOMAIN list.next /\ l \in DOMAIN list.next[n]
           /\ n = Head0 \/ (n \in TaggedKeys /\ n \in Nodes(list))
           /\ list.next[n][l] # Null =>
                 /\ list.next[n][l] \in Chain(list, l) /\ list.next[n][l] \in TaggedKeys
                 /\ IsBefore(n, list.next[n][l])
           /\ Chain(list, l) \subseteq Nodes(list) /\ Nodes(list) \subseteq TaggedKeys
<1>1. \A m \in DOMAIN list.next : /\ list.next[m] \in Seq(Nodes(list) \cup {Null})
                                  /\ Len(list.next[m]) \in Nat
                                  /\ DOMAIN list.next[m] = 1..Len(list.next[m])
  BY DEF LinksInv
<1>2. ASSUME NEW m \in DOMAIN list.next, l <= Len(list.next[m]), list.next[m][l] # Null
      PROVE  /\ list.next[m][l] \in Nodes(list) /\ l \in DOMAIN list.next[list.next[m][l]]
             /\ IsBefore(m, list.next[m][l])
  <2>1. l \in DOMAIN list.next[m]
    BY <1>1, <1>2
  <2>2. list.next[m][l] \in Nodes(list) \cup {Null}
    BY <1>1, <2>1
  <2> QED
    BY <1>2, <2>1, <2>2 DEF LinksInv
<1>3. ASSUME NEW y \in Chain(list, l)
      PROVE  y \in Nodes(list) /\ l \in DOMAIN list.next[y]
  BY <1>2 DEF Chain
<1>4. n \in DOMAIN list.next /\ l \in DOMAIN list.next[n]
  <2>1. CASE n = Head0
    <3>1. Head0 \in DOMAIN list.next /\ Len(list.next[Head0]) = MaxHeight
      BY DEF LinksInv
    <3> QED
      BY <3>1, <2>1, <1>1
  <2>2. CASE n \in Chain(list, l)
    BY <2>2, <1>3 DEF Nodes
  <2> QED
    BY <2>1, <2>2 DEF On
<1>5. l <= Len(list.next[n])
  BY <1>1, <1>4
<1>6. Nodes(list) \subseteq TaggedKeys
  BY DEF LinksInv
<1>7. list.next[n][l] # Null => list.next[n][l] \in Chain(list, l)
  BY <1>4, <1>5 DEF Chain
<1>8. n = Head0 \/ n \in Nodes(list)
  BY <1>4 DEF Nodes
<1> QED
  <2>1. list.next[n][l] # Null => /\ list.next[n][l] \in Chain(list, l)
                                  /\ list.next[n][l] \in TaggedKeys
                                  /\ IsBefore(n, list.next[n][l])
    BY <1>2, <1>4, <1>5, <1>6, <1>7
  <2>2. Chain(list, l) \subseteq Nodes(list)
    BY <1>3
  <2>3. n = Head0 \/ (n \in TaggedKeys /\ n \in Nodes(list))
    BY <1>6, <1>8
  <2> QED
    BY <2>1, <2>2, <2>3, <1>4, <1>6

-----------------------------------------------------------------------------
\* A search ends at a node that is to be passed, or the head, whose link on the lowest
\* level of the search leads to none.
LEMMA SearchEnds ==
    ASSUME NEW list, LinksInv(list), LevelsInv(list), NEW from \in 1..MaxHeight, NEW to \in 1..from,
           NEW passed \in SUBSET Nodes(list), NEW x \in On(list, from), x = Head0 \/ x \in passed
    PROVE  LET r == Search(list, x, from, to, passed)
           IN  /\ r \in On(list, to) /\ (r = Head0 \/ r \in passed)
               /\ list.next[r][to] \notin passed
<1> DEFINE Good(r) == /\ r \in On(list, to) /\ (r = Head0 \/ r \in passed)
                      /\ list.next[r][to] \notin passed
           Starts(l) == {n \in On(list, l) : n = Head0 \/ n \in passed}
<1>0. from \in Nat /\ to \in Nat /\ MaxHeight \in Nat /\ passed \in SUBSET DOMAIN list.next
      /\ to..from \subseteq 1..MaxHeight /\ from \in to..from
  BY SkipListAssumption DEF Nodes
<1> DEFINE g == Walk(list, from, to, passed)
<1>1. /\ Search(list, x, from, to, passed) = g[<<x, from>>]
      /\ \A n \in DOMAIN list.next, l \in to..from :
            g[<<n, l>>] = IF list.next[n][l] \in passed
                          THEN g[<<list.next[n][l], l>>]
                          ELSE IF l = to THEN n ELSE g[<<n, l - 1>>]
  <2>1. \A y : Search(list, y, from, to, passed) = Walk(list, from, to, passed)[<<y, from>>]
    BY <1>0, WalkIs
  <2>2. IsWalk(Walk(list, from, to, passed), list, from, to, passed)
    BY <1>0, WalkIs
  <2> QED
    BY <2>1, <2>2 DEF IsWalk
<1> HIDE DEF g
<1> DEFINE BadAt(l) == {n \in Starts(l) : ~Good(g[<<n, l>>])}
           Bad == {l \in to..from : BadAt(l) # {}}
<1>2. SUFFICES Bad = {}
  <2>1. SUFFICES ASSUME Bad = {} PROVE Good(g[<<x, from>>])
    BY <1>1
  <2>2. x \in Starts(from)
    OBVIOUS
  <2>3. BadAt(from) = {}
    BY <2>1, <1>0
  <2> HIDE DEF Good, Starts
  <2> QED
    BY <2>2, <2>3
<1>3. SUFFICES ASSUME Bad # {} PROVE FALSE
  OBVIOUS
<1>4. PICK l \in Bad : \A m \in Bad : l <= m
  <2>1. Bad \in SUBSET Nat
    BY <1>0
  <2> HIDE DEF Bad
  <2> QED
    BY <2>1, <1>3, LeastNat
<1>5. l \in to..from /\ BadAt(l) # {} /\ l \in 1..MaxHeight
  BY <1>4, <1>0
<1>6. ASSUME NEW n \in BadAt(l)
      PROVE  /\ list.next[n][l] \in BadAt(l) /\ list.next[n][l] \in TaggedKeys
             /\ n = Head0 \/ (n \in TaggedKeys /\ Less(n, list.next[n][l]))
  <2>1. n \in Starts(l) /\ ~Good(g[<<n, l>>])
    OBVIOUS
  <2>2. /\ n \in DOMAIN list.next
        /\ n = Head0 \/ (n \in TaggedKeys /\ n \in Nodes(list))
        /\ list.next[n][l] # Null => /\ list.next[n][l] \in Chain(list, l)
                                     /\ list.next[n][l] \in TaggedKeys
                                     /\ IsBefore(n, list.next[n][l])
    BY <2>1, <1>5, LinkIs
  <2>3. list.next[n][l] \in passed
    <3>1. SUFFICES ASSUME list.next[n][l] \notin passed PROVE FALSE
      OBVIOUS
    <3>2. l # to
      <4>1. SUFFICES ASSUME l = to PROVE Good(n) /\ g[<<n, l>>] = n
        BY <2>1
      <4>2. g[<<n, l>>] = n
        BY <4>1, <3>1, <2>2, <1>1, <1>5
      <4>3. Good(n)
        BY <4>1, <3>1, <2>1
      <4> QED
        BY <4>2, <4>3
    <3>3. g[<<n, l>>] = g[<<n, l - 1>>]
      BY <3>1, <3>2, <2>2, <1>1, <1>5
    <3>4. l - 1 \in to..from /\ ~(l <= l - 1) /\ l - 1 \in 1..l
      BY <3>2, <1>5, <1>0
    <3>5. n \in Starts(l - 1)
      <4>1. Chain(list, l) \subseteq Chain(list, l - 1)
        BY <1>5, <3>4 DEF LevelsInv
      <4> QED
        BY <4>1, <2>1 DEF On
    <3>6. l - 1 \in Bad
      <4>1. n \in BadAt(l - 1)
        BY <3>3, <3>5, <2>1
      <4> HIDE DEF BadAt
      <4> QED
        BY <4>1, <3>4
    <3> HIDE DEF Bad
    <3> QED
      BY <3>4, <3>6, <1>4
  <2>4. list.next[n][l] # Null
    <3>1. list.next[n][l] \in TaggedKeys
      BY <2>3 DEF LinksInv
    <3> QED
      BY <3>1, KeyParts
  <2>5. list.next[n][l] \in Starts(l)
    BY <2>2, <2>3, <2>4 DEF On
  <2>6. g[<<n, l>>] = g[<<list.next[n][l], l>>]
    BY <2>2, <2>3, <1>1, <1>5
  <2>7. list.next[n][l] \in BadAt(l)
    <3> HIDE DEF Good, Starts
    <3> QED
      BY <2>1, <2>5, <2>6
  <2>8. n = Head0 \/ (n \in TaggedKeys /\ Less(n, list.next[n][l]))
    BY <2>2, <2>4 DEF IsBefore
  <2> QED
    BY <2>2, <2>4, <2>7, <2>8
<1> DEFINE S == BadAt(l) \cap TaggedKeys
<1>7. S # {}
  <2>1. PICK n \in BadAt(l) : TRUE
    BY <1>5
  <2> HIDE DEF BadAt
  <2> QED
    BY <2>1, <1>6
<1>8. IsFiniteSet(S)
  <2>1. Starts(l) \subseteq DOMAIN list.next
    <3>1. ASSUME NEW n \in Starts(l) PROVE n \in DOMAIN list.next
      <4>1. n \in On(list, l)
        OBVIOUS
      <4> HIDE DEF Starts
      <4> QED
        BY <4>1, <1>5, LinkIs
    <3> QED
      BY <3>1
  <2>2. S \subseteq DOMAIN list.next
    BY <2>1
  <2> HIDE DEF S
  <2> QED
    BY <2>2, FS_Subset DEF LinksInv
<1>9. PICK z \in S : \A y \in S \ {z} : Less(y, z)
  <2>1. S \in SUBSET TaggedKeys
    OBVIOUS
  <2> HIDE DEF S
  <2> QED
    BY <2>1, <1>7, <1>8, LastKey
<1>10. z \in BadAt(l) /\ z \in TaggedKeys
  OBVIOUS
<1> HIDE DEF BadAt
<1>11. z # Head0
  BY <1>10, KeyParts
<1>12. list.next[z][l] \in S /\ Less(z, list.next[z][l])
  BY <1>6, <1>10, <1>11
<1>13. list.next[z][l] # z
  BY <1>10, <1>12, LessIsAnOrder
<1> QED
  BY <1>9, <1>10, <1>12, <1>13, LessIsAnOrder

\* A search for a key ends at the last node before it of the level where it ends.
LEMMA SearchForEnds ==
    ASSUME NEW list, LinksInv(list), LevelsInv(list), NEW from \in 1..MaxHeight, NEW to \in 1..from,
           NEW key \in TaggedKeys, NEW x \in On(list, from), IsBefore(x, key)
    PROVE  LET r == SearchFor(list, x, from, to, key)
           IN  /\ r \in On(list, to) /\ IsBefore(r, key)
               /\ list.next[r][to] # Null => ~Less(list.next[r][to], key)
               /\ \A y \in Chain(list, to) : Less(y, key) => y = r \/ (r # Head0 /\ Less(y, r))
<1> DEFINE passed == {n \in Nodes(list) : KeyIsAfterNode(key, n)}
           r == SearchFor(list, x, from, to, key)
<1>0. to \in 1..MaxHeight
  BY SkipListAssumption
<1>1. x = Head0 \/ x \in passed
  <2>1. x = Head0 \/ x \in Nodes(list)
    BY LinkIs
  <2> QED
    BY <2>1 DEF IsBefore, KeyIsAfterNode
<1>2. r \in On(list, to) /\ (r = Head0 \/ r \in passed) /\ list.next[r][to] \notin passed
  <2>1. r = Search(list, x, from, to, passed)
    BY DEF SearchFor
  <2>2. passed \in SUBSET Nodes(list)
    OBVIOUS
  <2> HIDE DEF r, passed
  <2> QED
    BY <1>1, <2>1, <2>2, SearchEnds
<1> HIDE DEF r
<1>3. /\ r = Head0 \/ (r \in TaggedKeys /\ r \in Nodes(list))
      /\ list.next[r][to] # Null => /\ list.next[r][to] \in Chain(list, to)
                                    /\ list.next[r][to] \in TaggedKeys
                                    /\ IsBefore(r, list.next[r][to])
      /\ Chain(list, to) \subseteq Nodes(list) /\ Nodes(list) \subseteq TaggedKeys
  BY <1>0, <1>2, LinkIs
<1>4. IsBefore(r, key)
  BY <1>2 DEF IsBefore, KeyIsAfterNode
<1>5. list.next[r][to] # Null => ~Less(list.next[r][to], key)
  BY <1>2, <1>3 DEF KeyIsAfterNode
<1>6. ASSUME NEW y \in Chain(list, to), Less(y, key), y # r, ~(r # Head0 /\ Less(y, r))
      PROVE  FALSE
  <2>1. y \in TaggedKeys
    BY <1>3
  <2>2. IsBefore(r, y)
    BY <1>3, <1>6, <2>1, LessIsAnOrder DEF IsBefore
  <2>3. list.next[r][to] # Null /\ ~Less(y, list.next[r][to])
    BY <2>2, <1>0, <1>2 DEF LevelsInv
  <2>4. list.next[r][to] = y \/ Less(list.next[r][to], y)
    BY <2>1, <2>3, <1>3, LessIsAnOrder
  <2>5. Less(list.next[r][to], key)
    BY <2>1, <2>3, <2>4, <1>3, <1>6, LessIsAnOrder
  <2> QED
    BY <2>3, <2>5, <1>5
<1> QED
  BY <1>2, <1>4, <1>5, <1>6 DEF r

-----------------------------------------------------------------------------
(* The links of the list. *)

\* Linking a level changes two links and puts the node on that level.
LEMMA LinkChanges ==
    ASSUME NEW list, NEW last, ListInv(list, last), list.insert # NoInsert
    PROVE  LET i == list.insert
               k == i.node
               l == i.linked + 1
               p == i.prev[l]
               q == list.next[p][l]
               new == Link(list)
           IN  /\ l \in 1..MaxHeight /\ l \in DOMAIN i.prev /\ k # p /\ k \in DOMAIN list.next
               /\ k \in TaggedKeys /\ k # Null /\ p \in DOMAIN list.next
               /\ l \in DOMAIN list.next[k] /\ l \in DOMAIN list.next[p]
               /\ DOMAIN new.next = DOMAIN list.next /\ new.height = list.height
               /\ new = [next |-> new.next, height |-> new.height, insert |-> new.insert]
               /\ new.insert = IF i.linked + 1 = Len(i.prev) THEN NoInsert
                               ELSE [node |-> k, prev |-> i.prev, linked |-> l]
               /\ \A n \in DOMAIN list.next :
                     new.next[n] = [m \in 1..Len(list.next[n]) |->
                                       IF m = l /\ n = k THEN q
                                       ELSE IF m = l /\ n = p THEN k ELSE list.next[n][m]]
<1> DEFINE i == list.insert
           k == i.node
           l == i.linked + 1
           p == i.prev[l]
           q == list.next[p][l]
           new == Link(list)
<1>1. /\ i = [node |-> k, prev |-> i.prev, linked |-> i.linked]
      /\ k \in Nodes(list) /\ i.linked \in Nat /\ i.prev \in Seq(DOMAIN list.next)
      /\ Len(i.prev) <= list.height /\ Len(i.prev) = Len(list.next[k]) /\ i.linked < Len(i.prev)
      /\ \A m \in DOMAIN i.prev : m > i.linked =>
             i.prev[m] \in On(list, m) /\ IsBefore(i.prev[m], k)
  BY DEF ListInv, InsertInv
<1>2. list.height \in 1..MaxHeight /\ MaxHeight \in Nat
  BY SkipListAssumption DEF ListInv, LevelsInv
<1>3. l \in DOMAIN i.prev /\ l \in 1..MaxHeight /\ l > i.linked
  <2>1. Len(i.prev) \in Nat /\ DOMAIN i.prev = 1..Len(i.prev)
    BY <1>1
  <2> QED
    BY <1>1, <1>2, <2>1
<1>4. p \in On(list, l) /\ IsBefore(p, k)
  BY <1>1, <1>3
<1>5. LinksInv(list) /\ LevelsInv(list)
  BY DEF ListInv
<1>6. k \in DOMAIN list.next /\ k \in TaggedKeys /\ k # Head0 /\ k # Null
  <2>1. k \in TaggedKeys
    BY <1>1, <1>5 DEF LinksInv
  <2> QED
    BY <1>1, <2>1, KeyParts DEF Nodes
<1>7. k # p
  BY <1>4, <1>6, LessIsAnOrder DEF IsBefore
<1>8. p \in DOMAIN list.next /\ l \in DOMAIN list.next[p]
  BY <1>3, <1>4, <1>5, LinkIs
<1>9. ASSUME NEW n \in DOMAIN list.next
      PROVE  /\ list.next[n] = [m \in 1..Len(list.next[n]) |-> list.next[n][m]]
             /\ DOMAIN list.next[n] = 1..Len(list.next[n])
  <2>1. list.next[n] \in Seq(Nodes(list) \cup {Null})
    BY <1>5 DEF LinksInv
  <2> QED
    BY <2>1
<1>10. l \in DOMAIN list.next[k]
  <2>1. DOMAIN i.prev = 1..Len(i.prev)
    BY <1>1
  <2> QED
    BY <2>1, <1>1, <1>3, <1>6, <1>9
<1> DEFINE next == [list.next EXCEPT ![k][l] = q, ![p][l] = k]
<1>11. /\ new.next = next /\ new.height = list.height
       /\ new.insert = IF i.linked + 1 = Len(i.prev) THEN NoInsert ELSE [i EXCEPT !.linked = @ + 1]
       /\ new = [next |-> new.next, height |-> new.height, insert |-> new.insert]
  <2>1. list = [next |-> list.next, height |-> list.height, insert |-> list.insert]
    BY DEF ListInv
  <2>2. new = [list EXCEPT !.next = next,
                           !.insert = IF i.linked + 1 = Len(i.prev) THEN NoInsert
                                      ELSE [i EXCEPT !.linked = @ + 1]]
    BY DEF Link, LevelToLink
  <2> HIDE DEF next, new
  <2> QED
    BY <2>1, <2>2
<1>12. new.insert = IF i.linked + 1 = Len(i.prev) THEN NoInsert
                    ELSE [node |-> k, prev |-> i.prev, linked |-> l]
  <2>1. [i EXCEPT !.linked = @ + 1] = [node |-> k, prev |-> i.prev, linked |-> l]
    BY <1>1
  <2> QED
    BY <2>1, <1>11
<1>13. DOMAIN next = DOMAIN list.next
  OBVIOUS
<1>14. ASSUME NEW n \in DOMAIN list.next
       PROVE  next[n] = [m \in 1..Len(list.next[n]) |->
                            IF m = l /\ n = k THEN q
                            ELSE IF m = l /\ n = p THEN k ELSE list.next[n][m]]
  <2> HIDE DEF l, k, p, q
  <2>1. CASE n = k
    <3>1. next[n] = [list.next[n] EXCEPT ![l] = q]
      BY <1>6, <1>7, <1>8, <2>1
    <3> HIDE DEF next
    <3> QED
      BY <3>1, <2>1, <1>7, <1>9, <1>10
  <2>2. CASE n = p
    <3>1. next[n] = [list.next[n] EXCEPT ![l] = k]
      BY <1>6, <1>7, <1>8, <2>2
    <3> HIDE DEF next
    <3> QED
      BY <3>1, <2>2, <1>7, <1>9, <1>8
  <2>3. CASE n # k /\ n # p
    <3>1. next[n] = list.next[n]
      BY <1>6, <1>7, <1>8, <2>3
    <3> HIDE DEF next
    <3> QED
      BY <3>1, <2>3, <1>9
  <2> QED
    BY <2>1, <2>2, <2>3
<1> HIDE DEF l, k, p, q, new, next, i
<1>15. /\ l \in 1..MaxHeight /\ l \in DOMAIN i.prev /\ k # p /\ k \in DOMAIN list.next
       /\ k \in TaggedKeys /\ k # Null /\ p \in DOMAIN list.next
       /\ l \in DOMAIN list.next[k] /\ l \in DOMAIN list.next[p]
       /\ DOMAIN new.next = DOMAIN list.next /\ new.height = list.height
       /\ new = [next |-> new.next, height |-> new.height, insert |-> new.insert]
  BY <1>3, <1>6, <1>7, <1>8, <1>10, <1>11, <1>13
<1>16. \A n \in DOMAIN list.next :
          new.next[n] = [m \in 1..Len(list.next[n]) |->
                            IF m = l /\ n = k THEN q
                            ELSE IF m = l /\ n = p THEN k ELSE list.next[n][m]]
  BY <1>14, <1>11
<1> QED
  BY <1>12, <1>15, <1>16 DEF l, k, p, q, new, i

\* So the levels keep their nodes, and that level has one more.
LEMMA LinkedChains ==
    ASSUME NEW list, NEW last, ListInv(list, last), list.insert # NoInsert
    PROVE  LET i == list.insert
               k == i.node
               l == i.linked + 1
               p == i.prev[l]
               q == list.next[p][l]
               new == Link(list)
           IN  /\ \A n \in DOMAIN list.next :
                     /\ Len(list.next[n]) \in Nat /\ DOMAIN list.next[n] = 1..Len(list.next[n])
                     /\ new.next[n] \in Seq(Nodes(list) \cup {Null})
                     /\ Len(new.next[n]) = Len(list.next[n])
                     /\ DOMAIN new.next[n] = DOMAIN list.next[n]
                     /\ \A m \in DOMAIN list.next[n] :
                           new.next[n][m] = IF m = l /\ n = k THEN q
                                            ELSE IF m = l /\ n = p THEN k ELSE list.next[n][m]
               /\ q = Null \/ q \in Chain(list, l)
               /\ \A m \in 1..MaxHeight : Chain(new, m) = IF m = l THEN Chain(list, m) \cup {k}
                                                           ELSE Chain(list, m)
<1> DEFINE i == list.insert
           k == i.node
           l == i.linked + 1
           p == i.prev[l]
           q == list.next[p][l]
           new == Link(list)
           N == Nodes(list) \cup {Null}
<1>1. /\ l \in 1..MaxHeight /\ l \in DOMAIN i.prev /\ k # p /\ k \in DOMAIN list.next
      /\ k \in TaggedKeys /\ k # Null /\ p \in DOMAIN list.next
      /\ l \in DOMAIN list.next[k] /\ l \in DOMAIN list.next[p]
      /\ DOMAIN new.next = DOMAIN list.next
      /\ \A n \in DOMAIN list.next :
            new.next[n] = [m \in 1..Len(list.next[n]) |->
                              IF m = l /\ n = k THEN q
                              ELSE IF m = l /\ n = p THEN k ELSE list.next[n][m]]
  BY LinkChanges
<1>2. \A n \in DOMAIN list.next : list.next[n] \in Seq(N)
  BY DEF ListInv, LinksInv
<1>3. k \in Nodes(list) /\ list.next[k][l] = Null
  <2>1. i.linked < l
    BY DEF ListInv, InsertInv
  <2> QED
    BY <1>1, <2>1 DEF ListInv, InsertInv
<1> HIDE DEF i, k, l, p, new
<1>4. \A n \in DOMAIN list.next : Len(list.next[n]) \in Nat /\ DOMAIN list.next[n] = 1..Len(list.next[n])
  BY <1>2
<1>5. q \in N
  BY <1>1, <1>2
<1>6. q = Null \/ q \in Chain(list, l)
  BY <1>1, <1>4 DEF Chain
<1> HIDE DEF q
<1>7. ASSUME NEW n \in DOMAIN list.next
      PROVE  /\ new.next[n] \in Seq(N) /\ Len(new.next[n]) = Len(list.next[n])
             /\ DOMAIN new.next[n] = DOMAIN list.next[n]
             /\ \A m \in DOMAIN list.next[n] :
                   new.next[n][m] = IF m = l /\ n = k THEN q
                                    ELSE IF m = l /\ n = p THEN k ELSE list.next[n][m]
  <2> DEFINE s == [m \in 1..Len(list.next[n]) |->
                      IF m = l /\ n = k THEN q
                      ELSE IF m = l /\ n = p THEN k ELSE list.next[n][m]]
  <2>1. \A m \in 1..Len(list.next[n]) : list.next[n][m] \in N
    BY <1>2
  <2>2. s \in Seq(N) /\ Len(s) = Len(list.next[n])
    BY <2>1, <1>3, <1>4, <1>5
  <2> QED
    BY <2>2, <1>1, <1>4
<1>8. ASSUME NEW m \in 1..MaxHeight, NEW y
      PROVE  y \in Chain(new, m) <=> y # Null /\ \E n \in DOMAIN list.next :
                 m \in DOMAIN list.next[n] /\ y = new.next[n][m]
  BY <1>1, <1>4, <1>7 DEF Chain
<1>9. ASSUME NEW m \in 1..MaxHeight, NEW y
      PROVE  y \in Chain(list, m) <=> y # Null /\ \E n \in DOMAIN list.next :
                 m \in DOMAIN list.next[n] /\ y = list.next[n][m]
  BY <1>4 DEF Chain
<1>10. ASSUME NEW m \in 1..MaxHeight, m # l PROVE Chain(new, m) = Chain(list, m)
  <2>1. \A n \in DOMAIN list.next : m \in DOMAIN list.next[n] => new.next[n][m] = list.next[n][m]
    BY <1>7, <1>10
  <2>2. \A y : y \in Chain(new, m) <=> y \in Chain(list, m)
    BY <2>1, <1>8, <1>9
  <2> QED
    BY <2>2
<1>11. Chain(new, l) = Chain(list, l) \cup {k}
  <2>1. k \in Chain(new, l)
    BY <1>1, <1>7, <1>8
  <2>2. ASSUME NEW y \in Chain(new, l) PROVE y \in Chain(list, l) \cup {k}
    <3>1. PICK n \in DOMAIN list.next : l \in DOMAIN list.next[n] /\ y = new.next[n][l] /\ y # Null
      BY <1>1, <1>8
    <3>2. CASE n = k
      BY <3>1, <3>2, <1>6, <1>7
    <3>3. CASE n = p
      BY <3>1, <3>3, <1>1, <1>7
    <3>4. CASE n # k /\ n # p
      BY <3>1, <3>4, <1>1, <1>7, <1>9
    <3> QED
      BY <3>2, <3>3, <3>4
  <2>3. ASSUME NEW y \in Chain(list, l) PROVE y \in Chain(new, l)
    <3>1. PICK n \in DOMAIN list.next : l \in DOMAIN list.next[n] /\ y = list.next[n][l] /\ y # Null
      BY <1>1, <1>9
    <3>2. CASE n = k
      BY <3>1, <3>2, <1>3
    <3>3. CASE n = p
      <4>1. y = q
        BY <3>1, <3>3 DEF q
      <4>2. new.next[k][l] = q
        BY <1>1, <1>7
      <4> QED
        BY <4>1, <4>2, <3>1, <1>1, <1>8
    <3>4. CASE n # k /\ n # p
      BY <3>1, <3>4, <1>1, <1>7, <1>8
    <3> QED
      BY <3>2, <3>3, <3>4
  <2> QED
    BY <2>1, <2>2, <2>3
<1>12. \A m \in 1..MaxHeight : Chain(new, m) = IF m = l THEN Chain(list, m) \cup {k} ELSE Chain(list, m)
  BY <1>10, <1>11
<1> QED
  BY <1>4, <1>6, <1>7, <1>12 DEF i, k, l, p, q, new

-----------------------------------------------------------------------------
\* Linking a level keeps the list in order.
LEMMA LinkKeepsOrder ==
    ASSUME NEW list, NEW last, ListInv(list, last), list.insert # NoInsert
    PROVE  ListInv(Link(list), last)
<1> DEFINE i == list.insert
           k == i.node
           l == i.linked + 1
           p == i.prev[l]
           q == list.next[p][l]
           new == Link(list)
<1>1. /\ l \in 1..MaxHeight /\ l \in DOMAIN i.prev /\ k # p /\ k \in DOMAIN list.next
      /\ k \in TaggedKeys /\ k # Null /\ p \in DOMAIN list.next
      /\ l \in DOMAIN list.next[k] /\ l \in DOMAIN list.next[p]
      /\ DOMAIN new.next = DOMAIN list.next /\ new.height = list.height
      /\ new = [next |-> new.next, height |-> new.height, insert |-> new.insert]
      /\ new.insert = IF i.linked + 1 = Len(i.prev) THEN NoInsert
                      ELSE [node |-> k, prev |-> i.prev, linked |-> l]
  BY LinkChanges
<1>2. /\ \A n \in DOMAIN list.next :
            /\ Len(list.next[n]) \in Nat /\ DOMAIN list.next[n] = 1..Len(list.next[n])
            /\ new.next[n] \in Seq(Nodes(list) \cup {Null})
            /\ Len(new.next[n]) = Len(list.next[n])
            /\ DOMAIN new.next[n] = DOMAIN list.next[n]
            /\ \A m \in DOMAIN list.next[n] :
                  new.next[n][m] = IF m = l /\ n = k THEN q
                                   ELSE IF m = l /\ n = p THEN k ELSE list.next[n][m]
      /\ q = Null \/ q \in Chain(list, l)
      /\ \A m \in 1..MaxHeight : Chain(new, m) = IF m = l THEN Chain(list, m) \cup {k}
                                                  ELSE Chain(list, m)
  BY LinkedChains
<1>3. LinksInv(list) /\ LevelsInv(list) /\ InsertInv(list)
      /\ \A n \in Nodes(list) : Tag(n) <= 2 * last + 1
  BY DEF ListInv
<1>4. /\ i = [node |-> k, prev |-> i.prev, linked |-> i.linked]
      /\ k \in Nodes(list) /\ i.linked \in Nat
      /\ i.prev \in Seq(DOMAIN list.next) /\ Len(i.prev) <= list.height
      /\ Len(i.prev) = Len(list.next[k]) /\ i.linked < Len(i.prev)
      /\ \A m \in 1..i.linked : k \in Chain(list, m)
      /\ \A m \in DOMAIN i.prev :
            m > i.linked =>
                /\ k \notin Chain(list, m) /\ list.next[k][m] = Null
                /\ i.prev[m] \in On(list, m) /\ IsBefore(i.prev[m], k)
                /\ list.next[i.prev[m]][m] # Null => Less(k, list.next[i.prev[m]][m])
  BY <1>3 DEF InsertInv
<1>5. /\ p \in On(list, l) /\ IsBefore(p, k) /\ k \notin Chain(list, l)
      /\ q # Null => Less(k, q)
  <2>1. l > i.linked
    BY <1>4
  <2> QED
    BY <2>1, <1>1, <1>4
<1>6. MaxHeight \in Nat /\ list.height \in 1..MaxHeight
  BY <1>3, SkipListAssumption DEF LevelsInv
<1>7. Nodes(new) = Nodes(list) /\ Nodes(list) \subseteq TaggedKeys
  BY <1>1, <1>3 DEF Nodes, LinksInv
<1> HIDE DEF i, k, l, p, new
<1>8. Chain(list, l) \subseteq TaggedKeys
  <2>1. Head0 \in On(list, l)
    BY DEF On
  <2> QED
    BY <2>1, <1>1, <1>3, LinkIs
<1>9. /\ q # Null => /\ q \in TaggedKeys /\ l \in DOMAIN list.next[q] /\ q \in DOMAIN list.next
                     /\ q \in Chain(list, l)
      /\ \A y \in Chain(list, l) : IsBefore(p, y) => q # Null /\ ~Less(y, q)
  <2>1. q # Null => q \in On(list, l)
    BY <1>2 DEF On
  <2>2. q # Null => q \in DOMAIN list.next /\ l \in DOMAIN list.next[q]
    BY <2>1, <1>1, <1>3, LinkIs
  <2>3. \A y \in Chain(list, l) : IsBefore(p, y) => q # Null /\ ~Less(y, q)
    BY <1>1, <1>3, <1>5 DEF LevelsInv, q
  <2> QED
    BY <1>2, <1>8, <2>2, <2>3
<1> HIDE DEF q
<1>10. LinksInv(new)
  <2>1. Head0 \in DOMAIN new.next /\ IsFiniteSet(DOMAIN new.next)
    BY <1>1, <1>3 DEF LinksInv
  <2>2. ASSUME NEW n \in DOMAIN new.next
        PROVE  new.next[n] \in Seq(Nodes(new) \cup {Null}) /\ Len(new.next[n]) <= MaxHeight
    BY <1>1, <1>2, <1>3, <1>7 DEF LinksInv
  <2>3. Len(new.next[Head0]) = MaxHeight
    BY <1>1, <1>2, <1>3, <2>1 DEF LinksInv
  <2>4. ASSUME NEW n \in DOMAIN new.next, NEW m \in DOMAIN new.next[n], new.next[n][m] # Null
        PROVE  m \in DOMAIN new.next[new.next[n][m]] /\ IsBefore(n, new.next[n][m])
    <3>0. n \in DOMAIN list.next /\ m \in DOMAIN list.next[n] /\ (n = Head0 \/ n \in TaggedKeys)
      BY <1>1, <1>2, <1>7 DEF Nodes
    <3>1. CASE m = l /\ n = k
      <4>1. new.next[n][m] = q /\ Less(k, q) /\ q \in DOMAIN list.next /\ m \in DOMAIN list.next[q]
        BY <3>0, <3>1, <2>4, <1>2, <1>5, <1>9
      <4> QED
        BY <4>1, <3>1, <1>2 DEF IsBefore
    <3>2. CASE m = l /\ n = p
      <4>1. new.next[n][m] = k
        BY <3>0, <3>2, <1>1, <1>2
      <4> QED
        BY <4>1, <3>2, <1>1, <1>2, <1>5
    <3>3. CASE ~(m = l /\ (n = k \/ n = p))
      <4>1. new.next[n][m] = list.next[n][m]
        BY <3>0, <3>3, <1>2
      <4>2. m \in DOMAIN list.next[list.next[n][m]] /\ IsBefore(n, list.next[n][m])
        BY <4>1, <3>0, <2>4, <1>3 DEF LinksInv
      <4>3. list.next[n][m] \in DOMAIN list.next
        <5>1. new.next[n][m] \in Nodes(list) \cup {Null}
          BY <3>0, <1>2
        <5> QED
          BY <5>1, <4>1, <2>4 DEF Nodes
      <4> QED
        BY <4>1, <4>2, <4>3, <1>2
    <3> QED
      BY <3>1, <3>2, <3>3
  <2> QED
    BY <2>1, <2>2, <2>3, <2>4, <1>7 DEF LinksInv
<1>11. LevelsInv(new)
  <2>1. new.height \in 1..MaxHeight
    BY <1>1, <1>6
  <2>2. ASSUME NEW m \in 1..MaxHeight, NEW j \in 1..m PROVE Chain(new, m) \subseteq Chain(new, j)
    <3>1. j \in 1..MaxHeight /\ Chain(list, m) \subseteq Chain(list, j)
      BY <1>3, <1>6 DEF LevelsInv
    <3>2. CASE m = l
      <4>1. j = l \/ j \in 1..i.linked
        BY <3>2, <1>4 DEF l
      <4>2. k \in Chain(new, j)
        BY <4>1, <3>1, <1>2, <1>4
      <4> QED
        BY <4>2, <3>1, <3>2, <1>2
    <3>3. CASE m # l
      BY <3>1, <3>3, <1>2
    <3> QED
      BY <3>2, <3>3
  <2>3. ASSUME NEW m \in 1..MaxHeight, m > new.height PROVE Chain(new, m) = {}
    <3>1. l <= list.height
      <4>1. l <= Len(i.prev)
        BY <1>4 DEF l
      <4> QED
        BY <4>1, <1>1, <1>4, <1>6
    <3>2. m # l /\ m > list.height
      BY <3>1, <2>3, <1>1, <1>6
    <3> QED
      BY <3>2, <1>2, <1>3 DEF LevelsInv
  <2>4. ASSUME NEW m \in 1..MaxHeight, NEW n \in On(new, m), NEW y \in Chain(new, m), IsBefore(n, y)
        PROVE  new.next[n][m] # Null /\ ~Less(y, new.next[n][m])
    <3>1. CASE m # l
      <4>1. n \in On(list, m) /\ y \in Chain(list, m)
        BY <3>1, <1>2 DEF On
      <4>2. n \in DOMAIN list.next /\ m \in DOMAIN list.next[n]
        BY <4>1, <1>3, LinkIs
      <4> QED
        BY <4>1, <4>2, <3>1, <2>4, <1>2, <1>3 DEF LevelsInv
    <3>2. CASE m = l
      <4>1. /\ n = k \/ n \in On(list, l)
            /\ y = k \/ y \in Chain(list, l)
            /\ y \in TaggedKeys
        BY <3>2, <1>1, <1>2, <1>8 DEF On
      <4>2. n \in DOMAIN list.next /\ l \in DOMAIN list.next[n] /\ (n = Head0 \/ n \in TaggedKeys)
        BY <4>1, <1>1, <1>3, LinkIs
      <4>3. p = Head0 \/ p \in TaggedKeys
        BY <1>1, <1>3, <1>5, LinkIs
      <4>4. CASE n = k
        <5>1. new.next[n][l] = q
          BY <4>2, <4>4, <1>2
        <5>2. y # k
          BY <4>4, <2>4, <4>1, LessIsAnOrder, KeyParts DEF IsBefore
        <5>3. y \in Chain(list, l) /\ Less(k, y)
          BY <5>2, <4>1, <4>4, <2>4, <1>1, KeyParts DEF IsBefore
        <5>4. IsBefore(p, y)
          BY <5>3, <4>1, <4>3, <1>1, <1>5, LessIsAnOrder DEF IsBefore
        <5> QED
          BY <5>1, <5>3, <5>4, <1>9, <3>2
      <4>5. CASE n = p
        <5>1. new.next[n][l] = k
          BY <4>2, <4>5, <1>1, <1>2
        <5>2. ~Less(y, k)
          <6>1. CASE y = k
            BY <6>1, <4>1, LessIsAnOrder
          <6>2. CASE y \in Chain(list, l)
            <7>1. q # Null /\ ~Less(y, q)
              BY <6>2, <4>5, <2>4, <1>9
            <7>2. Less(k, q) /\ q \in TaggedKeys
              BY <7>1, <1>5, <1>9
            <7> QED
              BY <7>1, <7>2, <4>1, <1>1, LessIsAnOrder
          <6> QED
            BY <6>1, <6>2, <4>1
        <5> QED
          BY <5>1, <5>2, <1>1, <3>2
      <4>6. CASE n # k /\ n # p
        <5>1. new.next[n][l] = list.next[n][l] /\ n \in On(list, l)
          BY <4>1, <4>2, <4>6, <1>2
        <5>2. CASE y \in Chain(list, l)
          BY <5>1, <5>2, <2>4, <3>2, <1>1, <1>3 DEF LevelsInv
        <5>3. CASE y = k
          <6> DEFINE z == list.next[n][l]
          <6>1. z # Null => z \in TaggedKeys
            BY <5>1, <1>1, <1>3, LinkIs
          <6>2. p # Head0 /\ IsBefore(n, p)
            <7>1. SUFFICES ASSUME p = Head0 \/ ~IsBefore(n, p) PROVE FALSE
              OBVIOUS
            <7>2. n # Head0
              BY <7>1, <4>6 DEF IsBefore
            <7>3. IsBefore(p, n) /\ n \in Chain(list, l)
              BY <7>1, <7>2, <4>2, <4>3, <4>6, <5>1, LessIsAnOrder DEF IsBefore, On
            <7>4. q # Null /\ ~Less(n, q)
              BY <7>3, <1>9
            <7>5. Less(k, q) /\ Less(n, k) /\ q \in TaggedKeys
              BY <7>2, <7>4, <5>3, <2>4, <1>5, <1>9 DEF IsBefore
            <7> QED
              BY <7>2, <7>4, <7>5, <4>2, <1>1, LessIsAnOrder
          <6>3. p \in Chain(list, l) /\ Less(p, k)
            BY <6>2, <1>5 DEF On, IsBefore
          <6>4. z # Null /\ ~Less(p, z)
            BY <6>2, <6>3, <5>1, <1>1, <1>3 DEF LevelsInv
          <6>5. ~Less(k, z)
            BY <6>1, <6>2, <6>3, <6>4, <4>3, <1>1, LessIsAnOrder
          <6> QED
            BY <6>4, <6>5, <5>1, <5>3, <3>2
        <5> QED
          BY <5>2, <5>3, <4>1
      <4> QED
        BY <4>4, <4>5, <4>6
    <3> QED
      BY <3>1, <3>2
  <2> QED
    BY <2>1, <2>2, <2>3, <2>4 DEF LevelsInv
<1>12. InsertInv(new)
  <2>1. SUFFICES ASSUME new.insert # NoInsert PROVE InsertInv(new)
    BY DEF InsertInv
  <2> DEFINE j == new.insert
  <2>2. i.linked + 1 # Len(i.prev) /\ j = [node |-> k, prev |-> i.prev, linked |-> l]
    BY <2>1, <1>1
  <2>3. j.node = k /\ j.prev = i.prev /\ j.linked = l
    BY <2>2
  <2>4. l \in Nat /\ l < Len(i.prev)
    <3>1. Len(i.prev) \in Nat
      BY <1>4
    <3> QED
      BY <3>1, <2>2, <1>4 DEF l
  <2>5. Len(i.prev) = Len(new.next[k])
    BY <1>1, <1>2, <1>4
  <2>6. \A m \in 1..l : k \in Chain(new, m)
    <3> TAKE m \in 1..l
    <3>1. m \in 1..MaxHeight /\ (m = l \/ m \in 1..i.linked)
      BY <1>1, <1>4, <1>6 DEF l
    <3> QED
      BY <3>1, <1>2, <1>4
  <2>7. ASSUME NEW m \in DOMAIN i.prev, m > l
        PROVE  /\ k \notin Chain(new, m) /\ new.next[k][m] = Null
               /\ i.prev[m] \in On(new, m) /\ IsBefore(i.prev[m], k)
               /\ new.next[i.prev[m]][m] # Null => Less(k, new.next[i.prev[m]][m])
    <3>1. m \in 1..MaxHeight /\ m # l /\ m > i.linked /\ m \in DOMAIN list.next[k]
      <4>1. DOMAIN i.prev = 1..Len(i.prev) /\ Len(i.prev) \in Nat
        BY <1>4
      <4>2. m \in 1..Len(list.next[k])
        BY <4>1, <1>4
      <4>3. m \in DOMAIN list.next[k]
        BY <4>2, <1>1, <1>2
      <4> QED
        BY <4>1, <4>3, <2>7, <1>4, <1>6 DEF l
    <3>2. /\ k \notin Chain(list, m) /\ list.next[k][m] = Null
          /\ i.prev[m] \in On(list, m) /\ IsBefore(i.prev[m], k)
          /\ list.next[i.prev[m]][m] # Null => Less(k, list.next[i.prev[m]][m])
      BY <3>1, <1>4
    <3>3. i.prev[m] \in DOMAIN list.next /\ m \in DOMAIN list.next[i.prev[m]]
      BY <3>1, <3>2, <1>3, LinkIs
    <3>4. new.next[k][m] = list.next[k][m] /\ new.next[i.prev[m]][m] = list.next[i.prev[m]][m]
      BY <3>1, <3>3, <1>1, <1>2
    <3>5. Chain(new, m) = Chain(list, m)
      BY <3>1, <1>2
    <3> QED
      BY <3>2, <3>4, <3>5 DEF On
  <2> HIDE DEF j
  <2>8. /\ j = [node |-> j.node, prev |-> j.prev, linked |-> j.linked]
        /\ j.node \in Nodes(new) /\ j.linked \in Nat
        /\ j.prev \in Seq(DOMAIN new.next) /\ Len(j.prev) <= new.height
        /\ Len(j.prev) = Len(new.next[j.node]) /\ j.linked < Len(j.prev)
    BY <2>2, <2>3, <2>4, <2>5, <1>1, <1>4, <1>7
  <2>9. \A m \in 1..j.linked : j.node \in Chain(new, m)
    BY <2>3, <2>6
  <2>10. \A m \in DOMAIN j.prev :
            m > j.linked =>
                /\ j.node \notin Chain(new, m) /\ new.next[j.node][m] = Null
                /\ j.prev[m] \in On(new, m) /\ IsBefore(j.prev[m], j.node)
                /\ new.next[j.prev[m]][m] # Null => Less(j.node, new.next[j.prev[m]][m])
    BY <2>3, <2>7
  <2> QED
    BY <2>8, <2>9, <2>10 DEF InsertInv, j
<1>13. \A n \in Nodes(new) : Tag(n) <= 2 * last + 1
  BY <1>3, <1>7
<1>14. ListInv(new, last)
  BY <1>1, <1>10, <1>11, <1>12, <1>13 DEF ListInv
<1> QED
  BY <1>14 DEF new

-----------------------------------------------------------------------------
\* The empty list is in order.
LEMMA EmptyListIsInOrder == \A last \in Nat : ListInv(EmptyList, last)
<1> DEFINE list == EmptyList
           links == [l \in 1..MaxHeight |-> Null]
<1>0. MaxHeight \in Nat /\ 1 \in 1..MaxHeight
  BY SkipListAssumption
<1>1. /\ list = [next |-> list.next, height |-> list.height, insert |-> list.insert]
      /\ list.next = [n \in {Head0} |-> links] /\ list.height = 1 /\ list.insert = NoInsert
  BY DEF EmptyList
<1>2. DOMAIN list.next = {Head0} /\ list.next[Head0] = links /\ Nodes(list) = {}
  BY <1>1 DEF Nodes
<1>3. links \in Seq({Null}) /\ Len(links) = MaxHeight /\ \A l \in DOMAIN links : links[l] = Null
  BY <1>0
<1> HIDE DEF list, links
<1>4. LinksInv(list)
  <2>1. IsFiniteSet({Head0})
    BY FS_Singleton
  <2> QED
    BY <1>0, <1>2, <1>3, <2>1 DEF LinksInv
<1>5. ASSUME NEW l \in 1..MaxHeight PROVE Chain(list, l) = {}
  <2>1. l \in DOMAIN links
    BY <1>0, <1>3
  <2> QED
    BY <2>1, <1>2, <1>3 DEF Chain
<1>6. LevelsInv(list)
  BY <1>0, <1>1, <1>5 DEF LevelsInv
<1>7. InsertInv(list)
  BY <1>1 DEF InsertInv
<1> QED
  BY <1>1, <1>2, <1>4, <1>6, <1>7 DEF ListInv, list

\* A new node, of a key that is not in the list, finds its place on every level.
LEMMA BeginKeepsOrder ==
    ASSUME NEW list, NEW last \in Nat, ListInv(list, last), list.insert = NoInsert,
           NEW key \in TaggedKeys, Tag(key) > 2 * last + 1, Tag(key) <= 2 * (last + 1) + 1,
           NEW height \in 1..MaxHeight
    PROVE  LET new == BeginInsert(list, key, height)
           IN  /\ ListInv(new, last + 1) /\ new.insert # NoInsert
               /\ new.insert.linked = 0 /\ Len(new.insert.prev) = height
<1> DEFINE new == BeginInsert(list, key, height)
           links == [l \in 1..height |-> Null]
           prev == [l \in 1..height |-> IF l > list.height THEN Head0
                                        ELSE SearchFor(list, Head0, list.height, l, key)]
           D == DOMAIN list.next
<1>1. LinksInv(list) /\ LevelsInv(list) /\ \A n \in Nodes(list) : Tag(n) <= 2 * last + 1
  BY DEF ListInv
<1>2. MaxHeight \in Nat /\ height \in Nat /\ list.height \in 1..MaxHeight /\ 1..height \subseteq 1..MaxHeight
  BY <1>1, SkipListAssumption DEF LevelsInv
<1>3. Head0 \in D /\ Nodes(list) \subseteq TaggedKeys /\ IsFiniteSet(D)
  BY <1>1 DEF LinksInv
<1>4. key # Head0 /\ key # Null
  BY KeyParts
<1>5. key \notin D
  <2>1. SUFFICES ASSUME key \in D PROVE FALSE
    OBVIOUS
  <2>2. key \in Nodes(list)
    BY <2>1, <1>4 DEF Nodes
  <2>3. Tag(key) <= 2 * last + 1 /\ Tag(key) \in Nat
    BY <2>2, <1>1, KeyParts
  <2> QED
    BY <2>3
<1>6. /\ DOMAIN new.next = D \cup {key} /\ new.next[key] = links
      /\ \A n \in D : new.next[n] = list.next[n]
      /\ new.height = (IF height > list.height THEN height ELSE list.height)
      /\ new.insert = [node |-> key, linked |-> 0, prev |-> prev]
      /\ new = [next |-> new.next, height |-> new.height, insert |-> new.insert]
  BY <1>5 DEF BeginInsert
<1>7. new.insert.node = key /\ new.insert.linked = 0 /\ new.insert.prev = prev
  BY <1>6
<1>8. links \in Seq(Nodes(new) \cup {Null}) /\ Len(links) = height /\ DOMAIN links = 1..height
      /\ \A l \in 1..height : links[l] = Null
  BY <1>2
<1>9. new.height \in 1..MaxHeight /\ new.height >= list.height /\ height <= new.height
  BY <1>2, <1>6
<1>10. Nodes(new) = Nodes(list) \cup {key}
  BY <1>4, <1>6 DEF Nodes
<1> HIDE DEF new, links
<1>11. ASSUME NEW n \in D
       PROVE  /\ list.next[n] \in Seq(Nodes(list) \cup {Null}) /\ Len(list.next[n]) \in Nat
              /\ DOMAIN list.next[n] = 1..Len(list.next[n])
              /\ \A l \in DOMAIN list.next[n] : list.next[n][l] # Null => list.next[n][l] \in D
  <2>1. list.next[n] \in Seq(Nodes(list) \cup {Null})
    BY <1>1 DEF LinksInv
  <2> QED
    BY <2>1 DEF Nodes
<1>12. \A l \in 1..MaxHeight : Chain(new, l) = Chain(list, l)
  <2> TAKE l \in 1..MaxHeight
  <2>1. ASSUME NEW y \in Chain(new, l) PROVE y \in Chain(list, l)
    <3>1. PICK n \in D \cup {key} : l <= Len(new.next[n]) /\ y = new.next[n][l] /\ y # Null
      BY <1>6 DEF Chain
    <3>2. n # key
      <4>1. SUFFICES ASSUME n = key PROVE FALSE
        OBVIOUS
      <4>2. l \in 1..height
        BY <4>1, <3>1, <1>6, <1>8, <1>2
      <4> QED
        BY <4>1, <4>2, <3>1, <1>6, <1>8
    <3> QED
      BY <3>1, <3>2, <1>6 DEF Chain
  <2>2. ASSUME NEW y \in Chain(list, l) PROVE y \in Chain(new, l)
    <3>1. PICK n \in D : l <= Len(list.next[n]) /\ y = list.next[n][l] /\ y # Null
      BY DEF Chain
    <3> QED
      BY <3>1, <1>6 DEF Chain
  <2> QED
    BY <2>1, <2>2
<1>13. LinksInv(new)
  <2>1. Head0 \in DOMAIN new.next /\ Nodes(new) \subseteq TaggedKeys
    BY <1>3, <1>6, <1>10
  <2>2. IsFiniteSet(DOMAIN new.next)
    BY <1>3, <1>6, FS_AddElement
  <2>3. \A n \in DOMAIN new.next :
           new.next[n] \in Seq(Nodes(new) \cup {Null}) /\ Len(new.next[n]) <= MaxHeight
    <3> TAKE n \in DOMAIN new.next
    <3>1. CASE n = key
      BY <3>1, <1>2, <1>6, <1>8
    <3>2. CASE n \in D
      <4>1. new.next[n] \in Seq(Nodes(list) \cup {Null}) /\ Len(new.next[n]) <= MaxHeight
        BY <3>2, <1>1, <1>6 DEF LinksInv
      <4> QED
        BY <4>1, <1>10
    <3> QED
      BY <3>1, <3>2, <1>6
  <2>4. Len(new.next[Head0]) = MaxHeight
    BY <1>1, <1>3, <1>6 DEF LinksInv
  <2>5. ASSUME NEW n \in DOMAIN new.next, NEW l \in DOMAIN new.next[n], new.next[n][l] # Null
        PROVE  l \in DOMAIN new.next[new.next[n][l]] /\ IsBefore(n, new.next[n][l])
    <3>1. n \in D
      BY <2>5, <1>6, <1>8
    <3>2. list.next[n][l] # Null /\ l \in DOMAIN list.next[n] /\ list.next[n][l] \in D
      BY <3>1, <2>5, <1>6, <1>11
    <3>3. l \in DOMAIN list.next[list.next[n][l]] /\ IsBefore(n, list.next[n][l])
      BY <3>1, <3>2, <1>1 DEF LinksInv
    <3> QED
      BY <3>1, <3>2, <3>3, <1>6
  <2> QED
    BY <2>1, <2>2, <2>3, <2>4, <2>5 DEF LinksInv
<1>14. LevelsInv(new)
  <2>1. ASSUME NEW l \in 1..MaxHeight
        PROVE  /\ \A m \in 1..l : Chain(new, l) \subseteq Chain(new, m)
               /\ l > new.height => Chain(new, l) = {}
               /\ \A n \in On(new, l), y \in Chain(new, l) :
                     IsBefore(n, y) => new.next[n][l] # Null /\ ~Less(y, new.next[n][l])
    <3>1. \A m \in 1..l : m \in 1..MaxHeight
      BY <1>2
    <3>2. l > new.height => l > list.height
      BY <1>2, <1>9
    <3>3. On(new, l) = On(list, l) /\ \A n \in On(list, l) : new.next[n] = list.next[n]
      BY <1>1, <1>6, <1>12, LinkIs DEF On
    <3> QED
      BY <3>1, <3>2, <3>3, <1>1, <1>12 DEF LevelsInv
  <2> QED
    BY <2>1, <1>9 DEF LevelsInv
<1>15. ASSUME NEW l \in 1..height
       PROVE  /\ key \notin Chain(list, l) /\ prev[l] \in D /\ prev[l] \in On(list, l)
              /\ IsBefore(prev[l], key) /\ list.next[prev[l]] = new.next[prev[l]]
              /\ list.next[prev[l]][l] # Null => Less(key, list.next[prev[l]][l])
  <2>1. l \in 1..MaxHeight /\ Head0 \in On(list, l) /\ IsBefore(Head0, key)
    BY <1>2 DEF On, IsBefore
  <2>2. Chain(list, l) \subseteq Nodes(list)
    BY <2>1, <1>1, LinkIs
  <2>3. key \notin Chain(list, l)
    BY <2>2, <1>5 DEF Nodes
  <2>4. prev[l] \in On(list, l) /\ IsBefore(prev[l], key)
        /\ (list.next[prev[l]][l] # Null => ~Less(list.next[prev[l]][l], key))
    <3>1. CASE l > list.height
      <4>1. prev[l] = Head0 /\ Chain(list, l) = {}
        BY <3>1, <2>1, <1>1 DEF LevelsInv
      <4>2. list.next[Head0][l] = Null
        BY <4>1, <2>1, <1>1, LinkIs
      <4> QED
        BY <4>1, <4>2, <2>1
    <3>2. CASE ~(l > list.height)
      <4>1. prev[l] = SearchFor(list, Head0, list.height, l, key)
        BY <3>2
      <4>2. l \in 1..list.height /\ Head0 \in On(list, list.height)
        BY <3>2, <1>2 DEF On
      <4> HIDE DEF prev
      <4> QED
        BY <4>1, <4>2, <2>1, <1>1, <1>2, SearchForEnds
    <3> QED
      BY <3>1, <3>2
  <2> HIDE DEF prev
  <2>5. /\ prev[l] \in D
        /\ list.next[prev[l]][l] # Null => /\ list.next[prev[l]][l] \in Chain(list, l)
                                           /\ list.next[prev[l]][l] \in TaggedKeys
    BY <2>1, <2>4, <1>1, LinkIs
  <2>6. list.next[prev[l]][l] # Null => Less(key, list.next[prev[l]][l])
    BY <2>3, <2>4, <2>5, LessIsAnOrder
  <2> QED
    BY <2>3, <2>4, <2>5, <2>6, <1>6
<1>16. prev \in Seq(DOMAIN new.next) /\ Len(prev) = height /\ DOMAIN prev = 1..height
  <2>1. \A l \in 1..height : prev[l] \in DOMAIN new.next
    BY <1>6, <1>15
  <2>2. prev = [l \in 1..height |-> prev[l]]
    OBVIOUS
  <2> HIDE DEF prev
  <2> QED
    BY <2>1, <2>2, <1>2
<1> HIDE DEF prev
<1>17. new.insert # NoInsert
  BY <1>4, <1>7 DEF NoInsert
<1>18. InsertInv(new)
  <2> DEFINE i == new.insert
  <2>1. /\ i = [node |-> i.node, prev |-> i.prev, linked |-> i.linked]
        /\ i.node \in Nodes(new) /\ i.linked \in Nat
        /\ i.prev \in Seq(DOMAIN new.next) /\ Len(i.prev) <= new.height
        /\ Len(i.prev) = Len(new.next[i.node]) /\ i.linked < Len(i.prev)
    BY <1>2, <1>6, <1>7, <1>8, <1>9, <1>10, <1>16
  <2>2. \A l \in 1..i.linked : i.node \in Chain(new, l)
    BY <1>7
  <2>3. ASSUME NEW l \in DOMAIN i.prev
        PROVE  /\ i.node \notin Chain(new, l) /\ new.next[i.node][l] = Null
               /\ i.prev[l] \in On(new, l) /\ IsBefore(i.prev[l], i.node)
               /\ new.next[i.prev[l]][l] # Null => Less(i.node, new.next[i.prev[l]][l])
    <3>1. l \in 1..height /\ l \in 1..MaxHeight
      BY <1>2, <1>7, <1>16
    <3> QED
      BY <3>1, <1>6, <1>7, <1>8, <1>12, <1>15 DEF On
  <2> HIDE DEF i
  <2> QED
    BY <2>1, <2>2, <2>3 DEF InsertInv, i
<1>19. \A n \in Nodes(new) : Tag(n) <= 2 * (last + 1) + 1
  <2> TAKE n \in Nodes(new)
  <2>1. CASE n = key
    BY <2>1
  <2>2. CASE n \in Nodes(list)
    <3>1. Tag(n) <= 2 * last + 1 /\ Tag(n) \in Nat
      BY <2>2, <1>1, <1>3, KeyParts
    <3> QED
      BY <3>1
  <2> QED
    BY <2>1, <2>2, <1>10
<1> QED
  BY <1>6, <1>7, <1>13, <1>14, <1>16, <1>17, <1>18, <1>19 DEF ListInv, new

-----------------------------------------------------------------------------
(* A whole insertion, and a memtable. *)

\* The function with which Inserted computes: the list after so many links.
Linked(list, key, height) ==
    LET linked[l \in 0..height] == IF l = 0 THEN BeginInsert(list, key, height)
                                   ELSE Link(linked[l - 1])
    IN  linked

\* It is what its definition says.
LEMMA LinkedIs ==
    ASSUME NEW list, NEW key, NEW height \in Nat
    PROVE  \A l \in 0..height :
               Linked(list, key, height)[l] = IF l = 0 THEN BeginInsert(list, key, height)
                                              ELSE Link(Linked(list, key, height)[l - 1])
<1> DEFINE First == BeginInsert(list, key, height)
           Is(n, g) == g = [i \in 0..n |-> IF i = 0 THEN First ELSE Link(g[i - 1])]
           Bad == {n \in 0..height : ~\E g : Is(n, g)}
<1> HIDE DEF First
<1>1. Bad = {}
  <2>1. SUFFICES ASSUME Bad # {} PROVE FALSE
    OBVIOUS
  <2>2. Bad \in SUBSET Nat
    <3> HIDE DEF Is
    <3> QED
      OBVIOUS
  <2>3. PICK n \in Bad : \A m \in Bad : n <= m
    BY <2>1, <2>2, LeastNat
  <2>4. n \in 0..height /\ ~\E g : Is(n, g)
    BY <2>3
  <2>5. n # 0
    <3>1. Is(0, [i \in 0..0 |-> First])
      OBVIOUS
    <3> QED
      BY <2>4, <3>1
  <2>6. n \in Nat /\ n - 1 \in 0..height /\ ~(n <= n - 1)
    BY <2>4, <2>5
  <2>7. n - 1 \notin Bad
    <3> HIDE DEF Bad
    <3> QED
      BY <2>3, <2>6
  <2>8. PICK g : Is(n - 1, g)
    BY <2>6, <2>7
  <2> DEFINE h == [i \in 0..n |-> IF i = n THEN Link(g[i - 1]) ELSE g[i]]
  <2>9. \A i \in 0..n : h[i] = IF i = 0 THEN First ELSE Link(h[i - 1])
    <3> TAKE i \in 0..n
    <3>1. i # 0 => i - 1 \in 0..n /\ i - 1 # n
      BY <2>6
    <3>2. CASE i = n
      BY <3>1, <3>2, <2>5
    <3>3. CASE i # n
      <4>1. i \in 0..n - 1 /\ h[i] = g[i] /\ (i # 0 => h[i - 1] = g[i - 1])
        BY <2>6, <3>1, <3>3
      <4>2. g[i] = IF i = 0 THEN First ELSE Link(g[i - 1])
        BY <2>8, <4>1
      <4> QED
        BY <4>1, <4>2
    <3> QED
      BY <3>2, <3>3
  <2>10. h = [i \in 0..n |-> h[i]]
    OBVIOUS
  <2> HIDE DEF h
  <2>11. Is(n, h)
    BY <2>9, <2>10
  <2> QED
    BY <2>4, <2>11
<1>2. \E g : Is(height, g)
  <2>1. height \in 0..height
    OBVIOUS
  <2> HIDE DEF Is
  <2> QED
    BY <1>1, <2>1
<1> DEFINE G == CHOOSE g : Is(height, g)
<1>3. Is(height, G)
  <2> HIDE DEF Is
  <2> QED
    BY <1>2
<1>4. Linked(list, key, height) = G
  BY DEF Linked, First
<1> HIDE DEF G
<1> QED
  BY <1>3, <1>4 DEF First

\* A whole insertion of a new key keeps the list in order.
LEMMA InsertedIsInOrder ==
    ASSUME NEW list, NEW last \in Nat, ListInv(list, last), list.insert = NoInsert,
           NEW key \in TaggedKeys, Tag(key) > 2 * last + 1, Tag(key) <= 2 * (last + 1) + 1,
           NEW height \in 1..MaxHeight
    PROVE  /\ ListInv(Inserted(list, key, height), last + 1)
           /\ Inserted(list, key, height).insert = NoInsert
           /\ DOMAIN Inserted(list, key, height).next = DOMAIN list.next \cup {key}
<1> DEFINE g == Linked(list, key, height)
           Good(l) == /\ ListInv(g[l], last + 1)
                      /\ DOMAIN g[l].next = DOMAIN list.next \cup {key}
                      /\ IF l = height THEN g[l].insert = NoInsert
                         ELSE /\ g[l].insert # NoInsert /\ g[l].insert.linked = l
                              /\ Len(g[l].insert.prev) = height
           Bad == {l \in 0..height : ~Good(l)}
<1>0. height \in Nat /\ height # 0 /\ 0 \in 0..height /\ height \in 0..height
  BY SkipListAssumption
<1>1. \A l \in 0..height : g[l] = IF l = 0 THEN BeginInsert(list, key, height) ELSE Link(g[l - 1])
  BY <1>0, LinkedIs
<1>2. Inserted(list, key, height) = g[height]
  BY DEF Inserted, Linked
<1> HIDE DEF g
<1>3. Good(0)
  <2>1. g[0] = BeginInsert(list, key, height)
    BY <1>0, <1>1
  <2>2. DOMAIN BeginInsert(list, key, height).next = DOMAIN list.next \cup {key}
    BY DEF BeginInsert
  <2> QED
    BY <2>1, <2>2, <1>0, BeginKeepsOrder
<1>4. ASSUME NEW l \in 1..height, Good(l - 1) PROVE Good(l)
  <2>1. /\ g[l] = Link(g[l - 1]) /\ l - 1 # height /\ l - 1 + 1 = l
    BY <1>0, <1>1
  <2>2. /\ ListInv(g[l - 1], last + 1) /\ g[l - 1].insert # NoInsert
        /\ g[l - 1].insert.linked = l - 1 /\ Len(g[l - 1].insert.prev) = height
        /\ DOMAIN g[l - 1].next = DOMAIN list.next \cup {key}
    BY <1>4, <2>1
  <2>3. ListInv(g[l], last + 1)
    BY <2>1, <2>2, LinkKeepsOrder
  <2>4. /\ g[l].insert = IF l = height THEN NoInsert
                         ELSE [node |-> g[l - 1].insert.node, prev |-> g[l - 1].insert.prev,
                               linked |-> l]
        /\ g[l - 1].insert.node # Null /\ DOMAIN g[l].next = DOMAIN g[l - 1].next
    BY <2>1, <2>2, LinkChanges
  <2>5. l # height => g[l].insert # NoInsert
    BY <2>4 DEF NoInsert
  <2> QED
    BY <2>2, <2>3, <2>4, <2>5
<1>5. Bad = {}
  <2>1. SUFFICES ASSUME Bad # {} PROVE FALSE
    OBVIOUS
  <2>2. Bad \in SUBSET Nat
    OBVIOUS
  <2> HIDE DEF Good
  <2>3. PICK l \in Bad : \A m \in Bad : l <= m
    <3> HIDE DEF Bad
    <3> QED
      BY <2>1, <2>2, LeastNat
  <2>4. l \in 0..height /\ ~Good(l)
    BY <2>3
  <2>5. l \in 1..height /\ l - 1 \in 0..height /\ ~(l <= l - 1)
    <3>1. l # 0
      BY <2>4, <1>3
    <3> QED
      BY <3>1, <2>4, <1>0
  <2>6. l - 1 \notin Bad
    <3> HIDE DEF Bad
    <3> QED
      BY <2>3, <2>5
  <2> QED
    BY <2>4, <2>5, <2>6, <1>4
<1>6. Good(height)
  <2> HIDE DEF Good
  <2> QED
    BY <1>0, <1>5
<1> QED
  BY <1>2, <1>6

\* The function with which MemTable computes: the list after so many writes.
Tables(writes, seq, heights) ==
    LET list[i \in 0..Len(writes)] ==
            IF i = 0 THEN EmptyList
            ELSE Inserted(list[i - 1], KeyOf(writes[i], seq + i - 1), heights[i])
    IN  list

\* It is what its definition says.
LEMMA TablesIs ==
    ASSUME NEW writes, Len(writes) \in Nat, NEW seq, NEW heights
    PROVE  \A i \in 0..Len(writes) :
               Tables(writes, seq, heights)[i] =
                   IF i = 0 THEN EmptyList
                   ELSE Inserted(Tables(writes, seq, heights)[i - 1],
                                 KeyOf(writes[i], seq + i - 1), heights[i])
<1> DEFINE N == Len(writes)
           Next1(t, i) == Inserted(t, KeyOf(writes[i], seq + i - 1), heights[i])
           Is(n, g) == g = [i \in 0..n |-> IF i = 0 THEN EmptyList ELSE Next1(g[i - 1], i)]
           Bad == {n \in 0..N : ~\E g : Is(n, g)}
<1> HIDE DEF Next1, N
<1>0. N \in Nat
  BY DEF N
<1>1. Bad = {}
  <2>1. SUFFICES ASSUME Bad # {} PROVE FALSE
    OBVIOUS
  <2>2. Bad \in SUBSET Nat
    <3> HIDE DEF Is
    <3> QED
      BY <1>0
  <2>3. PICK n \in Bad : \A m \in Bad : n <= m
    BY <2>1, <2>2, LeastNat
  <2>4. n \in 0..N /\ ~\E g : Is(n, g)
    BY <2>3
  <2>5. n # 0
    <3>1. Is(0, [i \in 0..0 |-> EmptyList])
      OBVIOUS
    <3> QED
      BY <2>4, <3>1
  <2>6. n \in Nat /\ n - 1 \in 0..N /\ ~(n <= n - 1)
    BY <2>4, <2>5, <1>0
  <2>7. n - 1 \notin Bad
    <3> HIDE DEF Bad
    <3> QED
      BY <2>3, <2>6
  <2>8. PICK g : Is(n - 1, g)
    BY <2>6, <2>7
  <2> DEFINE h == [i \in 0..n |-> IF i = n THEN Next1(g[i - 1], i) ELSE g[i]]
  <2>9. \A i \in 0..n : h[i] = IF i = 0 THEN EmptyList ELSE Next1(h[i - 1], i)
    <3> TAKE i \in 0..n
    <3>1. i # 0 => i - 1 \in 0..n /\ i - 1 # n
      BY <2>6
    <3>2. CASE i = n
      BY <3>1, <3>2, <2>5
    <3>3. CASE i # n
      <4>1. i \in 0..n - 1 /\ h[i] = g[i] /\ (i # 0 => h[i - 1] = g[i - 1])
        BY <2>6, <3>1, <3>3
      <4>2. g[i] = IF i = 0 THEN EmptyList ELSE Next1(g[i - 1], i)
        BY <2>8, <4>1
      <4> QED
        BY <4>1, <4>2
    <3> QED
      BY <3>2, <3>3
  <2>10. h = [i \in 0..n |-> h[i]]
    OBVIOUS
  <2> HIDE DEF h
  <2>11. Is(n, h)
    BY <2>9, <2>10
  <2> QED
    BY <2>4, <2>11
<1>2. \E g : Is(N, g)
  <2>1. N \in 0..N
    BY <1>0
  <2> HIDE DEF Is
  <2> QED
    BY <1>1, <2>1
<1> DEFINE G == CHOOSE g : Is(N, g)
<1>3. Is(N, G)
  <2> HIDE DEF Is
  <2> QED
    BY <1>2
<1>4. Tables(writes, seq, heights) = G
  BY DEF Tables, Next1, N
<1> HIDE DEF G
<1> QED
  BY <1>3, <1>4 DEF Next1, N

\* The key of a write is newer than all before it.
LEMMA KeyOfIs ==
    ASSUME NEW w \in Writes, NEW s \in Nat, s > 0
    PROVE  /\ KeyOf(w, s) \in TaggedKeys
           /\ Tag(KeyOf(w, s)) > 2 * (s - 1) + 1 /\ Tag(KeyOf(w, s)) <= 2 * s + 1
<1>1. w.key \in UserKeys
  BY DEF Writes
<1>2. CASE w.put
  BY <1>1, <1>2, KeyIs DEF KeyOf, Value, Deletion
<1>3. CASE ~w.put
  BY <1>1, <1>3, KeyIs DEF KeyOf, Value, Deletion
<1> QED
  BY <1>2, <1>3

\* A memtable of writes is in order.
LEMMA MemTableIsInOrder ==
    ASSUME NEW writes \in Seq(Writes), NEW seq \in Nat, seq > 0,
           NEW heights \in [DOMAIN writes -> 1..MaxHeight]
    PROVE  /\ ListInv(MemTable(writes, seq, heights), seq + Len(writes) - 1)
           /\ MemTable(writes, seq, heights).insert = NoInsert
           /\ \A k \in Nodes(MemTable(writes, seq, heights)) : Tag(k) >= 2 * seq
<1> DEFINE g == Tables(writes, seq, heights)
           N == Len(writes)
           Good(i) == /\ ListInv(g[i], seq + i - 1) /\ g[i].insert = NoInsert
                      /\ \A k \in Nodes(g[i]) : Tag(k) >= 2 * seq
           Bad == {i \in 0..N : ~Good(i)}
<1>0. N \in Nat /\ DOMAIN writes = 1..N
  OBVIOUS
<1>1. \A i \in 0..N : g[i] = IF i = 0 THEN EmptyList
                             ELSE Inserted(g[i - 1], KeyOf(writes[i], seq + i - 1), heights[i])
  BY <1>0, TablesIs
<1>2. MemTable(writes, seq, heights) = g[N]
  BY DEF MemTable, Tables
<1> HIDE DEF g
<1>3. Good(0)
  <2>1. g[0] = EmptyList /\ seq + 0 - 1 \in Nat
    BY <1>0, <1>1
  <2>2. EmptyList.insert = NoInsert /\ Nodes(EmptyList) = {}
    BY DEF EmptyList, Nodes
  <2> QED
    BY <2>1, <2>2, EmptyListIsInOrder
<1>4. ASSUME NEW i \in 1..N, Good(i - 1) PROVE Good(i)
  <2> DEFINE last == seq + (i - 1) - 1
             s == seq + i - 1
             key == KeyOf(writes[i], s)
  <2>1. last \in Nat /\ last = s - 1 /\ last = seq + (i - 1) - 1 /\ s \in Nat /\ s > 0
        /\ s = seq + i - 1
    BY <1>0
  <2>2. writes[i] \in Writes /\ heights[i] \in 1..MaxHeight
    BY <1>0
  <2>4. g[i] = Inserted(g[i - 1], key, heights[i])
    BY <1>0, <1>1
  <2>5. ListInv(g[i - 1], last) /\ g[i - 1].insert = NoInsert
    BY <1>4
  <2> HIDE DEF s, last
  <2>3. key \in TaggedKeys /\ Tag(key) > 2 * (s - 1) + 1 /\ Tag(key) <= 2 * s + 1
    BY <2>1, <2>2, KeyOfIs
  <2>6. Tag(key) > 2 * last + 1 /\ Tag(key) <= 2 * (last + 1) + 1
    <3>1. last + 1 = s
      BY <2>1
    <3> QED
      BY <2>1, <2>3, <3>1
  <2> HIDE DEF key
  <2>7. /\ ListInv(g[i], last + 1) /\ g[i].insert = NoInsert
        /\ DOMAIN g[i].next = DOMAIN g[i - 1].next \cup {key}
    BY <2>1, <2>2, <2>3, <2>4, <2>5, <2>6, InsertedIsInOrder
  <2>9. Tag(key) >= 2 * seq
    <3>1. Tag(key) \in Nat /\ s \in Nat /\ i \in 1..N
      BY <2>1, <2>3, KeyParts
    <3>2. s >= seq
      BY <1>0, <2>1
    <3> QED
      BY <2>1, <2>3, <3>1, <3>2
  <2>10. \A k \in Nodes(g[i]) : Tag(k) >= 2 * seq
    <3>1. \A k \in Nodes(g[i - 1]) : Tag(k) >= 2 * seq
      BY <1>4
    <3> QED
      BY <2>7, <2>9, <3>1 DEF Nodes
  <2>8. last + 1 = seq + i - 1
    BY <2>1
  <2> QED
    BY <2>7, <2>8, <2>10
<1>5. Bad = {}
  <2>1. SUFFICES ASSUME Bad # {} PROVE FALSE
    OBVIOUS
  <2>2. Bad \in SUBSET Nat
    OBVIOUS
  <2> HIDE DEF Good
  <2>3. PICK i \in Bad : \A m \in Bad : i <= m
    <3> HIDE DEF Bad
    <3> QED
      BY <2>1, <2>2, LeastNat
  <2>4. i \in 0..N /\ ~Good(i)
    BY <2>3
  <2>5. i \in 1..N /\ i - 1 \in 0..N /\ ~(i <= i - 1)
    <3>1. i # 0
      BY <2>4, <1>3
    <3> QED
      BY <3>1, <2>4, <1>0
  <2>6. i - 1 \notin Bad
    <3> HIDE DEF Bad
    <3> QED
      BY <2>3, <2>5
  <2> QED
    BY <2>4, <2>5, <2>6, <1>4
<1>6. Good(N)
  <2>1. N \in 0..N
    BY <1>0
  <2> HIDE DEF Good
  <2> QED
    BY <2>1, <1>5
<1> QED
  BY <1>2, <1>6

-----------------------------------------------------------------------------
(* The list of the memtable, in every state. *)

\* The numbers of the first writes of the tables, and of the memtable.
FirstNumbers(writes) ==
    LET n == Len(writes)
        seq[i \in 1..(n + 1)] == IF i = 1 THEN 1 ELSE seq[i - 1] + Len(writes[i - 1])
    IN  seq

\* They are positive, and each table begins where the one before it ends.
LEMMA FirstNumbersIs ==
    ASSUME NEW writes \in Seq(Seq(Writes))
    PROVE  /\ FirstNumbers(writes)[Len(writes) + 1] \in Nat \ {0}
           /\ \A i \in 1..(Len(writes) + 1) : FirstNumbers(writes)[i] \in Nat \ {0}
           /\ \A i \in 1..Len(writes) :
                 FirstNumbers(writes)[i + 1] = FirstNumbers(writes)[i] + Len(writes[i])
<1> DEFINE N == Len(writes)
           Is(n, g) == g = [i \in 1..(n + 1) |-> IF i = 1 THEN 1 ELSE g[i - 1] + Len(writes[i - 1])]
           Bad == {n \in 0..N : ~\E g : Is(n, g)}
<1>0. N \in Nat /\ \A i \in 1..N : Len(writes[i]) \in Nat
  <2>1. N \in Nat /\ \A i \in 1..N : writes[i] \in Seq(Writes)
    OBVIOUS
  <2> QED
    BY <2>1
<1> HIDE DEF N
<1>1. Bad = {}
  <2>1. SUFFICES ASSUME Bad # {} PROVE FALSE
    OBVIOUS
  <2>2. Bad \in SUBSET Nat
    <3> HIDE DEF Is
    <3> QED
      BY <1>0
  <2>3. PICK n \in Bad : \A m \in Bad : n <= m
    BY <2>1, <2>2, LeastNat
  <2>4. n \in 0..N /\ ~\E g : Is(n, g)
    BY <2>3
  <2>5. n # 0
    <3>1. SUFFICES ASSUME n = 0 PROVE Is(n, [i \in 1..1 |-> 1])
      BY <2>4
    <3>2. [i \in 1..1 |-> 1] = [i \in 1..(0 + 1) |-> IF i = 1 THEN 1 ELSE
                                   [j \in 1..1 |-> 1][i - 1] + Len(writes[i - 1])]
      OBVIOUS
    <3> QED
      BY <3>1, <3>2
  <2>6. n \in Nat /\ n - 1 \in 0..N /\ ~(n <= n - 1) /\ n - 1 + 1 = n
    BY <2>4, <2>5, <1>0
  <2>7. n - 1 \notin Bad
    <3> HIDE DEF Bad
    <3> QED
      BY <2>3, <2>6
  <2>8. PICK g : Is(n - 1, g)
    BY <2>6, <2>7
  <2> DEFINE h == [i \in 1..(n + 1) |-> IF i = n + 1 THEN g[i - 1] + Len(writes[i - 1]) ELSE g[i]]
  <2>9. \A i \in 1..(n + 1) : h[i] = IF i = 1 THEN 1 ELSE h[i - 1] + Len(writes[i - 1])
    <3> TAKE i \in 1..(n + 1)
    <3>1. (i # 1 => i - 1 \in 1..(n + 1) /\ i - 1 # n + 1) /\ n + 1 # 1
      BY <2>5, <2>6
    <3>2. CASE i = n + 1
      BY <3>1, <3>2
    <3>3. CASE i # n + 1
      <4>1. i \in 1..n /\ h[i] = g[i] /\ (i # 1 => h[i - 1] = g[i - 1])
        BY <2>6, <3>1, <3>3
      <4>2. g = [j \in 1..n |-> IF j = 1 THEN 1 ELSE g[j - 1] + Len(writes[j - 1])]
        BY <2>6, <2>8
      <4>3. g[i] = IF i = 1 THEN 1 ELSE g[i - 1] + Len(writes[i - 1])
        BY <4>1, <4>2
      <4> QED
        BY <4>1, <4>3
    <3> QED
      BY <3>2, <3>3
  <2>10. h = [i \in 1..(n + 1) |-> h[i]]
    OBVIOUS
  <2> HIDE DEF h
  <2>11. Is(n, h)
    BY <2>9, <2>10
  <2> QED
    BY <2>4, <2>11
<1>2. \E g : Is(N, g)
  <2>1. N \in 0..N
    BY <1>0
  <2> HIDE DEF Is
  <2> QED
    BY <1>1, <2>1
<1> DEFINE G == CHOOSE g : Is(N, g)
<1>3. Is(N, G)
  <2> HIDE DEF Is
  <2> QED
    BY <1>2
<1>4. FirstNumbers(writes) = G
  BY DEF FirstNumbers, N
<1> HIDE DEF G
<1>5. \A i \in 1..(N + 1) : G[i] = IF i = 1 THEN 1 ELSE G[i - 1] + Len(writes[i - 1])
  BY <1>3
<1> DEFINE Wrong == {i \in 1..(N + 1) : G[i] \notin Nat \ {0}}
<1>6. Wrong = {}
  <2>1. SUFFICES ASSUME Wrong # {} PROVE FALSE
    OBVIOUS
  <2>2. Wrong \in SUBSET Nat
    BY <1>0
  <2>3. PICK i \in Wrong : \A m \in Wrong : i <= m
    <3> HIDE DEF Wrong
    <3> QED
      BY <2>1, <2>2, LeastNat
  <2>4. i \in 1..(N + 1) /\ G[i] \notin Nat \ {0}
    BY <2>3
  <2>5. i # 1
    BY <2>4, <1>5
  <2>6. i - 1 \in 1..(N + 1) /\ i - 1 \in 1..N /\ ~(i <= i - 1)
    BY <2>4, <2>5, <1>0
  <2>7. i - 1 \notin Wrong
    <3> HIDE DEF Wrong
    <3> QED
      BY <2>3, <2>6
  <2>8. G[i] = G[i - 1] + Len(writes[i - 1]) /\ G[i - 1] \in Nat \ {0} /\ Len(writes[i - 1]) \in Nat
    BY <2>4, <2>5, <2>6, <2>7, <1>0, <1>5
  <2> QED
    BY <2>4, <2>8
<1>7. N + 1 \in 1..(N + 1)
  BY <1>0
<1>8. G[N + 1] \in Nat \ {0} /\ \A i \in 1..(N + 1) : G[i] \in Nat \ {0}
  BY <1>6, <1>7
<1>9. ASSUME NEW i \in 1..N PROVE G[i + 1] = G[i] + Len(writes[i])
  <2>1. i + 1 \in 1..(N + 1) /\ i + 1 # 1 /\ (i + 1) - 1 = i
    BY <1>0
  <2>2. G[i + 1] = G[(i + 1) - 1] + Len(writes[(i + 1) - 1])
    BY <1>5, <2>1
  <2> QED
    BY <2>1, <2>2
<1> QED
  BY <1>4, <1>8, <1>9 DEF N

\* What the steps of a reader leave alone.
LEMMA ReadersDoNotWrite ==
    ASSUME Step
    PROVE  /\ mem' = mem /\ sequence' = sequence
           /\ bounds' = bounds \/ bounds' = [bounds EXCEPT !.unread = @ + 1]
<1> DEFINE Same == /\ mem' = mem /\ sequence' = sequence
                   /\ bounds' = bounds \/ bounds' = [bounds EXCEPT !.unread = @ + 1]
<1>1. ASSUME NEW bad, NEW readable, Faulty(bad, readable)
      PROVE  bounds' = bounds \/ bounds' = [bounds EXCEPT !.unread = @ + 1]
  BY <1>1 DEF Faulty
<1>2. ToNext \/ ToPrev => bounds' = bounds \/ bounds' = [bounds EXCEPT !.unread = @ + 1]
  BY <1>1 DEF ToNext, ToPrev
<1>3. \A op, target : To(op, target) => bounds' = bounds \/ bounds' = [bounds EXCEPT !.unread = @ + 1]
  BY <1>1 DEF To
<1>4. CASE StartForward
  BY <1>3, <1>4 DEF StartForward
<1>5. CASE SeekToLast
  BY <1>3, <1>5 DEF SeekToLast
<1>6. CASE NextForward
  BY <1>6 DEF NextForward
<1>7. CASE NextTurns
  BY <1>2, <1>3, <1>7 DEF NextTurns
<1>8. CASE FindNextUserEntry
  BY <1>2, <1>8 DEF FindNextUserEntry
<1>9. CASE PrevReverse
  BY <1>9 DEF PrevReverse
<1>10. CASE PrevTurns
  BY <1>2, <1>10 DEF PrevTurns
<1>11. CASE FindPrevUserEntry
  BY <1>2, <1>11 DEF FindPrevUserEntry
<1> QED
  BY <1>4, <1>5, <1>6, <1>7, <1>8, <1>9, <1>10, <1>11 DEF Step

(* The links of the memtable's list are in order, whatever insertion is     *)
(* under way: for every number of levels, keys and writes (skiplist.h).     *)
THEOREM ListIsInOrder == Spec => []ListInvariant
<1>1. Init => ListInvariant
  <2> SUFFICES ASSUME Init PROVE ListInvariant
    OBVIOUS
  <2>1. PICK writes \in TableContents, memWrites \in MemContents :
          \E heights \in [DOMAIN memWrites -> 1..MaxHeight] :
              /\ mem = MemTable(memWrites, FirstNumbers(writes)[Len(writes) + 1], heights)
              /\ sequence \in 0..(FirstNumbers(writes)[Len(writes) + 1] + Len(memWrites) - 1)
              /\ bounds = [last |-> FirstNumbers(writes)[Len(writes) + 1] + Len(memWrites) - 1,
                           inserts |-> 0, unread |-> 0]
    BY DEF Init, FirstNumbers
  <2>2. PICK heights \in [DOMAIN memWrites -> 1..MaxHeight] :
              /\ mem = MemTable(memWrites, FirstNumbers(writes)[Len(writes) + 1], heights)
              /\ sequence \in 0..(FirstNumbers(writes)[Len(writes) + 1] + Len(memWrites) - 1)
              /\ bounds = [last |-> FirstNumbers(writes)[Len(writes) + 1] + Len(memWrites) - 1,
                           inserts |-> 0, unread |-> 0]
    BY <2>1
  <2> DEFINE seq == FirstNumbers(writes)[Len(writes) + 1]
             last == seq + Len(memWrites) - 1
  <2>3. writes \in Seq(Seq(Writes)) /\ memWrites \in Seq(Writes)
    BY IteratorsAssumption
  <2>4. seq \in Nat /\ seq > 0
    BY <2>3, FirstNumbersIs
  <2>5. mem = MemTable(memWrites, seq, heights) /\ sequence \in 0..last
        /\ bounds = [last |-> last, inserts |-> 0, unread |-> 0]
    BY <2>2
  <2> HIDE DEF seq
  <2>6. last \in Nat
    BY <2>3, <2>4
  <2>7. ListInv(mem, last)
    BY <2>3, <2>4, <2>5, MemTableIsInOrder
  <2>8. sequence \in Nat /\ bounds.last = last
        /\ bounds = [last |-> bounds.last, inserts |-> bounds.inserts, unread |-> bounds.unread]
    BY <2>5, <2>6
  <2> QED
    BY <2>6, <2>7, <2>8 DEF ListInvariant
<1>2. ListInvariant /\ [Next]_vars => ListInvariant'
  <2> SUFFICES ASSUME ListInvariant, [Next]_vars PROVE ListInvariant'
    OBVIOUS
  <2>0. /\ bounds.last \in Nat /\ sequence \in Nat /\ ListInv(mem, bounds.last)
        /\ bounds = [last |-> bounds.last, inserts |-> bounds.inserts, unread |-> bounds.unread]
    BY DEF ListInvariant
  <2>1. ASSUME NEW c \in Calls, Ask(c) PROVE ListInvariant'
    BY <2>0, <2>1 DEF Ask, ListInvariant
  <2>2. ASSUME NEW k \in UserKeys, NEW put \in BOOLEAN, NEW height \in 1..MaxHeight,
               Insert(k, put, height)
        PROVE  ListInvariant'
    <3> DEFINE last == bounds.last
               w == [key |-> k, put |-> put]
               key == KeyOf(w, last + 1)
               begun == BeginInsert(mem, key, height)
    <3>1. /\ mem.insert = NoInsert /\ mem' = Link(begun) /\ sequence' = sequence
          /\ bounds' = [bounds EXCEPT !.last = @ + 1, !.inserts = @ + 1]
      BY <2>2 DEF Insert
    <3>2. /\ bounds'.last = last + 1 /\ last + 1 \in Nat
          /\ bounds' = [last |-> bounds'.last, inserts |-> bounds'.inserts, unread |-> bounds'.unread]
      <4>1. bounds' = [last |-> last + 1, inserts |-> bounds.inserts + 1, unread |-> bounds.unread]
        BY <2>0, <3>1
      <4> HIDE DEF last
      <4>2. bounds'.last = last + 1 /\ bounds'.inserts = bounds.inserts + 1
            /\ bounds'.unread = bounds.unread
        BY <4>1
      <4>3. last + 1 \in Nat
        BY <2>0 DEF last
      <4> QED
        BY <4>1, <4>2, <4>3
    <3>3. w \in Writes
      BY DEF Writes
    <3>4. key \in TaggedKeys /\ Tag(key) > 2 * last + 1 /\ Tag(key) <= 2 * (last + 1) + 1
      <4> DEFINE s == last + 1
      <4>1. s \in Nat /\ s > 0 /\ s - 1 = last
        BY <2>0
      <4> HIDE DEF s, w
      <4>2. KeyOf(w, s) \in TaggedKeys
            /\ Tag(KeyOf(w, s)) > 2 * (s - 1) + 1 /\ Tag(KeyOf(w, s)) <= 2 * s + 1
        BY <3>3, <4>1, KeyOfIs
      <4> QED
        BY <4>1, <4>2 DEF s
    <3> HIDE DEF key
    <3>5. ListInv(begun, last + 1) /\ begun.insert # NoInsert
      BY <2>0, <3>1, <3>4, BeginKeepsOrder
    <3> HIDE DEF begun
    <3>6. ListInv(mem', last + 1)
      BY <3>1, <3>5, LinkKeepsOrder
    <3> QED
      BY <2>0, <3>1, <3>2, <3>6 DEF ListInvariant
  <2>3. CASE GoOnInserting
    <3>1. mem.insert # NoInsert /\ mem' = Link(mem) /\ sequence' = sequence /\ bounds' = bounds
      BY <2>3 DEF GoOnInserting
    <3>2. ListInv(mem', bounds.last)
      BY <2>0, <3>1, LinkKeepsOrder
    <3> QED
      BY <2>0, <3>1, <3>2 DEF ListInvariant
  <2>4. CASE Step
    <3>1. /\ mem' = mem /\ sequence' = sequence
          /\ bounds' = bounds \/ bounds' = [bounds EXCEPT !.unread = @ + 1]
      BY <2>4, ReadersDoNotWrite
    <3>2. /\ bounds'.last = bounds.last
          /\ bounds' = [last |-> bounds'.last, inserts |-> bounds'.inserts, unread |-> bounds'.unread]
      BY <2>0, <3>1
    <3> QED
      BY <2>0, <3>1, <3>2 DEF ListInvariant
  <2>5. CASE UNCHANGED vars
    BY <2>0, <2>5 DEF vars, ListInvariant
  <2> QED
    BY <2>1, <2>2, <2>3, <2>4, <2>5 DEF Next
<1> QED
  BY <1>1, <1>2, PTL DEF Spec

(* A reader that walks through the list without a lock, while links are     *)
(* set, ends where the lowest list says, for every number of levels and of  *)
(* keys: "reads progress without any internal locking" (skiplist.h:14).     *)
THEOREM SearchesFindTheirPlace == Spec => []SearchesAgree
<1>1. ListInvariant => SearchesAgree
  <2> DEFINE Met(l) == {Head0} \cup UNION {Chain(mem, h) : h \in l..MaxHeight}
             Targets == Chain(mem, 1) \cup {Key(k, sequence, Value) : k \in UserKeys}
             Behind(key) == {Head0} \cup {x \in Chain(mem, 1) : Less(x, key)}
             IsLast(x, X) == x \in X /\ \A y \in X \ {x, Head0} : x # Head0 /\ Less(y, x)
  <2> SUFFICES ASSUME ListInvariant, NEW l \in 1..MaxHeight, NEW key \in Targets, NEW x \in Met(l),
                      x = Head0 \/ Less(x, key)
               PROVE  IsLast(SearchFor(mem, x, l, 1, key), Behind(key))
    BY DEF SearchesAgree
  <2>1. LinksInv(mem) /\ LevelsInv(mem) /\ sequence \in Nat
    BY DEF ListInvariant, ListInv
  <2>2. MaxHeight \in Nat /\ 1 \in 1..MaxHeight /\ 1 \in 1..l
    BY SkipListAssumption
  <2>3. Chain(mem, 1) \subseteq TaggedKeys
    <3>1. Head0 \in On(mem, 1)
      BY DEF On
    <3> QED
      BY <3>1, <2>1, <2>2, LinkIs
  <2>4. key \in TaggedKeys
    <3>1. \A k \in UserKeys : Key(k, sequence, Value) \in TaggedKeys
      BY <2>1, KeyIs
    <3> QED
      BY <3>1, <2>3
  <2>5. x \in On(mem, l)
    <3>1. \A h \in l..MaxHeight : h \in 1..MaxHeight /\ l \in 1..h
      BY <2>2
    <3>2. \A h \in l..MaxHeight : Chain(mem, h) \subseteq Chain(mem, l)
      BY <3>1, <2>1 DEF LevelsInv
    <3> QED
      BY <3>2 DEF On
  <2> DEFINE r == SearchFor(mem, x, l, 1, key)
  <2>6. /\ r \in On(mem, 1) /\ IsBefore(r, key)
        /\ \A y \in Chain(mem, 1) : Less(y, key) => y = r \/ (r # Head0 /\ Less(y, r))
    BY <2>1, <2>2, <2>4, <2>5, SearchForEnds DEF IsBefore
  <2> HIDE DEF r
  <2> QED
    BY <2>6 DEF On, IsBefore, r
<1> QED
  BY <1>1, ListIsInOrder, PTL

-----------------------------------------------------------------------------
(* Recursion on numbers. *)

\* Induction, with a set in place of a predicate.
LEMMA Induction ==
    ASSUME NEW N \in Nat, NEW T, 0 \in T, \A i \in 1..N : i - 1 \in T => i \in T
    PROVE  \A i \in 0..N : i \in T
<1> DEFINE Bad == {i \in 0..N : i \notin T}
<1>1. SUFFICES ASSUME Bad # {} PROVE FALSE
  OBVIOUS
<1>2. Bad \in SUBSET Nat
  OBVIOUS
<1>3. PICK n \in Bad : \A m \in Bad : n <= m
  <2> HIDE DEF Bad
  <2> QED
    BY <1>1, <1>2, LeastNat
<1>4. n \in 0..N /\ n \notin T
  BY <1>3
<1>5. n # 0
  BY <1>4
<1>6. n \in 1..N /\ n - 1 \in 0..N /\ ~(n <= n - 1)
  BY <1>4, <1>5
<1>7. n - 1 \in T
  <2>1. n - 1 \notin Bad
    <3> HIDE DEF Bad
    <3> QED
      BY <1>3, <1>6
  <2> QED
    BY <2>1, <1>6
<1> QED
  BY <1>4, <1>6, <1>7

\* A function defined by recursion up to N exists.
Iterates(G, N, x, s) ==
    {f \in [0..N -> G] : \A i \in 0..N : f[i] = IF i = 0 THEN x ELSE s[<<i, f[i - 1]>>]}

\* There is one.
LEMMA Recursion ==
    ASSUME NEW G, NEW N \in Nat, NEW x \in G, NEW s \in [(1..N) \X G -> G]
    PROVE  Iterates(G, N, x, s) # {}
<1> DEFINE T == {n \in 0..N : Iterates(G, n, x, s) # {}}
<1>1. 0 \in T
  <2> DEFINE f == [i \in 0..0 |-> x]
  <2>1. f \in [0..0 -> G] /\ \A i \in 0..0 : f[i] = IF i = 0 THEN x ELSE s[<<i, f[i - 1]>>]
    OBVIOUS
  <2> HIDE DEF f
  <2>2. f \in Iterates(G, 0, x, s)
    BY <2>1 DEF Iterates
  <2> QED
    BY <2>2
<1>2. ASSUME NEW n \in 1..N, n - 1 \in T PROVE n \in T
  <2>1. n - 1 \in Nat /\ n \in 0..N /\ n \notin 0..(n - 1)
    OBVIOUS
  <2>2. PICK f \in Iterates(G, n - 1, x, s) : TRUE
    BY <1>2
  <2>3. f \in [0..(n - 1) -> G]
        /\ \A i \in 0..(n - 1) : f[i] = IF i = 0 THEN x ELSE s[<<i, f[i - 1]>>]
    BY <2>2 DEF Iterates
  <2> DEFINE h == [i \in 0..n |-> IF i = n THEN s[<<n, f[n - 1]>>] ELSE f[i]]
  <2>4. f[n - 1] \in G /\ s[<<n, f[n - 1]>>] \in G
    <3>1. f[n - 1] \in G
      BY <2>3, <2>1
    <3>2. <<n, f[n - 1]>> \in (1..N) \X G
      BY <3>1
    <3> QED
      BY <3>1, <3>2
  <2>5. h \in [0..n -> G]
    <3>1. \A i \in 0..n : h[i] \in G
      <4> TAKE i \in 0..n
      <4>1. i # n => i \in 0..(n - 1)
        OBVIOUS
      <4> QED
        BY <4>1, <2>3, <2>4
    <3> QED
      BY <3>1
  <2>6. ASSUME NEW i \in 0..n PROVE h[i] = IF i = 0 THEN x ELSE s[<<i, h[i - 1]>>]
    <3>1. CASE i = n
      <4>1. i # 0 /\ i - 1 \in 0..n /\ i - 1 # n
        BY <3>1
      <4>2. h[i - 1] = f[n - 1]
        BY <4>1, <3>1
      <4> QED
        BY <4>1, <4>2, <3>1
    <3>2. CASE i # n
      <4>1. i \in 0..(n - 1) /\ (i # 0 => i - 1 \in 0..n /\ i - 1 # n)
        BY <3>2
      <4>2. h[i] = f[i] /\ (i # 0 => h[i - 1] = f[i - 1])
        BY <4>1, <3>2
      <4>3. f[i] = IF i = 0 THEN x ELSE s[<<i, f[i - 1]>>]
        BY <4>1, <2>3
      <4> QED
        BY <4>2, <4>3
    <3> QED
      BY <3>1, <3>2
  <2> HIDE DEF h
  <2>7. h \in Iterates(G, n, x, s)
    BY <2>5, <2>6 DEF Iterates
  <2> QED
    BY <2>7, <2>1
<1> HIDE DEF T
<1>3. N \in T
  <2>1. N \in 0..N
    OBVIOUS
  <2> QED
    BY <1>1, <1>2, <2>1, Induction
<1> QED
  BY <1>3 DEF T

-----------------------------------------------------------------------------
(* The iterator of a block. *)

\* The largest of some numbers is one of them.
LEMMA MaxIs ==
    ASSUME NEW n \in Nat, NEW S \in SUBSET (0..n), S # {}
    PROVE  Max(S) \in S /\ \A y \in S : Max(S) >= y
<1> DEFINE T == {n - y : y \in S}
<1>1. T \in SUBSET Nat /\ T # {}
  <2>1. \A y \in S : n - y \in Nat
    OBVIOUS
  <2>2. PICK y \in S : TRUE
    OBVIOUS
  <2> QED
    BY <2>1, <2>2
<1>2. PICK m \in T : \A k \in T : m <= k
  <2> HIDE DEF T
  <2> QED
    BY <1>1, LeastNat
<1>3. PICK x \in S : m = n - x
  BY <1>2
<1>4. \A y \in S : x >= y
  <2> TAKE y \in S
  <2>1. n - y \in T /\ x \in 0..n /\ y \in 0..n
    OBVIOUS
  <2>2. m <= n - y
    <3> HIDE DEF T
    <3> QED
      BY <1>2, <2>1
  <2> QED
    BY <2>1, <2>2, <1>3
<1>5. \E z \in S : \A y \in S : z >= y
  BY <1>4
<1> QED
  BY <1>5 DEF Max

\* What the definition of a block's contents says, once and for all.
LEMMA HoldsIs ==
    ASSUME NEW b, NEW K, Holds(b, K)
    PROVE  /\ Len(K) \in Nat /\ DOMAIN K = 1..Len(K) /\ Limit(b) = Len(K) + 1
           /\ \A i \in 1..Len(K) : /\ K[i] \in Seq(Nat) /\ K[i] # <<>>
                                   /\ b.entries[i].shared \in Nat /\ b.entries[i].value \in Nat
                                   /\ b.entries[i].delta \in Seq(Nat)
           /\ Len(b.restarts) \in Nat /\ Len(b.restarts) >= 1
           /\ DOMAIN b.restarts = 1..Len(b.restarts)
           /\ \A r \in DOMAIN b.restarts : /\ b.restarts[r] \in 1..(Len(K) + 1)
                                           /\ r # 1 => b.restarts[r] \in 1..Len(K)
                                           /\ Len(K) > 0 => b.restarts[r] \in 1..Len(K)
<1>1. K \in Seq(StoredKeys) /\ b.restarts \in Seq(Nat) /\ b.restarts # <<>> /\ b.restarts[1] = 1
      /\ b.entries \in Seq([shared : Nat, value : Nat, delta : Seq(Nat)])
      /\ Len(K) = Len(b.entries) /\ \A r \in DOMAIN b.restarts \ {1} : b.restarts[r] \in DOMAIN K
  BY DEF Holds
<1>2. Len(K) \in Nat /\ DOMAIN K = 1..Len(K) /\ Limit(b) = Len(K) + 1
  BY <1>1 DEF Limit
<1>3. \A i \in 1..Len(K) : K[i] \in StoredKeys
  BY <1>1, <1>2
<1>4. \A i \in 1..Len(K) : b.entries[i] \in [shared : Nat, value : Nat, delta : Seq(Nat)]
  <2> DEFINE R == [shared : Nat, value : Nat, delta : Seq(Nat)]
  <2>1. b.entries \in Seq(R)
    BY <1>1
  <2> HIDE DEF R
  <2>2. \A i \in 1..Len(b.entries) : b.entries[i] \in R
    BY <2>1
  <2> QED
    BY <1>1, <2>2 DEF R
<1>5. Len(b.restarts) \in Nat /\ Len(b.restarts) >= 1 /\ DOMAIN b.restarts = 1..Len(b.restarts)
  BY <1>1
<1>6. \A r \in DOMAIN b.restarts : /\ b.restarts[r] \in 1..(Len(K) + 1)
                                   /\ r # 1 => b.restarts[r] \in 1..Len(K)
                                   /\ Len(K) > 0 => b.restarts[r] \in 1..Len(K)
  BY <1>1, <1>2
<1> QED
  BY <1>2, <1>3, <1>4, <1>5, <1>6 DEF StoredKeys

\* The iterator has at hand what the next entry shares.
Ready(b, K, it) ==
    /\ it \in IterStates(b)
    /\ it.restart \in DOMAIN b.restarts /\ b.restarts[it.restart] <= it.next
    /\ it.next \in DOMAIN K =>
          LET e == b.entries[it.next]
          IN  e.shared <= Len(it.key) /\ K[it.next] = SubSeq(it.key, 1, e.shared) \o e.delta

\* A restart point needs nothing of what was read before.
LEMMA ReadyAtRestart ==
    ASSUME NEW b, NEW K, Holds(b, K), NEW it \in IterStates(b), NEW r \in DOMAIN b.restarts
    PROVE  LET s == SeekToRestartPoint(b, it, r)
           IN  Ready(b, K, s) /\ s.next = b.restarts[r]
<1> DEFINE s == SeekToRestartPoint(b, it, r)
           n == b.restarts[r]
<1>1. n \in 1..Limit(b) /\ r \in Nat
  BY HoldsIs
<1>2. /\ s.current = it.current /\ s.next = n /\ s.restart = r /\ s.key = <<>>
      /\ s.value = it.value /\ s.corrupt = it.corrupt /\ s \in IterStates(b)
  <2>1. s = [it EXCEPT !.key = <<>>, !.restart = r, !.next = n]
    BY DEF SeekToRestartPoint
  <2>2. /\ it = [current |-> it.current, next |-> it.next, restart |-> it.restart,
                 key |-> it.key, value |-> it.value, corrupt |-> it.corrupt]
        /\ it.current \in 1..Limit(b) /\ it.value \in Nat /\ it.corrupt \in {FALSE}
    BY DEF IterStates
  <2> HIDE DEF n, s
  <2>3. s = [current |-> it.current, next |-> n, restart |-> r,
             key |-> <<>>, value |-> it.value, corrupt |-> it.corrupt]
    BY <2>1, <2>2
  <2>4. <<>> \in Seq(Nat)
    OBVIOUS
  <2>5. s \in IterStates(b)
    BY <2>2, <2>3, <2>4, <1>1 DEF IterStates
  <2> QED
    BY <2>3, <2>5
<1>3. ASSUME n \in DOMAIN K
      PROVE  /\ b.entries[n].shared <= Len(<<>>)
             /\ K[n] = SubSeq(<<>>, 1, b.entries[n].shared) \o b.entries[n].delta
  <2>1. n \in 1..Len(K) /\ b.entries[n].delta \in Seq(Nat)
    BY <1>3, HoldsIs
  <2>2. b.entries[n].shared = 0
    BY <1>3 DEF Holds
  <2>3. \/ b.entries[n].delta = K[n]
        \/ K[n - 1] \in Seq(Nat) /\ K[n] = SubSeq(K[n - 1], 1, 0) \o b.entries[n].delta
    <3>1. \/ b.entries[n].shared = 0 /\ b.entries[n].delta = K[n]
          \/ n > 1 /\ K[n] = SubSeq(K[n - 1], 1, b.entries[n].shared) \o b.entries[n].delta
      BY <1>3 DEF Holds
    <3>2. n > 1 => n - 1 \in 1..Len(K)
      BY <2>1
    <3>3. n > 1 => K[n - 1] \in Seq(Nat)
      BY <3>2, HoldsIs
    <3> QED
      BY <3>1, <3>3, <2>2
  <2>4. \A a \in Seq(Nat) : SubSeq(a, 1, 0) = <<>> /\ <<>> \o a = a
    OBVIOUS
  <2>5. <<>> \in Seq(Nat) /\ Len(<<>>) = 0
    OBVIOUS
  <2>6. b.entries[n].delta = K[n]
    BY <2>1, <2>3, <2>4
  <2>7. SubSeq(<<>>, 1, b.entries[n].shared) \o b.entries[n].delta = b.entries[n].delta
    BY <2>1, <2>2, <2>4, <2>5
  <2>8. b.entries[n].shared <= Len(<<>>)
    BY <2>2, <2>5
  <2> QED
    BY <2>6, <2>7, <2>8
<1>4. Ready(b, K, s)
  <2> HIDE DEF s, n
  <2>1. s.next = n /\ n <= n
    BY <1>1, <1>2 DEF Limit
  <2> QED
    BY <1>2, <1>3, <2>1 DEF Ready, n
<1> QED
  BY <1>2, <1>4

\* At an entry, the iterator has the key that the next one shares.
LEMMA ReadyWhenValid ==
    ASSUME NEW b, NEW K, Holds(b, K), NEW it \in BlockIters(b, K), IterValid(b, it)
    PROVE  /\ Ready(b, K, it) /\ it.next = it.current + 1 /\ it.current \in 1..Len(K)
           /\ it.key = K[it.current]
<1>1. /\ it \in IterStates(b) /\ it.next = it.current + 1 /\ it.key = K[it.current]
      /\ it.restart \in DOMAIN b.restarts /\ b.restarts[it.restart] <= it.current
  BY DEF BlockIters
<1>2. it.current \in 1..Len(K)
  <2>1. it.current \in 1..Limit(b) /\ it.current < Limit(b)
    BY <1>1 DEF IterStates, IterValid
  <2> QED
    BY <2>1, HoldsIs
<1>3. b.restarts[it.restart] <= it.next
  <2>1. b.restarts[it.restart] \in 1..(Len(K) + 1) /\ Len(K) \in Nat
    BY <1>1, HoldsIs
  <2> QED
    BY <2>1, <1>1, <1>2
<1>4. ASSUME it.next \in DOMAIN K
      PROVE  LET e == b.entries[it.next]
             IN  e.shared <= Len(it.key) /\ K[it.next] = SubSeq(it.key, 1, e.shared) \o e.delta
  <2> DEFINE n == it.next
             e == b.entries[n]
  <2>1. n \in 1..Len(K) /\ n - 1 = it.current /\ it.key \in Seq(Nat)
    BY <1>1, <1>2, <1>4, HoldsIs
  <2>2. e.delta \in Seq(Nat) /\ K[n] \in Seq(Nat)
    BY <2>1, HoldsIs
  <2>3. \/ e.shared = 0 /\ e.delta = K[n]
        \/ e.shared <= Len(K[n - 1]) /\ K[n] = SubSeq(K[n - 1], 1, e.shared) \o e.delta
    BY <1>4 DEF Holds
  <2>4. \A a \in Seq(Nat) : SubSeq(a, 1, 0) = <<>> /\ Len(a) >= 0
    OBVIOUS
  <2>5. <<>> \o e.delta = e.delta
    BY <2>2
  <2> HIDE DEF n, e
  <2>6. e.shared <= Len(it.key) /\ K[n] = SubSeq(it.key, 1, e.shared) \o e.delta
    <3>1. CASE e.shared = 0 /\ e.delta = K[n]
      <4>1. SubSeq(it.key, 1, 0) = <<>> /\ 0 <= Len(it.key)
        BY <2>1, <2>4
      <4> QED
        BY <4>1, <2>5, <3>1
    <3>2. CASE e.shared <= Len(K[n - 1]) /\ K[n] = SubSeq(K[n - 1], 1, e.shared) \o e.delta
      BY <3>2, <2>1, <1>1
    <3> QED
      BY <2>3, <3>1, <3>2
  <2> QED
    BY <2>6 DEF n, e
<1> QED
  BY <1>1, <1>2, <1>3, <1>4 DEF Ready

\* ParseNextKey decodes the key that was added.
LEMMA ParseIs ==
    ASSUME NEW b, NEW K, Holds(b, K), NEW it, Ready(b, K, it)
    PROVE  LET p == ParseNextKey(b, it)
           IN  /\ p \in BlockIters(b, K) /\ p.current = it.next
               /\ IterValid(b, p) <=> it.next <= Len(K)
<1> DEFINE p == ParseNextKey(b, it)
           n == it.next
           e == b.entries[n]
<1>1. /\ it \in IterStates(b) /\ it.restart \in DOMAIN b.restarts
      /\ b.restarts[it.restart] <= n
  BY DEF Ready
<1>2. n \in 1..Limit(b) /\ Limit(b) = Len(K) + 1 /\ Len(K) \in Nat /\ DOMAIN K = 1..Len(K)
  BY <1>1, HoldsIs DEF IterStates
<1>3. Len(b.restarts) \in Nat /\ DOMAIN b.restarts = 1..Len(b.restarts)
      /\ \A r \in DOMAIN b.restarts : b.restarts[r] \in Nat
  BY HoldsIs
<1>4. CASE n = Limit(b)
  <2>1. p = [it EXCEPT !.current = Limit(b), !.restart = Len(b.restarts) + 1]
    BY <1>4 DEF ParseNextKey, Exhausted
  <2>2. p \in IterStates(b) /\ p.current = n
    <3>1. Limit(b) \in 1..Limit(b) /\ Len(b.restarts) + 1 \in Nat
      BY <1>2, <1>3
    <3> HIDE DEF p, n
    <3> QED
      BY <2>1, <1>1, <1>4, <3>1 DEF IterStates
  <2>3. ~IterValid(b, p) /\ ~(n <= Len(K))
    BY <2>2, <1>2, <1>4 DEF IterValid
  <2> HIDE DEF p, n
  <2> QED
    BY <2>2, <2>3 DEF BlockIters, p, n
<1>5. CASE n # Limit(b)
  <2>1. n \in 1..Len(K) /\ n \in DOMAIN K
    BY <1>2, <1>5
  <2>2. e.shared <= Len(it.key) /\ K[n] = SubSeq(it.key, 1, e.shared) \o e.delta
    BY <2>1 DEF Ready
  <2>3. e.shared \in Nat /\ e.value \in Nat /\ K[n] \in Seq(Nat)
    BY <2>1, HoldsIs
  <2>4. it.key \in Seq(Nat)
    BY <1>1 DEF IterStates
  <2>5. ~(Len(it.key) < e.shared)
    <3>1. Len(it.key) \in Nat
      BY <2>4
    <3> HIDE DEF e
    <3> QED
      BY <3>1, <2>2, <2>3
  <2>6. p = [it EXCEPT !.current = n, !.next = n + 1, !.value = e.value, !.key = K[n],
                       !.restart = RestartUpTo(b, it)]
    BY <2>2, <2>5, <1>5 DEF ParseNextKey
  <2> DEFINE S == {it.restart} \cup {r \in DOMAIN b.restarts : b.restarts[r] < n}
             m == RestartUpTo(b, it)
  <2>7. m \in DOMAIN b.restarts /\ b.restarts[m] <= n /\ m \in Nat
    <3>1. S \in SUBSET (0..Len(b.restarts)) /\ S # {}
      BY <1>1, <1>3
    <3>2. Max(S) \in S
      <4> HIDE DEF S
      <4> QED
        BY <3>1, <1>3, MaxIs
    <3>3. m = Max(S)
      BY DEF RestartUpTo
    <3>4. \A r \in S : r \in DOMAIN b.restarts /\ b.restarts[r] <= n /\ r \in Nat
      BY <1>1, <1>2, <1>3
    <3> HIDE DEF S, m
    <3> QED
      BY <3>2, <3>3, <3>4
  <2> HIDE DEF m, S, e
  <2>8. /\ p.current = n /\ p.next = n + 1 /\ p.value = e.value /\ p.key = K[n] /\ p.restart = m
        /\ p.corrupt = it.corrupt /\ p \in IterStates(b)
    <3>1. n + 1 \in 1..Limit(b)
      BY <1>2, <2>1
    <3> HIDE DEF p, n
    <3> QED
      BY <2>6, <2>7, <2>3, <1>1, <1>2, <3>1 DEF IterStates, m
  <2> HIDE DEF p
  <2>9. p \in BlockIters(b, K)
    BY <2>7, <2>8 DEF BlockIters, e
  <2>10. IterValid(b, p) /\ n <= Len(K)
    BY <2>1, <2>8, <1>2 DEF IterValid
  <2> QED
    BY <2>8, <2>9, <2>10 DEF p
<1> QED
  BY <1>4, <1>5

\* The function with which ParseToEnd computes.
ParsedToEnd(b, it, end) ==
    LET parsed[n \in 0..Limit(b)] ==
            IF n = 0 THEN ParseNextKey(b, it)
            ELSE LET s == parsed[n - 1]
                 IN  IF ~IterValid(b, s) \/ s.next >= end THEN s ELSE ParseNextKey(b, s)
    IN  parsed

\* It is what its definition says, and every turn leaves an iterator of the block.
LEMMA ParsedToEndIs ==
    ASSUME NEW b, NEW K, Holds(b, K), NEW it, Ready(b, K, it), NEW end
    PROVE  LET g == ParsedToEnd(b, it, end)
           IN  \A n \in 0..Limit(b) :
                  /\ g[n] \in BlockIters(b, K)
                  /\ g[n] = IF n = 0 THEN ParseNextKey(b, it)
                            ELSE IF ~IterValid(b, g[n - 1]) \/ g[n - 1].next >= end THEN g[n - 1]
                            ELSE ParseNextKey(b, g[n - 1])
<1> DEFINE L == Limit(b)
           G == BlockIters(b, K)
           First == ParseNextKey(b, it)
           Turn(s) == IF ~IterValid(b, s) \/ s.next >= end THEN s ELSE ParseNextKey(b, s)
           turn == [x \in (1..L) \X G |-> Turn(x[2])]
           Is(g) == g = [n \in 0..L |-> IF n = 0 THEN First ELSE Turn(g[n - 1])]
<1>1. L \in Nat /\ First \in G
  BY HoldsIs, ParseIs
<1>2. ASSUME NEW s \in G PROVE Turn(s) \in G
  <2>1. CASE IterValid(b, s)
    <3>1. Ready(b, K, s)
      BY <2>1, ReadyWhenValid
    <3>2. ParseNextKey(b, s) \in G
      BY <3>1, ParseIs
    <3> QED
      BY <3>2
  <2> QED
    BY <2>1
<1> HIDE DEF L, G, First, Turn
<1>3. turn \in [(1..L) \X G -> G]
  BY <1>2
<1>4. PICK f \in Iterates(G, L, First, turn) : TRUE
  <2> HIDE DEF turn
  <2> QED
    BY <1>1, <1>3, Recursion
<1>5. Is(f)
  <2>1. f \in [0..L -> G] /\ \A i \in 0..L : f[i] = IF i = 0 THEN First ELSE turn[<<i, f[i - 1]>>]
    BY <1>4 DEF Iterates
  <2>2. \A i \in 0..L : f[i] = IF i = 0 THEN First ELSE Turn(f[i - 1])
    <3> TAKE i \in 0..L
    <3>1. i # 0 => i \in 1..L /\ i - 1 \in 0..L
      BY <1>1
    <3>2. i # 0 => <<i, f[i - 1]>> \in (1..L) \X G
      BY <3>1, <2>1
    <3>3. i # 0 => turn[<<i, f[i - 1]>>] = Turn(f[i - 1])
      BY <3>2
    <3> HIDE DEF turn
    <3> QED
      BY <2>1, <3>3
  <2> HIDE DEF turn
  <2> QED
    BY <2>1, <2>2
<1> DEFINE g == CHOOSE h : Is(h)
<1>6. Is(g)
  <2> HIDE DEF Is
  <2> QED
    BY <1>5
<1>7. g = ParsedToEnd(b, it, end)
  BY DEF ParsedToEnd, Turn, First, L
<1> HIDE DEF g
<1>8. \A n \in 0..L : g[n] = IF n = 0 THEN First ELSE Turn(g[n - 1])
  BY <1>6
<1> DEFINE T == {n \in 0..L : g[n] \in G}
<1>9. 0 \in T /\ \A n \in 1..L : n - 1 \in T => n \in T
  <2>1. 0 \in 0..L /\ \A n \in 1..L : n \in 0..L /\ n # 0
    BY <1>1
  <2> QED
    BY <1>1, <1>2, <1>8, <2>1
<1>10. \A n \in 0..L : n \in T
  <2> HIDE DEF T
  <2> QED
    BY <1>1, <1>9, Induction
<1> QED
  BY <1>7, <1>8, <1>10 DEF Turn, First, L, G

\* The function with which ParseToKey computes.
ParsedToKey(b, it, target) ==
    LET parsed[n \in 0..Limit(b)] ==
            IF n = 0 THEN ParseNextKey(b, it)
            ELSE LET s == parsed[n - 1]
                 IN  IF ~IterValid(b, s) \/ ~Less(s.key, target) THEN s ELSE ParseNextKey(b, s)
    IN  parsed

\* The same.
LEMMA ParsedToKeyIs ==
    ASSUME NEW b, NEW K, Holds(b, K), NEW it, Ready(b, K, it), NEW target
    PROVE  LET g == ParsedToKey(b, it, target)
           IN  \A n \in 0..Limit(b) :
                  /\ g[n] \in BlockIters(b, K)
                  /\ g[n] = IF n = 0 THEN ParseNextKey(b, it)
                            ELSE IF ~IterValid(b, g[n - 1]) \/ ~Less(g[n - 1].key, target) THEN g[n - 1]
                            ELSE ParseNextKey(b, g[n - 1])
<1> DEFINE L == Limit(b)
           G == BlockIters(b, K)
           First == ParseNextKey(b, it)
           Turn(s) == IF ~IterValid(b, s) \/ ~Less(s.key, target) THEN s ELSE ParseNextKey(b, s)
           turn == [x \in (1..L) \X G |-> Turn(x[2])]
           Is(g) == g = [n \in 0..L |-> IF n = 0 THEN First ELSE Turn(g[n - 1])]
<1>1. L \in Nat /\ First \in G
  BY HoldsIs, ParseIs
<1>2. ASSUME NEW s \in G PROVE Turn(s) \in G
  <2>1. CASE IterValid(b, s)
    <3>1. Ready(b, K, s)
      BY <2>1, ReadyWhenValid
    <3>2. ParseNextKey(b, s) \in G
      BY <3>1, ParseIs
    <3> QED
      BY <3>2
  <2> QED
    BY <2>1
<1> HIDE DEF L, G, First, Turn
<1>3. turn \in [(1..L) \X G -> G]
  BY <1>2
<1>4. PICK f \in Iterates(G, L, First, turn) : TRUE
  <2> HIDE DEF turn
  <2> QED
    BY <1>1, <1>3, Recursion
<1>5. Is(f)
  <2>1. f \in [0..L -> G] /\ \A i \in 0..L : f[i] = IF i = 0 THEN First ELSE turn[<<i, f[i - 1]>>]
    BY <1>4 DEF Iterates
  <2>2. \A i \in 0..L : f[i] = IF i = 0 THEN First ELSE Turn(f[i - 1])
    <3> TAKE i \in 0..L
    <3>1. i # 0 => i \in 1..L /\ i - 1 \in 0..L
      BY <1>1
    <3>2. i # 0 => <<i, f[i - 1]>> \in (1..L) \X G
      BY <3>1, <2>1
    <3>3. i # 0 => turn[<<i, f[i - 1]>>] = Turn(f[i - 1])
      BY <3>2
    <3> HIDE DEF turn
    <3> QED
      BY <2>1, <3>3
  <2> HIDE DEF turn
  <2> QED
    BY <2>1, <2>2
<1> DEFINE g == CHOOSE h : Is(h)
<1>6. Is(g)
  <2> HIDE DEF Is
  <2> QED
    BY <1>5
<1>7. g = ParsedToKey(b, it, target)
  BY DEF ParsedToKey, Turn, First, L
<1> HIDE DEF g
<1>8. \A n \in 0..L : g[n] = IF n = 0 THEN First ELSE Turn(g[n - 1])
  BY <1>6
<1> DEFINE T == {n \in 0..L : g[n] \in G}
<1>9. 0 \in T /\ \A n \in 1..L : n - 1 \in T => n \in T
  <2>1. 0 \in 0..L /\ \A n \in 1..L : n \in 0..L /\ n # 0
    BY <1>1
  <2> QED
    BY <1>1, <1>2, <1>8, <2>1
<1>10. \A n \in 0..L : n \in T
  <2> HIDE DEF T
  <2> QED
    BY <1>1, <1>9, Induction
<1> QED
  BY <1>7, <1>8, <1>10 DEF Turn, First, L, G

\* Where an iterator of a block is.
LEMMA ItersIs ==
    ASSUME NEW b, NEW K, Holds(b, K), NEW it \in BlockIters(b, K)
    PROVE  /\ it \in IterStates(b) /\ it.next \in Nat /\ it.current \in 1..(Len(K) + 1)
           /\ IterValid(b, it) <=> it.current <= Len(K)
           /\ IterValid(b, it) => it.next = it.current + 1 /\ it.key = K[it.current]
<1>1. it \in IterStates(b) /\ (IterValid(b, it) => it.next = it.current + 1 /\ it.key = K[it.current])
  BY DEF BlockIters
<1>2. it.next \in 1..Limit(b) /\ it.current \in 1..Limit(b)
  BY <1>1 DEF IterStates
<1>3. Limit(b) = Len(K) + 1 /\ Len(K) \in Nat
  BY HoldsIs
<1>4. IterValid(b, it) <=> it.current <= Len(K)
  BY <1>2, <1>3 DEF IterValid
<1> QED
  BY <1>1, <1>2, <1>3, <1>4

\* Parsing up to an offset ends at the entry before it.
LEMMA ParseToEndIs ==
    ASSUME NEW b, NEW K, Holds(b, K), NEW it, Ready(b, K, it), NEW end \in Nat
    PROVE  LET p == ParseToEnd(b, it, end)
           IN  /\ p \in BlockIters(b, K)
               /\ it.next > Len(K) => ~IterValid(b, p)
               /\ it.next < end /\ end <= Len(K) + 1 => IterValid(b, p) /\ p.current = end - 1
<1> DEFINE L == Limit(b)
           g == ParsedToEnd(b, it, end)
           p == ParseToEnd(b, it, end)
<1>1. p = g[L]
  BY DEF ParseToEnd, ParsedToEnd
<1>2. \A n \in 0..L :
          /\ g[n] \in BlockIters(b, K)
          /\ g[n] = IF n = 0 THEN ParseNextKey(b, it)
                    ELSE IF ~IterValid(b, g[n - 1]) \/ g[n - 1].next >= end THEN g[n - 1]
                    ELSE ParseNextKey(b, g[n - 1])
  BY ParsedToEndIs
<1> HIDE DEF g, p
<1>3. L \in Nat /\ L = Len(K) + 1 /\ Len(K) \in Nat /\ it.next \in 1..L
  BY HoldsIs DEF Ready, IterStates
<1>4. \A n \in 0..L : /\ g[n] \in IterStates(b) /\ g[n].next \in Nat /\ g[n].current \in Nat
                      /\ IterValid(b, g[n]) <=> g[n].current <= Len(K)
                      /\ IterValid(b, g[n]) => g[n].next = g[n].current + 1
  BY <1>2, <1>3, ItersIs
<1>5. ASSUME it.next > Len(K) PROVE ~IterValid(b, p)
  <2> DEFINE T == {n \in 0..L : ~IterValid(b, g[n])}
  <2>1. 0 \in T
    <3>1. 0 \in 0..L
      BY <1>3
    <3>2. ~IterValid(b, g[0])
      BY <1>2, <1>3, <1>5, <3>1, ParseIs
    <3> QED
      BY <3>1, <3>2
  <2>2. ASSUME NEW n \in 1..L, n - 1 \in T PROVE n \in T
    <3>1. n \in 0..L /\ n # 0 /\ ~IterValid(b, g[n - 1])
      BY <2>2
    <3>2. g[n] = g[n - 1]
      BY <3>1, <1>2
    <3> QED
      BY <3>1, <3>2
  <2>3. \A n \in 0..L : n \in T
    <3> HIDE DEF T
    <3> QED
      BY <1>3, <2>1, <2>2, Induction
  <2> QED
    BY <2>3, <1>1, <1>3
<1>6. ASSUME it.next < end, end <= L
      PROVE  IterValid(b, p) /\ p.current = end - 1
  <2> DEFINE T == {n \in 0..L : /\ IterValid(b, g[n]) /\ g[n].current < end
                                /\ g[n].current = end - 1 \/ g[n].current >= it.next + n}
  <2>0. it.next <= Len(K)
    BY <1>3, <1>6
  <2>1. 0 \in T
    <3>1. 0 \in 0..L
      BY <1>3
    <3>2. IterValid(b, g[0]) /\ g[0].current = it.next
      BY <2>0, <1>2, <1>3, <3>1, ParseIs
    <3> QED
      BY <3>1, <3>2, <1>3, <1>6
  <2>2. ASSUME NEW n \in 1..L, n - 1 \in T PROVE n \in T
    <3> DEFINE s == g[n - 1]
    <3>1. n \in 0..L /\ n # 0 /\ n - 1 \in 0..L
      BY <1>3
    <3>2. /\ IterValid(b, s) /\ s.current < end /\ s.next = s.current + 1 /\ s.current \in Nat
          /\ s.current = end - 1 \/ s.current >= it.next + (n - 1)
      BY <2>2, <1>4, <3>1
    <3>3. CASE s.next >= end
      <4>1. g[n] = s
        BY <3>1, <3>3, <1>2
      <4>2. s.current = end - 1
        BY <3>2, <3>3
      <4> QED
        BY <4>1, <4>2, <3>1, <3>2
    <3>4. CASE ~(s.next >= end)
      <4>1. g[n] = ParseNextKey(b, s)
        BY <3>1, <3>2, <3>4, <1>2
      <4>2. Ready(b, K, s)
        <5>1. s \in BlockIters(b, K)
          BY <3>1, <1>2
        <5> HIDE DEF s
        <5> QED
          BY <5>1, <3>2, ReadyWhenValid
      <4>3. s.next < end /\ s.next <= Len(K)
        BY <3>2, <3>4, <1>3, <1>6
      <4>4. IterValid(b, g[n]) /\ g[n].current = s.next
        <5> HIDE DEF s
        <5> QED
          BY <4>1, <4>2, <4>3, ParseIs
      <4>5. g[n].current < end /\ g[n].current >= it.next + n
        <5> HIDE DEF s
        <5> QED
          BY <4>4, <4>3, <3>2, <3>4, <1>3, <1>6
      <4> QED
        BY <4>4, <4>5, <3>1
    <3> QED
      BY <3>3, <3>4
  <2>3. \A n \in 0..L : n \in T
    <3> HIDE DEF T
    <3> QED
      BY <1>3, <2>1, <2>2, Induction
  <2>4. L \in T /\ L \in 0..L
    BY <2>3, <1>3
  <2> QED
    BY <2>4, <1>1, <1>3, <1>4, <1>6
<1>7. p \in BlockIters(b, K)
  <2>1. L \in 0..L
    BY <1>3
  <2> QED
    BY <2>1, <1>1, <1>2
<1> QED
  BY <1>3, <1>5, <1>6, <1>7 DEF p

\* Parsing up to a key ends at the first entry from there on that is not before it.
LEMMA ParseToKeyIs ==
    ASSUME NEW b, NEW K, Holds(b, K), NEW it, Ready(b, K, it), NEW target
    PROVE  LET p == ParseToKey(b, it, target)
           IN  /\ p \in BlockIters(b, K) /\ p.current >= it.next
               /\ IterValid(b, p) => ~Less(K[p.current], target)
               /\ \A j \in 1..Len(K) : it.next <= j /\ j < p.current => Less(K[j], target)
<1> DEFINE L == Limit(b)
           g == ParsedToKey(b, it, target)
           p == ParseToKey(b, it, target)
<1>1. p = g[L]
  BY DEF ParseToKey, ParsedToKey
<1>2. \A n \in 0..L :
          /\ g[n] \in BlockIters(b, K)
          /\ g[n] = IF n = 0 THEN ParseNextKey(b, it)
                    ELSE IF ~IterValid(b, g[n - 1]) \/ ~Less(g[n - 1].key, target) THEN g[n - 1]
                    ELSE ParseNextKey(b, g[n - 1])
  BY ParsedToKeyIs
<1> HIDE DEF g, p
<1>3. L \in Nat /\ L = Len(K) + 1 /\ Len(K) \in Nat /\ it.next \in 1..L
  BY HoldsIs DEF Ready, IterStates
<1>4. \A n \in 0..L : /\ g[n] \in IterStates(b) /\ g[n].next \in Nat /\ g[n].current \in 1..L
                      /\ IterValid(b, g[n]) <=> g[n].current <= Len(K)
                      /\ IterValid(b, g[n]) => /\ g[n].next = g[n].current + 1
                                               /\ g[n].key = K[g[n].current]
  BY <1>2, <1>3, ItersIs
<1> DEFINE Stopped(s) == ~IterValid(b, s) \/ ~Less(s.key, target)
           T == {n \in 0..L : /\ g[n].current >= it.next
                              /\ Stopped(g[n]) \/ g[n].current = it.next + n
                              /\ \A j \in 1..Len(K) :
                                    it.next <= j /\ j < g[n].current => Less(K[j], target)}
<1>5. 0 \in T
  <2>1. 0 \in 0..L
    BY <1>3
  <2>2. g[0].current = it.next
    BY <1>2, <2>1, ParseIs
  <2> QED
    BY <2>1, <2>2, <1>3
<1>6. ASSUME NEW n \in 1..L, n - 1 \in T PROVE n \in T
  <2> DEFINE s == g[n - 1]
  <2>1. n \in 0..L /\ n # 0 /\ n - 1 \in 0..L
    BY <1>3
  <2>2. /\ s.current >= it.next /\ (Stopped(s) \/ s.current = it.next + (n - 1))
        /\ \A j \in 1..Len(K) : it.next <= j /\ j < s.current => Less(K[j], target)
    BY <1>6
  <2>3. CASE Stopped(s)
    <3>1. g[n] = s
      BY <2>1, <2>3, <1>2
    <3> HIDE DEF Stopped
    <3> QED
      BY <3>1, <2>1, <2>2, <2>3
  <2>4. CASE ~Stopped(s)
    <3>1. g[n] = ParseNextKey(b, s) /\ IterValid(b, s) /\ Less(s.key, target)
      BY <2>1, <2>4, <1>2
    <3>2. /\ s.next = s.current + 1 /\ s.key = K[s.current] /\ s.current \in 1..L
          /\ s.current = it.next + (n - 1)
      BY <3>1, <2>1, <2>2, <2>4, <1>4
    <3>3. g[n].current = s.next
      <4>1. s \in BlockIters(b, K)
        BY <2>1, <1>2
      <4> HIDE DEF s
      <4>2. Ready(b, K, s)
        BY <4>1, <3>1, ReadyWhenValid
      <4> QED
        BY <3>1, <4>2, ParseIs
    <3>4. \A j \in 1..Len(K) : it.next <= j /\ j < g[n].current => Less(K[j], target)
      <4> TAKE j \in 1..Len(K)
      <4> HIDE DEF s
      <4>1. j < g[n].current => j = s.current \/ j < s.current
        BY <3>2, <3>3
      <4> QED
        BY <4>1, <3>1, <3>2, <2>2
    <3>5. g[n].current >= it.next /\ g[n].current = it.next + n
      <4> HIDE DEF s
      <4> QED
        BY <3>2, <3>3, <2>2, <1>3
    <3> QED
      BY <3>4, <3>5, <2>1
  <2> QED
    BY <2>3, <2>4
<1>7. \A n \in 0..L : n \in T
  <2> HIDE DEF T
  <2> QED
    BY <1>3, <1>5, <1>6, Induction
<1>8. L \in T /\ L \in 0..L
  BY <1>7, <1>3
<1>9. Stopped(g[L])
  BY <1>8, <1>3, <1>4
<1>10. /\ p.current >= it.next /\ p \in BlockIters(b, K)
       /\ \A j \in 1..Len(K) : it.next <= j /\ j < p.current => Less(K[j], target)
  BY <1>1, <1>2, <1>8
<1>11. IterValid(b, p) => ~Less(K[p.current], target)
  BY <1>1, <1>4, <1>8, <1>9
<1> QED
  BY <1>10, <1>11 DEF p

\* An entry at a restart point is stored whole.
LEMMA RestartIsWhole ==
    ASSUME NEW b, NEW K, Holds(b, K), NEW r \in DOMAIN b.restarts, b.restarts[r] <= Len(K)
    PROVE  LET e == b.entries[b.restarts[r]]
           IN  e.shared = 0 /\ e.delta = K[b.restarts[r]]
<1> DEFINE n == b.restarts[r]
           e == b.entries[n]
<1>1. n \in 1..Len(K) /\ n \in DOMAIN K /\ e.delta \in Seq(Nat)
  <2>1. Len(K) \in Nat /\ n \in 1..(Len(K) + 1)
    BY HoldsIs
  <2>2. n \in 1..Len(K)
    BY <2>1
  <2> HIDE DEF n
  <2> QED
    BY <2>2, HoldsIs
<1>2. e.shared = 0
  BY <1>1 DEF Holds
<1>3. \/ e.delta = K[n]
      \/ n > 1 /\ K[n] = SubSeq(K[n - 1], 1, 0) \o e.delta
  BY <1>1, <1>2 DEF Holds
<1>4. n > 1 => K[n - 1] \in Seq(Nat)
  <2>1. n > 1 => n - 1 \in 1..Len(K)
    BY <1>1, HoldsIs
  <2> QED
    BY <2>1, HoldsIs
<1>5. \A a \in Seq(Nat) : SubSeq(a, 1, 0) = <<>> /\ <<>> \o a = a
  OBVIOUS
<1> HIDE DEF n, e
<1>6. e.delta = K[n]
  BY <1>1, <1>3, <1>4, <1>5
<1> QED
  BY <1>2, <1>6 DEF n, e

\* The function with which RestartFor computes.
RestartSearch(b, target) ==
    LET search[span \in (DOMAIN b.restarts) \X (DOMAIN b.restarts)] ==
            LET left == span[1]  right == span[2]
                mid == (left + right + 1) \div 2
                e == b.entries[b.restarts[mid]]
            IN  IF left >= right THEN left
                ELSE IF e.shared # 0 THEN 0
                ELSE IF Less(e.delta, target) THEN search[<<mid, right>>]
                ELSE search[<<left, mid - 1>>]
    IN  search

\* The binary search finds a restart point from which parsing meets every key that is
\* not before the target.
LEMMA RestartForIs ==
    ASSUME NEW b, NEW K, Holds(b, K), NEW target
    PROVE  LET r == RestartFor(b, target)
           IN  r \in DOMAIN b.restarts /\ (r = 1 \/ Less(K[b.restarts[r]], target))
<1> DEFINE R == b.restarts
           m == Len(R)
           X == (DOMAIN R) \X (DOMAIN R)
           Mid(x) == (x[1] + x[2] + 1) \div 2
           E(x) == b.entries[R[Mid(x)]]
           On1(x) == IF Less(E(x).delta, target) THEN <<Mid(x), x[2]>> ELSE <<x[1], Mid(x) - 1>>
           B == {x \in X : x[1] >= x[2] \/ E(x).shared # 0}
           s == [x \in X |-> IF x[1] >= x[2] THEN x ELSE On1(x)]
           v == [x \in X |-> IF x[1] >= x[2] THEN x[1] ELSE 0]
           Body(g, x) == IF x[1] >= x[2] THEN x[1]
                         ELSE IF E(x).shared # 0 THEN 0
                         ELSE IF Less(E(x).delta, target) THEN g[<<Mid(x), x[2]>>]
                         ELSE g[<<x[1], Mid(x) - 1>>]
           Is(g) == g = [x \in X |-> Body(g, x)]
<1>1. m \in Nat /\ m >= 1 /\ DOMAIN R = 1..m
  BY HoldsIs
<1>2. ASSUME NEW x \in X, ~(x[1] >= x[2])
      PROVE  /\ Mid(x) \in 1..m /\ Mid(x) > x[1] /\ Mid(x) <= x[2] /\ Mid(x) # 1
             /\ x[1] \in 1..m /\ x[2] \in 1..m
             /\ <<Mid(x), x[2]>> \in X /\ <<x[1], Mid(x) - 1>> \in X
  <2>1. x[1] \in 1..m /\ x[2] \in 1..m
    BY <1>1
  <2> HIDE DEF m, R
  <2>2. Mid(x) \in 1..m /\ Mid(x) > x[1] /\ Mid(x) <= x[2] /\ Mid(x) # 1 /\ Mid(x) - 1 \in 1..m
    BY <2>1, <1>1, <1>2
  <2> HIDE DEF Mid
  <2> QED
    BY <2>1, <2>2, <1>1
<1>3. s \in [X -> X]
  <2>1. ASSUME NEW x \in X PROVE s[x] \in X
    <3> HIDE DEF E, Mid, X
    <3> QED
      BY <1>2
  <2> HIDE DEF On1
  <2> QED
    BY <2>1
<1>4. v \in [X -> 0..m] /\ B \in SUBSET X
  <2>1. \A x \in X : x[1] \in 0..m
    BY <1>1
  <2>2. 0 \in 0..m
    BY <1>1
  <2> HIDE DEF E, X, m
  <2> QED
    BY <2>1, <2>2
<1> HIDE DEF R, m, X, E, Mid
<1>5. PICK f \in TailRecursive(X, 0..m, B, s, v) : TRUE
  <2> DEFINE V == 0..m
             S == TailRecursive(X, V, B, s, v)
  <2>1. v \in [X -> V]
    BY <1>4
  <2> HIDE DEF B, s, v, V
  <2>2. S # {}
    BY <1>3, <1>4, <2>1, TailRecursion
  <2> HIDE DEF S
  <2>3. \E f \in S : TRUE
    BY <2>2
  <2> QED
    BY <2>3 DEF S, V
<1>6. f \in [X -> 0..m] /\ \A x \in X : f[x] = IF x \in B THEN v[x] ELSE f[s[x]]
  BY <1>5 DEF TailRecursive
<1>7. \A x \in X : f[x] = Body(f, x)
  <2> TAKE x \in X
  <2>1. CASE x[1] >= x[2]
    BY <1>6, <2>1
  <2>2. CASE ~(x[1] >= x[2]) /\ E(x).shared # 0
    BY <1>6, <2>2
  <2>3. CASE ~(x[1] >= x[2]) /\ E(x).shared = 0
    <3>1. x \notin B /\ s[x] = On1(x)
      BY <2>3
    <3>2. f[x] = f[On1(x)]
      <4> HIDE DEF B, s, v, On1
      <4> QED
        BY <1>6, <3>1
    <3>3. f[On1(x)] = IF Less(E(x).delta, target) THEN f[<<Mid(x), x[2]>>]
                      ELSE f[<<x[1], Mid(x) - 1>>]
      OBVIOUS
    <3> QED
      BY <2>3, <3>2, <3>3
  <2> QED
    BY <2>1, <2>2, <2>3
<1>8. Is(f)
  <2> HIDE DEF Body
  <2> QED
    BY <1>6, <1>7
<1> DEFINE g == CHOOSE h : Is(h)
<1>9. Is(g)
  <2> HIDE DEF Is
  <2> QED
    BY <1>8
<1>10. g = RestartSearch(b, target)
  BY DEF RestartSearch, X, E, Mid, R
<1>11. RestartFor(b, target) = g[<<1, m>>]
  BY <1>10 DEF RestartFor, RestartSearch, m, R
<1> HIDE DEF g
<1>12. \A x \in X : g[x] = Body(g, x)
  <2> HIDE DEF Body
  <2> QED
    BY <1>9
<1> DEFINE From(r) == r = 1 \/ Less(K[R[r]], target)
           T == {d \in 0..m : \A x \in X : x[1] <= x[2] /\ x[2] - x[1] <= d /\ From(x[1])
                                 => g[x] \in 1..m /\ From(g[x])}
<1>13. X = (1..m) \X (1..m)
  BY <1>1 DEF X
<1>14. ASSUME NEW x \in X, x[1] = x[2], From(x[1]) PROVE g[x] \in 1..m /\ From(g[x])
  <2>1. x[1] \in 1..m /\ x[1] >= x[2]
    BY <1>13, <1>14
  <2>2. g[x] = x[1]
    BY <2>1, <1>12
  <2> HIDE DEF From
  <2> QED
    BY <2>1, <2>2, <1>14
<1>15. 0 \in T
  <2>1. ASSUME NEW x \in X, x[1] <= x[2], x[2] - x[1] <= 0 PROVE x[1] = x[2]
    <3>1. x[1] \in 1..m /\ x[2] \in 1..m
      BY <1>13
    <3> QED
      BY <3>1, <2>1, <1>1
  <2>2. 0 \in 0..m
    BY <1>1
  <2> HIDE DEF From
  <2> QED
    BY <2>1, <2>2, <1>14
<1>16. ASSUME NEW n \in 1..m, n - 1 \in T PROVE n \in T
  <2>1. SUFFICES ASSUME NEW x \in X, x[1] <= x[2], x[2] - x[1] <= n, From(x[1])
                 PROVE  g[x] \in 1..m /\ From(g[x])
    <3>1. n \in 0..m
      BY <1>1
    <3> HIDE DEF From
    <3> QED
      BY <3>1
  <2>2. CASE x[1] >= x[2]
    <3>1. x[1] = x[2]
      BY <2>1, <2>2, <1>1, <1>13
    <3> QED
      BY <3>1, <2>1, <1>14
  <2>3. CASE ~(x[1] >= x[2])
    <3>1. /\ Mid(x) \in 1..m /\ Mid(x) > x[1] /\ Mid(x) <= x[2] /\ Mid(x) # 1
          /\ x[1] \in 1..m /\ x[2] \in 1..m
          /\ <<Mid(x), x[2]>> \in X /\ <<x[1], Mid(x) - 1>> \in X
      BY <2>3, <1>2
    <3>2. E(x).shared = 0 /\ E(x).delta = K[R[Mid(x)]]
      <4>1. Mid(x) \in DOMAIN R /\ R[Mid(x)] <= Len(K)
        <5>1. Mid(x) \in DOMAIN R
          BY <3>1, <1>1
        <5>2. R[Mid(x)] \in 1..Len(K)
          BY <5>1, <3>1, HoldsIs DEF R
        <5>3. Len(K) \in Nat
          BY HoldsIs
        <5> QED
          BY <5>1, <5>2, <5>3
      <4> QED
        BY <4>1, RestartIsWhole DEF E, R
    <3>3. \A y \in X : y[1] <= y[2] /\ y[2] - y[1] <= n - 1 /\ From(y[1])
                          => g[y] \in 1..m /\ From(g[y])
      <4> HIDE DEF From
      <4> QED
        BY <1>16
    <3>4. CASE Less(E(x).delta, target)
      <4> DEFINE y == <<Mid(x), x[2]>>
      <4>1. g[x] = g[y]
        BY <1>12, <2>3, <3>2, <3>4
      <4>2. y[1] <= y[2] /\ y[2] - y[1] <= n - 1 /\ From(y[1]) /\ y \in X
        BY <3>1, <3>2, <3>4, <2>1, <1>1
      <4> HIDE DEF y, From
      <4> QED
        BY <4>1, <4>2, <3>3
    <3>5. CASE ~Less(E(x).delta, target)
      <4> DEFINE y == <<x[1], Mid(x) - 1>>
      <4>1. g[x] = g[y]
        BY <1>12, <2>3, <3>2, <3>5
      <4>2. y[1] <= y[2] /\ y[2] - y[1] <= n - 1 /\ y \in X
        BY <3>1, <2>1, <1>1
      <4>3. From(y[1])
        <5>1. y[1] = x[1]
          OBVIOUS
        <5> HIDE DEF From, y
        <5> QED
          BY <5>1, <2>1
      <4> HIDE DEF y, From
      <4> QED
        BY <4>1, <4>2, <4>3, <3>3
    <3> QED
      BY <3>4, <3>5
  <2> QED
    BY <2>2, <2>3
<1>17. \A d \in 0..m : d \in T
  <2> HIDE DEF T
  <2> QED
    BY <1>1, <1>15, <1>16, Induction
<1>18. g[<<1, m>>] \in 1..m /\ From(g[<<1, m>>])
  <2> DEFINE x == <<1, m>>
  <2>1. x \in X /\ x[1] <= x[2] /\ x[2] - x[1] <= m /\ From(x[1]) /\ m \in 0..m
    BY <1>1, <1>13
  <2> HIDE DEF x, From
  <2>2. m \in T
    BY <2>1, <1>17
  <2> QED
    BY <2>1, <2>2 DEF x
<1> QED
  BY <1>1, <1>11, <1>18 DEF R

\* Keys of an index are in the same order as those of entries.
LEMMA StoredOrder ==
    /\ \A a \in StoredKeys : ~Less(a, a)
    /\ \A a, b, c \in StoredKeys : Less(a, b) /\ Less(b, c) => Less(a, c)
    /\ \A a, b \in StoredKeys : Less(a, b) \/ a = b \/ Less(b, a)
    /\ TaggedKeys \subseteq StoredKeys
<1>0. \A k \in StoredKeys : /\ User(k) \in Seq(Nat) /\ Tag(k) \in Nat
                            /\ k = Append(User(k), Tag(k))
  <2> TAKE k \in StoredKeys
  <2>1. k \in Seq(Nat) /\ k # <<>>
    BY DEF StoredKeys
  <2>2. Len(k) \in 1..Len(k) /\ k[Len(k)] \in Nat
    BY <2>1
  <2>3. SubSeq(k, 1, Len(k) - 1) \in Seq(Nat) /\ k = Append(SubSeq(k, 1, Len(k) - 1), k[Len(k)])
    BY <2>1, <2>2
  <2> QED
    BY <2>2, <2>3 DEF User, Tag, Front, Last
<1>1. \A a \in StoredKeys : ~Less(a, a)
  BY <1>0, UserLessIsAnOrder DEF Less
<1>2. ASSUME NEW a \in StoredKeys, NEW b \in StoredKeys, NEW c \in StoredKeys,
             Less(a, b), Less(b, c)
      PROVE  Less(a, c)
  BY <1>0, <1>2, UserLessIsAnOrder DEF Less
<1>3. ASSUME NEW a \in StoredKeys, NEW b \in StoredKeys, ~Less(a, b), ~Less(b, a)
      PROVE  a = b
  <2>1. User(a) = User(b)
    BY <1>0, <1>3, UserLessIsAnOrder DEF Less
  <2>2. Tag(a) = Tag(b)
    BY <1>0, <1>3, <2>1 DEF Less
  <2> QED
    BY <1>0, <2>1, <2>2
<1>4. TaggedKeys \subseteq StoredKeys
  <2>1. \A k \in TaggedKeys : k \in Seq(Nat) /\ k # Null
    BY KeyParts DEF TaggedKeys
  <2> QED
    BY <2>1 DEF StoredKeys, Null
<1> QED
  BY <1>1, <1>2, <1>3, <1>4

\* What a block holds can be compared.
LEMMA HeldKeys ==
    ASSUME NEW b, NEW K, Holds(b, K), NEW i \in 1..Len(K)
    PROVE  K[i] \in StoredKeys
BY DEF Holds

\* A new iterator is at the end.
LEMMA NewIterIs ==
    ASSUME NEW b, NEW K, Holds(b, K)
    PROVE  NewIter(b) \in BlockIters(b, K) /\ ~IterValid(b, NewIter(b))
<1> DEFINE it == NewIter(b)
<1>1. Limit(b) \in 1..Limit(b) /\ 1 \in 1..Limit(b) /\ Len(b.restarts) + 1 \in Nat
      /\ <<>> \in Seq(Nat) /\ Limit(b) \in Nat
  BY HoldsIs
<1>2. it \in IterStates(b) /\ it.current = Limit(b)
  BY <1>1 DEF NewIter, IterStates
<1> HIDE DEF it
<1>3. ~IterValid(b, it)
  BY <1>1, <1>2 DEF IterValid
<1> QED
  BY <1>2, <1>3 DEF BlockIters, it

\* SeekToFirst goes to the first entry.
LEMMA BlockFirstIs ==
    ASSUME NEW b, NEW K, Holds(b, K), NEW it \in IterStates(b)
    PROVE  LET p == BlockSeekToFirst(b, it)
           IN  p \in BlockIters(b, K) /\ p.current = 1 /\ (IterValid(b, p) <=> Len(K) > 0)
<1> DEFINE s == SeekToRestartPoint(b, it, 1)
<1>1. 1 \in DOMAIN b.restarts /\ b.restarts[1] = 1 /\ Len(K) \in Nat
  BY HoldsIs DEF Holds
<1>2. Ready(b, K, s) /\ s.next = 1
  BY <1>1, ReadyAtRestart
<1> HIDE DEF s
<1> QED
  BY <1>1, <1>2, ParseIs DEF BlockSeekToFirst, s

\* SeekToLast goes to the last one.
LEMMA BlockLastIs ==
    ASSUME NEW b, NEW K, Holds(b, K), NEW it \in IterStates(b)
    PROVE  LET p == BlockSeekToLast(b, it)
           IN  /\ p \in BlockIters(b, K)
               /\ IterValid(b, p) <=> Len(K) > 0
               /\ Len(K) > 0 => p.current = Len(K)
<1> DEFINE r == Len(b.restarts)
           s == SeekToRestartPoint(b, it, r)
           p == BlockSeekToLast(b, it)
<1>1. /\ r \in DOMAIN b.restarts /\ Len(K) \in Nat /\ Limit(b) = Len(K) + 1
      /\ b.restarts[r] \in 1..(Len(K) + 1) /\ (Len(K) > 0 => b.restarts[r] \in 1..Len(K))
  <2>1. r \in DOMAIN b.restarts
    BY HoldsIs
  <2> HIDE DEF r
  <2> QED
    BY <2>1, HoldsIs
<1> HIDE DEF r
<1>2. Ready(b, K, s) /\ s.next = b.restarts[r]
  BY <1>1, ReadyAtRestart
<1> HIDE DEF s
<1>3. p = ParseToEnd(b, s, Limit(b)) /\ Limit(b) \in Nat
  BY <1>1 DEF BlockSeekToLast, s, r
<1> HIDE DEF p
<1>4. p \in BlockIters(b, K)
  BY <1>2, <1>3, ParseToEndIs
<1>5. CASE Len(K) = 0
  <2>1. s.next > Len(K)
    BY <1>1, <1>2, <1>5
  <2>2. ~IterValid(b, p)
    BY <1>2, <1>3, <2>1, ParseToEndIs
  <2> QED
    BY <1>4, <1>5, <2>2 DEF p
<1>6. CASE Len(K) > 0
  <2>1. s.next < Limit(b) /\ Limit(b) <= Len(K) + 1
    BY <1>1, <1>2, <1>6
  <2>2. IterValid(b, p) /\ p.current = Limit(b) - 1
    BY <1>2, <1>3, <2>1, ParseToEndIs
  <2> QED
    BY <1>1, <1>4, <1>6, <2>2 DEF p
<1> QED
  BY <1>1, <1>5, <1>6

\* Next goes to the next one.
LEMMA BlockNextIs ==
    ASSUME NEW b, NEW K, Holds(b, K), NEW it \in BlockIters(b, K), IterValid(b, it)
    PROVE  LET p == BlockNext(b, it)
           IN  p \in BlockIters(b, K) /\ p.current = it.current + 1
BY ReadyWhenValid, ParseIs DEF BlockNext

\* Prev goes back to a restart point and on to the one before.
LEMMA BlockPrevIs ==
    ASSUME NEW b, NEW K, Holds(b, K), NEW it \in BlockIters(b, K), IterValid(b, it)
    PROVE  LET p == BlockPrev(b, it)
           IN  /\ p \in BlockIters(b, K)
               /\ IF it.current = 1 THEN ~IterValid(b, p)
                  ELSE IterValid(b, p) /\ p.current = it.current - 1
<1> DEFINE R == RestartBefore(b, it)
           m == Len(b.restarts)
           p == BlockPrev(b, it)
<1>1. /\ it \in IterStates(b) /\ it.restart \in DOMAIN b.restarts
      /\ it.current \in 1..Len(K) /\ it.current \in Nat
  BY ReadyWhenValid DEF BlockIters
<1>2. /\ m \in Nat /\ DOMAIN b.restarts = 1..m /\ b.restarts[1] = 1 /\ 1 \in DOMAIN b.restarts
      /\ Limit(b) = Len(K) + 1 /\ Len(K) \in Nat
      /\ \A r \in DOMAIN b.restarts : b.restarts[r] \in 1..(Len(K) + 1)
  <2>1. b.restarts[1] = 1
    BY DEF Holds
  <2> QED
    BY <2>1, HoldsIs
<1> HIDE DEF m
<1>3. R = {r \in 1..it.restart : b.restarts[r] < it.current} /\ R \subseteq DOMAIN b.restarts
  BY <1>1, <1>2 DEF RestartBefore
<1> HIDE DEF R, p
<1>4. CASE it.current = 1
  <2>1. R = {}
    BY <1>2, <1>3, <1>4
  <2>2. p = [it EXCEPT !.current = Limit(b), !.restart = Len(b.restarts) + 1]
    BY <2>1 DEF BlockPrev, Exhausted, R, p
  <2>3. Len(b.restarts) + 1 \in Nat /\ Limit(b) \in 1..Limit(b)
    BY HoldsIs
  <2>4. p \in IterStates(b) /\ p.current = Limit(b)
    BY <1>1, <2>2, <2>3 DEF IterStates
  <2>5. ~IterValid(b, p)
    BY <2>4, <1>2 DEF IterValid
  <2> QED
    BY <2>4, <2>5, <1>4 DEF BlockIters, p
<1>5. CASE it.current # 1
  <2>1. 1 \in R
    BY <1>1, <1>2, <1>3, <1>5
  <2> DEFINE r == Max(R)
             s == SeekToRestartPoint(b, it, r)
  <2>2. r \in R
    <3>1. R \in SUBSET (0..m) /\ R # {}
      BY <2>1, <1>2, <1>3
    <3> QED
      BY <3>1, <1>2, MaxIs
  <2> HIDE DEF r
  <2>3. r \in DOMAIN b.restarts /\ b.restarts[r] < it.current
    BY <2>2, <1>3
  <2>4. Ready(b, K, s) /\ s.next = b.restarts[r]
    BY <2>3, <1>1, ReadyAtRestart
  <2> HIDE DEF s
  <2>5. p = ParseToEnd(b, s, it.current)
    BY <2>1 DEF BlockPrev, R, p, r, s
  <2>6. s.next < it.current /\ it.current <= Len(K) + 1
    BY <2>3, <2>4, <1>1, <1>2
  <2>7. p \in BlockIters(b, K) /\ IterValid(b, p) /\ p.current = it.current - 1
    BY <2>4, <2>5, <2>6, <1>1, ParseToEndIs
  <2> QED
    BY <2>7, <1>5 DEF p
<1> QED
  BY <1>4, <1>5

\* Seek finds the first entry that is not before the target.
LEMMA BlockSeekIs ==
    ASSUME NEW b, NEW K, Holds(b, K), Ordered(K), NEW it \in IterStates(b),
           NEW target \in StoredKeys
    PROVE  LET p == BlockSeek(b, it, target)
           IN  /\ p \in BlockIters(b, K)
               /\ IterValid(b, p) => ~Less(K[p.current], target)
               /\ \A j \in 1..Len(K) : j < p.current => Less(K[j], target)
<1> DEFINE r == RestartFor(b, target)
           s == SeekToRestartPoint(b, it, r)
           p == BlockSeek(b, it, target)
<1>1. r \in DOMAIN b.restarts /\ (r = 1 \/ Less(K[b.restarts[r]], target))
  BY RestartForIs
<1> HIDE DEF r
<1>2. Ready(b, K, s) /\ s.next = b.restarts[r]
  BY <1>1, ReadyAtRestart
<1> HIDE DEF s
<1>3. p = ParseToKey(b, s, target)
  <2>1. r # 0
    BY <1>1, HoldsIs
  <2> QED
    BY <2>1 DEF BlockSeek, r, s
<1> HIDE DEF p
<1>4. /\ p \in BlockIters(b, K) /\ p.current >= s.next
      /\ IterValid(b, p) => ~Less(K[p.current], target)
      /\ \A j \in 1..Len(K) : s.next <= j /\ j < p.current => Less(K[j], target)
  BY <1>2, <1>3, ParseToKeyIs
<1>5. ASSUME NEW j \in 1..Len(K), j < s.next PROVE Less(K[j], target)
  <2> DEFINE n == b.restarts[r]
  <2>1. Len(K) \in Nat /\ DOMAIN K = 1..Len(K) /\ (r # 1 => n \in 1..Len(K)) /\ b.restarts[1] = 1
    BY <1>1, HoldsIs DEF Holds
  <2>2. r # 1
    BY <1>2, <1>5, <2>1
  <2>3. n \in 1..Len(K) /\ Less(K[n], target) /\ j < n
    BY <1>1, <1>2, <1>5, <2>1, <2>2
  <2> HIDE DEF n
  <2>4. Less(K[j], K[n])
    BY <2>1, <2>3 DEF Ordered
  <2>5. K[j] \in StoredKeys /\ K[n] \in StoredKeys
    BY <2>3, HeldKeys
  <2> QED
    BY <2>3, <2>4, <2>5, StoredOrder
<1>6. s.next \in Nat
  BY <1>2 DEF Ready, IterStates
<1>7. \A j \in 1..Len(K) : j < p.current => Less(K[j], target)
  BY <1>4, <1>5, <1>6
<1> QED
  BY <1>4, <1>7 DEF p

-----------------------------------------------------------------------------
(* Building a block. *)

\* The function with which NewBlock computes.
Built(interval, entries) ==
    LET empty == [entries |-> <<>>, restarts |-> <<1>>, counter |-> 0, last |-> <<>>]
        built[i \in 0..Len(entries)] == IF i = 0 THEN empty
                                        ELSE AddEntry(interval, built[i - 1], entries[i])
    IN  built

StoredEntries == [key : StoredKeys, value : Nat]
BlockEntry == [shared : Nat, value : Nat, delta : Seq(Nat)]
Builders == [entries : Seq(BlockEntry), restarts : Seq(Nat), counter : Nat, last : Seq(Nat)]

\* A key is what it shares with the last one and the rest; at a restart it shares nothing.
LEMMA SharedIs ==
    ASSUME NEW interval \in Nat \ {0}, NEW c \in Builders, NEW key \in Seq(Nat)
    PROVE  LET shared == Shared(interval, c, key)
           IN  /\ shared \in 0..Len(c.last) /\ shared <= Len(key)
               /\ key = SubSeq(c.last, 1, shared) \o SubSeq(key, shared + 1, Len(key))
               /\ SubSeq(key, shared + 1, Len(key)) \in Seq(Nat)
               /\ c.counter >= interval => shared = 0
<1> DEFINE n == Shared(interval, c, key)
           a == c.last
<1>1. a \in Seq(Nat) /\ c.counter \in Nat
  BY DEF Builders
<1> HIDE DEF a
<1>2. /\ n \in 0..Len(a) /\ n <= Len(key) /\ (\A i \in 1..n : a[i] = key[i])
      /\ c.counter >= interval => n = 0
  <2>1. CASE c.counter < interval
    BY <1>1, <2>1, CommonIs DEF Shared, a
  <2>2. CASE ~(c.counter < interval)
    BY <1>1, <2>2 DEF Shared, a
  <2> QED
    BY <2>1, <2>2
<1> HIDE DEF n
<1> DEFINE u == SubSeq(a, 1, n)
           w == SubSeq(key, n + 1, Len(key))
<1>3. /\ u \in Seq(Nat) /\ Len(u) = n /\ (\A i \in 1..n : u[i] = a[i])
      /\ w \in Seq(Nat) /\ Len(w) = Len(key) - n /\ \A i \in 1..Len(w) : w[i] = key[n + i]
  BY <1>1, <1>2
<1> HIDE DEF u, w
<1>4. key = u \o w
  <2> DEFINE z == u \o w
  <2>0. Len(key) \in Nat /\ n \in Nat /\ key \in Seq(Nat)
    BY <1>1, <1>2
  <2>1. /\ z \in Seq(Nat) /\ Len(z) = Len(u) + Len(w)
        /\ \A i \in 1..Len(z) : z[i] = IF i <= Len(u) THEN u[i] ELSE w[i - Len(u)]
    BY <1>3
  <2> HIDE DEF z
  <2>2. Len(z) = Len(key)
    BY <2>0, <2>1, <1>2, <1>3
  <2>3. ASSUME NEW i \in 1..Len(key) PROVE z[i] = key[i]
    <3>1. CASE i <= n
      <4>1. i \in 1..n
        BY <2>0, <3>1
      <4> QED
        BY <4>1, <3>1, <2>1, <2>2, <1>2, <1>3
    <3>2. CASE ~(i <= n)
      <4>1. i - n \in 1..Len(w) /\ n + (i - n) = i
        BY <2>0, <1>2, <1>3, <3>2
      <4>2. z[i] = w[i - n]
        BY <2>1, <2>2, <1>3, <3>2
      <4> QED
        BY <4>1, <4>2, <1>3
    <3> QED
      BY <3>1, <3>2
  <2>4. z = key
    <3>1. z = [i \in 1..Len(z) |-> z[i]] /\ key = [i \in 1..Len(key) |-> key[i]]
      BY <2>0, <2>1
    <3> QED
      BY <3>1, <2>2, <2>3
  <2> QED
    BY <2>4 DEF z
<1> QED
  BY <1>2, <1>3, <1>4 DEF n, a, u, w

\* One more entry, with its parts.
LEMMA AddIs ==
    ASSUME NEW interval \in Nat \ {0}, NEW c \in Builders, NEW e \in StoredEntries
    PROVE  LET d == AddEntry(interval, c, e)
               shared == Shared(interval, c, e.key)
           IN  /\ d \in Builders /\ d.last = e.key /\ d.counter \in Nat \ {0}
               /\ d.entries = Append(c.entries, [shared |-> shared, value |-> e.value,
                                        delta |-> SubSeq(e.key, shared + 1, Len(e.key))])
               /\ d.restarts = IF c.counter >= interval
                               THEN Append(c.restarts, Len(c.entries) + 1) ELSE c.restarts
<1> DEFINE d == AddEntry(interval, c, e)
           shared == Shared(interval, c, e.key)
           new == [shared |-> shared, value |-> e.value,
                   delta |-> SubSeq(e.key, shared + 1, Len(e.key))]
<1>1. /\ c.entries \in Seq(BlockEntry) /\ c.restarts \in Seq(Nat) /\ c.counter \in Nat
      /\ c.last \in Seq(Nat)
  BY DEF Builders
<1>2. e.key \in Seq(Nat) /\ e.value \in Nat
  BY DEF StoredEntries, StoredKeys
<1>3. new \in BlockEntry
  <2>1. /\ shared \in 0..Len(c.last) /\ Len(c.last) \in Nat
        /\ SubSeq(e.key, shared + 1, Len(e.key)) \in Seq(Nat)
    <3> DEFINE k == e.key
    <3>1. k \in Seq(Nat) /\ Len(c.last) \in Nat
      BY <1>1, <1>2
    <3> HIDE DEF k
    <3>2. Shared(interval, c, k) \in 0..Len(c.last)
          /\ SubSeq(k, Shared(interval, c, k) + 1, Len(k)) \in Seq(Nat)
      BY <3>1, SharedIs
    <3> QED
      BY <3>1, <3>2 DEF k
  <2> HIDE DEF shared
  <2>2. shared \in Nat
    BY <2>1
  <2> QED
    BY <2>1, <2>2, <1>2 DEF BlockEntry
<1>4. /\ d.entries = Append(c.entries, new) /\ d.last = e.key
      /\ d.counter = IF c.counter >= interval THEN 1 ELSE c.counter + 1
      /\ d.restarts = IF c.counter >= interval
                      THEN Append(c.restarts, Len(c.entries) + 1) ELSE c.restarts
      /\ d = [entries |-> d.entries, restarts |-> d.restarts, counter |-> d.counter, last |-> d.last]
  BY DEF AddEntry
<1> HIDE DEF d, new
<1>5. d.entries \in Seq(BlockEntry)
  BY <1>1, <1>3, <1>4
<1>6. d.restarts \in Seq(Nat)
  <2>1. Len(c.entries) + 1 \in Nat
    BY <1>1
  <2> QED
    BY <1>1, <1>4, <2>1
<1>7. d.counter \in Nat \ {0}
  BY <1>1, <1>4
<1>8. d \in Builders
  BY <1>2, <1>4, <1>5, <1>6, <1>7 DEF Builders
<1> QED
  BY <1>4, <1>7, <1>8 DEF d, new

\* It is what its definition says.
LEMMA BuiltIs ==
    ASSUME NEW interval \in Nat \ {0}, NEW entries \in Seq(StoredEntries)
    PROVE  LET g == Built(interval, entries)
           IN  \A i \in 0..Len(entries) :
                  /\ g[i] \in Builders
                  /\ g[i] = IF i = 0 THEN [entries |-> <<>>, restarts |-> <<1>>, counter |-> 0,
                                           last |-> <<>>]
                            ELSE AddEntry(interval, g[i - 1], entries[i])
<1> DEFINE N == Len(entries)
           First == [entries |-> <<>>, restarts |-> <<1>>, counter |-> 0, last |-> <<>>]
           Turn(i, c) == AddEntry(interval, c, entries[i])
           turn == [x \in (1..N) \X Builders |-> Turn(x[1], x[2])]
           Is(g) == g = [i \in 0..N |-> IF i = 0 THEN First ELSE Turn(i, g[i - 1])]
<1>1. N \in Nat /\ \A i \in 1..N : entries[i] \in StoredEntries
  OBVIOUS
<1>2. First \in Builders
  <2>1. <<>> \in Seq(BlockEntry) /\ <<1>> \in Seq(Nat) /\ <<>> \in Seq(Nat)
    OBVIOUS
  <2> QED
    BY <2>1 DEF Builders
<1> HIDE DEF N, First
<1>3. ASSUME NEW i \in 1..N, NEW c \in Builders PROVE Turn(i, c) \in Builders
  BY <1>1, AddIs
<1> HIDE DEF Turn
<1>4. turn \in [(1..N) \X Builders -> Builders]
  BY <1>3
<1>5. PICK f \in Iterates(Builders, N, First, turn) : TRUE
  <2> HIDE DEF turn
  <2> QED
    BY <1>1, <1>2, <1>4, Recursion
<1>6. Is(f)
  <2>1. f \in [0..N -> Builders]
        /\ \A i \in 0..N : f[i] = IF i = 0 THEN First ELSE turn[<<i, f[i - 1]>>]
    BY <1>5 DEF Iterates
  <2>2. \A i \in 0..N : f[i] = IF i = 0 THEN First ELSE Turn(i, f[i - 1])
    <3> TAKE i \in 0..N
    <3>1. i # 0 => i \in 1..N /\ i - 1 \in 0..N
      BY <1>1
    <3>2. i # 0 => <<i, f[i - 1]>> \in (1..N) \X Builders
      BY <3>1, <2>1
    <3>3. i # 0 => turn[<<i, f[i - 1]>>] = Turn(i, f[i - 1])
      BY <3>2
    <3> HIDE DEF turn
    <3> QED
      BY <2>1, <3>3
  <2> HIDE DEF turn
  <2> QED
    BY <2>1, <2>2
<1> DEFINE g == CHOOSE h : Is(h)
<1>7. Is(g)
  <2> HIDE DEF Is
  <2> QED
    BY <1>6
<1>8. g = Built(interval, entries)
  BY DEF Built, Turn, First, N
<1> HIDE DEF g
<1>9. \A i \in 0..N : g[i] = IF i = 0 THEN First ELSE Turn(i, g[i - 1])
  BY <1>7
<1> DEFINE T == {i \in 0..N : g[i] \in Builders}
<1>10. 0 \in T /\ \A i \in 1..N : i - 1 \in T => i \in T
  <2>1. 0 \in 0..N /\ \A i \in 1..N : i \in 0..N /\ i # 0
    BY <1>1
  <2> QED
    BY <1>2, <1>3, <1>9, <2>1
<1>11. \A i \in 0..N : i \in T
  <2> HIDE DEF T
  <2> QED
    BY <1>1, <1>10, Induction
<1> QED
  BY <1>8, <1>9, <1>11 DEF Turn, First, N

\* What was added so far.
BuiltOK(entries, c, n) ==
    /\ c \in Builders /\ Len(c.entries) = n
    /\ c.last = IF n = 0 THEN <<>> ELSE entries[n].key
    /\ c.counter = 0 <=> n = 0
    /\ \A i \in 1..n :
          /\ c.entries[i].value = entries[i].value
          /\ \/ c.entries[i].shared = 0 /\ c.entries[i].delta = entries[i].key
             \/ /\ i > 1 /\ c.entries[i].shared <= Len(entries[i - 1].key)
                /\ entries[i].key = SubSeq(entries[i - 1].key, 1, c.entries[i].shared)
                                        \o c.entries[i].delta
    /\ c.restarts # <<>> /\ c.restarts[1] = 1
    /\ \A r \in DOMAIN c.restarts \ {1} : c.restarts[r] \in 1..n
    /\ \A r \in DOMAIN c.restarts : c.restarts[r] \in 1..n => c.entries[c.restarts[r]].shared = 0

\* An entry that is added can be decoded, and so can those before it.
LEMMA AddKeeps ==
    ASSUME NEW interval \in Nat \ {0}, NEW entries \in Seq(StoredEntries), NEW n \in 1..Len(entries),
           NEW c, BuiltOK(entries, c, n - 1)
    PROVE  BuiltOK(entries, AddEntry(interval, c, entries[n]), n)
<1> DEFINE e == entries[n]
           d == AddEntry(interval, c, e)
           shared == Shared(interval, c, e.key)
           new == [shared |-> shared, value |-> e.value,
                   delta |-> SubSeq(e.key, shared + 1, Len(e.key))]
<1>1. /\ c \in Builders /\ Len(c.entries) = n - 1 /\ n \in Nat
      /\ c.last = IF n - 1 = 0 THEN <<>> ELSE entries[n - 1].key
      /\ c.counter = 0 <=> n - 1 = 0
  BY DEF BuiltOK
<1>2. e \in StoredEntries /\ e.key \in Seq(Nat)
  <2>1. e \in StoredEntries
    OBVIOUS
  <2> HIDE DEF e
  <2> QED
    BY <2>1 DEF StoredEntries, StoredKeys
<1> HIDE DEF e
<1>3. /\ d \in Builders /\ d.last = e.key /\ d.counter \in Nat \ {0}
      /\ d.entries = Append(c.entries, new)
      /\ d.restarts = IF c.counter >= interval
                      THEN Append(c.restarts, Len(c.entries) + 1) ELSE c.restarts
  BY <1>1, <1>2, AddIs
<1>4. /\ shared \in 0..Len(c.last) /\ shared <= Len(e.key)
      /\ e.key = SubSeq(c.last, 1, shared) \o SubSeq(e.key, shared + 1, Len(e.key))
      /\ SubSeq(e.key, shared + 1, Len(e.key)) \in Seq(Nat)
      /\ c.counter >= interval => shared = 0
  BY <1>1, <1>2, SharedIs
<1> HIDE DEF d, shared
<1>5. /\ c.entries \in Seq(BlockEntry) /\ c.restarts \in Seq(Nat) /\ c.counter \in Nat
  BY <1>1 DEF Builders
<1>6. n = 1 => shared = 0
  <2>1. n = 1 => Len(c.last) = 0
    BY <1>1
  <2> QED
    BY <2>1, <1>4
<1>7. new.shared = shared /\ new.value = e.value
      /\ new.delta = SubSeq(e.key, shared + 1, Len(e.key))
  OBVIOUS
<1> HIDE DEF new
<1>8. /\ Len(d.entries) = n /\ d.entries[n] = new
      /\ \A i \in 1..(n - 1) : d.entries[i] = c.entries[i]
  BY <1>1, <1>3, <1>5
<1>9. /\ new.value = e.value
      /\ \/ new.shared = 0 /\ new.delta = e.key
         \/ /\ n > 1 /\ new.shared <= Len(entries[n - 1].key)
            /\ e.key = SubSeq(entries[n - 1].key, 1, new.shared) \o new.delta
  <2>1. CASE n = 1
    <3>1. shared = 0
      BY <1>6, <2>1
    <3>2. SubSeq(e.key, 1, Len(e.key)) = e.key
      BY <1>2
    <3> QED
      BY <1>7, <3>1, <3>2
  <2>2. CASE n # 1
    <3>1. c.last = entries[n - 1].key /\ n > 1
      BY <1>1, <2>2
    <3>2. Len(c.last) \in Nat
      BY <1>1 DEF Builders
    <3>3. shared <= Len(c.last)
      BY <1>4, <3>2
    <3> QED
      BY <1>4, <1>7, <3>1, <3>3
  <2> QED
    BY <2>1, <2>2
<1>10. \A i \in 1..n :
          /\ d.entries[i].value = entries[i].value
          /\ \/ d.entries[i].shared = 0 /\ d.entries[i].delta = entries[i].key
             \/ /\ i > 1 /\ d.entries[i].shared <= Len(entries[i - 1].key)
                /\ entries[i].key = SubSeq(entries[i - 1].key, 1, d.entries[i].shared)
                                        \o d.entries[i].delta
  <2> TAKE i \in 1..n
  <2>1. CASE i = n
    BY <2>1, <1>8, <1>9 DEF e
  <2>2. CASE i # n
    <3>1. i \in 1..(n - 1) /\ d.entries[i] = c.entries[i]
      BY <2>2, <1>1, <1>8
    <3> QED
      BY <3>1 DEF BuiltOK
  <2> QED
    BY <2>1, <2>2
<1>11. /\ d.restarts # <<>> /\ d.restarts[1] = 1
       /\ \A r \in DOMAIN d.restarts \ {1} : d.restarts[r] \in 1..n
       /\ \A r \in DOMAIN d.restarts : d.restarts[r] \in 1..n => d.entries[d.restarts[r]].shared = 0
  <2>1. /\ c.restarts # <<>> /\ c.restarts[1] = 1
        /\ \A r \in DOMAIN c.restarts \ {1} : c.restarts[r] \in 1..(n - 1)
        /\ \A r \in DOMAIN c.restarts :
              c.restarts[r] \in 1..(n - 1) => c.entries[c.restarts[r]].shared = 0
    BY DEF BuiltOK
  <2>2. ASSUME NEW r \in DOMAIN c.restarts
        PROVE  /\ r # 1 => c.restarts[r] \in 1..n
               /\ c.restarts[r] \in 1..n => d.entries[c.restarts[r]].shared = 0
    <3>1. r # 1 => c.restarts[r] \in 1..n
      BY <2>1, <1>1
    <3>2. ASSUME c.restarts[r] \in 1..n PROVE d.entries[c.restarts[r]].shared = 0
      <4>1. CASE c.restarts[r] \in 1..(n - 1)
        BY <4>1, <2>1, <1>8
      <4>2. CASE c.restarts[r] \notin 1..(n - 1)
        <5>1. c.restarts[r] = n /\ r = 1
          BY <4>2, <3>2, <2>1, <1>1
        <5>2. n = 1
          BY <5>1, <2>1
        <5> QED
          BY <5>1, <5>2, <1>6, <1>7, <1>8
      <4> QED
        BY <4>1, <4>2
    <3> QED
      BY <3>1, <3>2
  <2>3. CASE c.counter >= interval
    <3>1. d.restarts = Append(c.restarts, n)
      BY <2>3, <1>1, <1>3
    <3> DEFINE m == Len(c.restarts)
    <3>2. m \in Nat /\ m >= 1 /\ DOMAIN c.restarts = 1..m
      BY <1>5, <2>1
    <3>3. /\ DOMAIN d.restarts = 1..(m + 1) /\ d.restarts[m + 1] = n
          /\ \A r \in 1..m : d.restarts[r] = c.restarts[r]
      BY <3>1, <1>5
    <3>4. d.restarts # <<>> /\ d.restarts[1] = 1
      BY <3>2, <3>3, <2>1
    <3>5. shared = 0 /\ n \in 1..n
      BY <1>1, <1>4, <2>3
    <3> HIDE DEF m
    <3>6. ASSUME NEW r \in DOMAIN d.restarts
          PROVE  /\ r # 1 => d.restarts[r] \in 1..n
                 /\ d.restarts[r] \in 1..n => d.entries[d.restarts[r]].shared = 0
      <4>1. CASE r = m + 1
        BY <4>1, <3>3, <3>5, <1>7, <1>8
      <4>2. CASE r # m + 1
        <5>1. r \in 1..m
          BY <4>2, <3>2, <3>3
        <5> QED
          BY <5>1, <3>2, <3>3, <2>2
      <4> QED
        BY <4>1, <4>2
    <3> QED
      BY <3>4, <3>6
  <2>4. CASE ~(c.counter >= interval)
    <3>1. d.restarts = c.restarts
      BY <2>4, <1>3
    <3> QED
      BY <3>1, <2>1, <2>2
  <2> QED
    BY <2>3, <2>4
<1>12. d.last = IF n = 0 THEN <<>> ELSE entries[n].key
  BY <1>1, <1>3 DEF e
<1>13. d.counter = 0 <=> n = 0
  BY <1>1, <1>3
<1>14. BuiltOK(entries, d, n)
  BY <1>3, <1>8, <1>10, <1>11, <1>12, <1>13 DEF BuiltOK
<1> QED
  BY <1>14 DEF d, e

\* A new block holds the keys it was made of.
LEMMA NewBlockIs ==
    ASSUME NEW interval \in Nat \ {0}, NEW entries \in Seq(StoredEntries)
    PROVE  LET b == NewBlock(interval, entries)
           IN  /\ Holds(b, [i \in 1..Len(entries) |-> entries[i].key])
               /\ \A i \in 1..Len(entries) : b.entries[i].value = entries[i].value
<1> DEFINE N == Len(entries)
           K == [i \in 1..N |-> entries[i].key]
           g == Built(interval, entries)
           b == NewBlock(interval, entries)
<1>1. N \in Nat /\ \A i \in 1..N : entries[i].key \in StoredKeys /\ entries[i].key \in Seq(Nat)
  <2>1. N \in Nat /\ \A i \in 1..N : entries[i] \in StoredEntries
    OBVIOUS
  <2> QED
    BY <2>1 DEF StoredEntries, StoredKeys
<1>2. b = [entries |-> g[N].entries, restarts |-> g[N].restarts]
  BY DEF NewBlock, Built
<1>3. \A i \in 0..N :
          /\ g[i] \in Builders
          /\ g[i] = IF i = 0 THEN [entries |-> <<>>, restarts |-> <<1>>, counter |-> 0,
                                   last |-> <<>>]
                    ELSE AddEntry(interval, g[i - 1], entries[i])
  BY BuiltIs
<1> HIDE DEF N, g, b
<1> DEFINE T == {n \in 0..N : BuiltOK(entries, g[n], n)}
<1>4. 0 \in T
  <2>1. 0 \in 0..N
    BY <1>1
  <2>2. g[0] \in Builders
        /\ g[0] = [entries |-> <<>>, restarts |-> <<1>>, counter |-> 0, last |-> <<>>]
    BY <1>3, <2>1
  <2>3. /\ g[0].entries = <<>> /\ g[0].restarts = <<1>> /\ g[0].counter = 0 /\ g[0].last = <<>>
    BY <2>2
  <2>4. Len(<<>>) = 0 /\ <<1>> # <<>> /\ <<1>>[1] = 1 /\ DOMAIN <<1>> = {1} /\ 1..0 = {}
    OBVIOUS
  <2>5. BuiltOK(entries, g[0], 0)
    BY <2>2, <2>3, <2>4 DEF BuiltOK
  <2> QED
    BY <2>1, <2>5
<1>5. ASSUME NEW n \in 1..N, n - 1 \in T PROVE n \in T
  <2>1. n \in 0..N /\ n # 0 /\ n \in 1..Len(entries)
    BY <1>1 DEF N
  <2>2. g[n] = AddEntry(interval, g[n - 1], entries[n])
    BY <1>3, <2>1
  <2>3. BuiltOK(entries, g[n - 1], n - 1)
    BY <1>5
  <2>4. BuiltOK(entries, g[n], n)
    BY <2>1, <2>2, <2>3, AddKeeps
  <2> QED
    BY <2>1, <2>4
<1>6. BuiltOK(entries, g[N], N)
  <2>1. \A n \in 0..N : n \in T
    <3> HIDE DEF T
    <3> QED
      BY <1>1, <1>4, <1>5, Induction
  <2> QED
    BY <2>1, <1>1
<1>7. K \in Seq(StoredKeys) /\ Len(K) = N /\ DOMAIN K = 1..N /\ \A i \in 1..N : K[i] = entries[i].key
  BY <1>1
<1> DEFINE c == g[N]
<1>8. c.entries \in Seq(BlockEntry) /\ c.restarts \in Seq(Nat) /\ Len(c.entries) = N
  BY <1>6 DEF BuiltOK, Builders
<1>9. b.entries = c.entries /\ b.restarts = c.restarts
  BY <1>2
<1> HIDE DEF K, c
<1>10. \A i \in 1..N :
          /\ c.entries[i].value = entries[i].value
          /\ \/ c.entries[i].shared = 0 /\ c.entries[i].delta = K[i]
             \/ /\ i > 1 /\ c.entries[i].shared <= Len(K[i - 1])
                /\ K[i] = SubSeq(K[i - 1], 1, c.entries[i].shared) \o c.entries[i].delta
  <2> TAKE i \in 1..N
  <2>1. i > 1 => i - 1 \in 1..N
    BY <1>1
  <2>2. K[i] = entries[i].key /\ (i > 1 => K[i - 1] = entries[i - 1].key)
    BY <1>7, <2>1
  <2> QED
    BY <1>6, <2>2 DEF BuiltOK, c
<1>11. /\ c.restarts # <<>> /\ c.restarts[1] = 1
       /\ \A r \in DOMAIN c.restarts \ {1} : c.restarts[r] \in 1..N
       /\ \A r \in DOMAIN c.restarts : c.restarts[r] \in 1..N => c.entries[c.restarts[r]].shared = 0
  BY <1>6 DEF BuiltOK, c
<1>12. Holds(b, K)
  BY <1>7, <1>8, <1>9, <1>10, <1>11 DEF Holds, BlockEntry
<1> QED
  BY <1>9, <1>10, <1>12 DEF K, N, b

-----------------------------------------------------------------------------
(* Building a table. *)

\* How many keys of E are before e.
Rank(E, e) == Cardinality({f \in E : Less(f, e)})

\* A finite set of keys has exactly one key of each rank.
LEMMA RanksAre ==
    ASSUME NEW E \in SUBSET TaggedKeys, IsFiniteSet(E)
    PROVE  /\ Cardinality(E) \in Nat
           /\ \A e \in E : Rank(E, e) \in 0..(Cardinality(E) - 1)
           /\ \A e, f \in E : Less(e, f) => Rank(E, e) < Rank(E, f)
           /\ \A r \in 0..(Cardinality(E) - 1) : \E e \in E : Rank(E, e) = r
<1> DEFINE Below(e) == {f \in E : Less(f, e)}
           n == Cardinality(E)
<1>1. n \in Nat /\ \A e \in E : IsFiniteSet(Below(e)) /\ Rank(E, e) \in Nat
  <2>1. \A U \in SUBSET E : IsFiniteSet(U) /\ Cardinality(U) \in Nat
    BY FS_Subset, FS_CardinalityType
  <2>2. \A e \in E : Below(e) \in SUBSET E
    OBVIOUS
  <2> HIDE DEF Below
  <2> QED
    BY <2>1, <2>2 DEF Rank, Below
<1>2. ASSUME NEW e \in E PROVE Rank(E, e) < n
  <2>1. Below(e) \in SUBSET E /\ e \notin Below(e)
    BY LessIsAnOrder
  <2>2. Below(e) # E /\ Rank(E, e) = Cardinality(Below(e))
    BY <2>1 DEF Rank
  <2> HIDE DEF Below
  <2>3. Cardinality(Below(e)) <= n /\ (n = Cardinality(Below(e)) => E = Below(e))
    BY <2>1, FS_Subset
  <2> QED
    BY <2>2, <2>3, <1>1
<1>3. ASSUME NEW e \in E, NEW f \in E, Less(e, f) PROVE Rank(E, e) < Rank(E, f)
  <2>1. Below(e) \in SUBSET Below(f)
    <3>1. ASSUME NEW x \in Below(e) PROVE x \in Below(f)
      <4>1. x \in TaggedKeys /\ Less(x, e) /\ e \in TaggedKeys /\ f \in TaggedKeys
        OBVIOUS
      <4> QED
        BY <4>1, <1>3, LessIsAnOrder
    <3> QED
      BY <3>1
  <2>2. e \in Below(f) /\ e \notin Below(e)
    BY <1>3, LessIsAnOrder
  <2>3. Rank(E, e) = Cardinality(Below(e)) /\ Rank(E, f) = Cardinality(Below(f))
    BY DEF Rank
  <2>4. IsFiniteSet(Below(f)) /\ Below(e) # Below(f)
    BY <1>1, <2>2
  <2> HIDE DEF Below
  <2>5. Cardinality(Below(e)) <= Cardinality(Below(f))
        /\ (Cardinality(Below(f)) = Cardinality(Below(e)) => Below(f) = Below(e))
    BY <2>1, <2>4, FS_Subset
  <2> QED
    BY <2>3, <2>4, <2>5, <1>1
<1>4. \A e \in E : Rank(E, e) \in 0..(n - 1)
  <2> TAKE e \in E
  <2>1. Rank(E, e) \in Nat /\ Rank(E, e) < n
    BY <1>1, <1>2
  <2> HIDE DEF n
  <2> QED
    BY <2>1, <1>1
<1> DEFINE R == 0..(n - 1)
           rank == [e \in E |-> Rank(E, e)]
<1>5. rank \in [E -> R]
  BY <1>4
<1>6. rank \in Injection(E, R)
  <2>1. ASSUME NEW e \in E, NEW f \in E, rank[e] = rank[f] PROVE e = f
    <3>1. Rank(E, e) = Rank(E, f) /\ Rank(E, e) \in Nat
      BY <2>1, <1>1
    <3>2. ~Less(e, f) /\ ~Less(f, e)
      BY <3>1, <1>3
    <3>3. e \in TaggedKeys /\ f \in TaggedKeys
      OBVIOUS
    <3> QED
      BY <3>2, <3>3, LessIsAnOrder
  <2> HIDE DEF rank, R
  <2> QED
    BY <1>5, <2>1 DEF Injection, IsInjective
<1>7. IsFiniteSet(R) /\ Cardinality(R) = n
  <2>1. IsFiniteSet(R) /\ Cardinality(R) = IF 0 > n - 1 THEN 0 ELSE (n - 1) - 0 + 1
    BY <1>1, FS_Interval
  <2> QED
    BY <2>1, <1>1
<1>8. rank \in Surjection(E, R)
  <2> HIDE DEF rank, R
  <2> QED
    BY <1>6, <1>7, FS_Injection
<1>9. ASSUME NEW r \in R PROVE \E e \in E : Rank(E, e) = r
  <2>1. \E e \in E : rank[e] = r
    <3> HIDE DEF rank, R
    <3> QED
      BY <1>8 DEF Surjection
  <2> QED
    BY <2>1
<1> QED
  BY <1>1, <1>3, <1>4, <1>9

\* The entries of a table, as TableOf finds them.
KeyAt(E, i) == CHOOSE e \in E : Cardinality({f \in E : Less(f, e)}) = i - 1
EntriesOf(E) ==
    [i \in 1..Cardinality(E) |-> [key |-> KeyAt(E, i), value |-> SequenceOf(KeyAt(E, i))]]

\* They are all the keys, in their order, each with its sequence number.
LEMMA EntriesAre ==
    ASSUME NEW E \in SUBSET TaggedKeys, IsFiniteSet(E)
    PROVE  LET entries == EntriesOf(E)
           IN  /\ TableOf(E) = NewTable(entries)
               /\ entries \in Seq(StoredEntries) /\ Len(entries) = Cardinality(E)
               /\ \A i \in 1..Len(entries) : /\ entries[i].key \in E
                                             /\ entries[i].value = SequenceOf(entries[i].key)
               /\ \A i, j \in 1..Len(entries) : i < j => Less(entries[i].key, entries[j].key)
<1> DEFINE entries == EntriesOf(E)
           n == Cardinality(E)
<1>1. TableOf(E) = NewTable(entries)
  BY DEF TableOf, EntriesOf, KeyAt
<1>2. n \in Nat
  BY RanksAre
<1>3. ASSUME NEW i \in 1..n PROVE KeyAt(E, i) \in E /\ Rank(E, KeyAt(E, i)) = i - 1
  <2>1. i - 1 \in 0..(n - 1)
    BY <1>2
  <2>2. \E e \in E : Rank(E, e) = i - 1
    BY <2>1, RanksAre
  <2>3. \E e \in E : Cardinality({f \in E : Less(f, e)}) = i - 1
    BY <2>2 DEF Rank
  <2> QED
    BY <2>3 DEF KeyAt, Rank
<1>4. ASSUME NEW k \in TaggedKeys PROVE k \in StoredKeys /\ SequenceOf(k) \in Nat
  <2>1. Tag(k) \in Nat
    BY <1>4, KeyParts
  <2> QED
    BY <1>4, <2>1, StoredOrder DEF SequenceOf
<1>5. /\ DOMAIN entries = 1..n
      /\ \A i \in 1..n : /\ entries[i] = [key |-> KeyAt(E, i), value |-> SequenceOf(KeyAt(E, i))]
                         /\ entries[i].key = KeyAt(E, i)
                         /\ entries[i].value = SequenceOf(KeyAt(E, i))
  BY DEF EntriesOf
<1>6. \A i \in 1..n : entries[i] \in StoredEntries
  <2> TAKE i \in 1..n
  <2>1. KeyAt(E, i) \in StoredKeys /\ SequenceOf(KeyAt(E, i)) \in Nat
    BY <1>3, <1>4
  <2> HIDE DEF entries
  <2> QED
    BY <2>1, <1>5 DEF StoredEntries
<1>7. entries = [i \in 1..n |-> entries[i]]
  BY DEF EntriesOf
<1> HIDE DEF entries, n
<1>8. entries \in Seq(StoredEntries) /\ Len(entries) = n
  <2>1. entries \in [1..n -> StoredEntries]
    BY <1>6, <1>7
  <2> QED
    BY <2>1, <1>2
<1>9. ASSUME NEW i \in 1..n, NEW j \in 1..n, i < j PROVE Less(entries[i].key, entries[j].key)
  <2> DEFINE a == KeyAt(E, i)
             c == KeyAt(E, j)
  <2>1. a \in E /\ c \in E /\ Rank(E, a) = i - 1 /\ Rank(E, c) = j - 1
    BY <1>3
  <2>2. entries[i].key = a /\ entries[j].key = c
    BY <1>5
  <2> HIDE DEF a, c
  <2>3. a # c /\ ~Less(c, a)
    <3>1. Less(c, a) => Rank(E, c) < Rank(E, a)
      BY <2>1, RanksAre
    <3> QED
      BY <3>1, <2>1, <1>2, <1>9
  <2>4. a \in TaggedKeys /\ c \in TaggedKeys
    BY <2>1
  <2> QED
    BY <2>2, <2>3, <2>4, LessIsAnOrder
<1> QED
  BY <1>1, <1>3, <1>5, <1>8, <1>9 DEF entries, n

\* A key of the index is not before the last key of its block, and before the first of
\* the next one.
LEMMA SeparatorIs ==
    ASSUME NEW key \in TaggedKeys, NEW limit \in TaggedKeys, Less(key, limit)
    PROVE  LET k == Separator(key, limit)
           IN  k \in StoredKeys /\ ~Less(k, key) /\ Less(k, limit)
<1> DEFINE s == User(key)
           t == User(limit)
           n == Common(s, t)
           short == Append(SubSeq(s, 1, n), s[n + 1] + 1)
<1>1. s \in Seq(Nat) /\ t \in Seq(Nat) /\ key \in StoredKeys
  BY KeyParts, StoredOrder
<1>2. CASE n < Len(s) /\ n < Len(t) /\ s[n + 1] + 1 < t[n + 1] /\ Len(short) < Len(s)
  <2>1. Separator(key, limit) = Append(short, MaxTag)
    BY <1>2 DEF Separator
  <2>2. n \in 0..Len(s) /\ n <= Len(t) /\ \A i \in 1..n : s[i] = t[i]
    BY <1>1, CommonIs
  <2> HIDE DEF n, s, t
  <2> DEFINE u == SubSeq(s, 1, n)
             v == s[n + 1] + 1
  <2>3. /\ u \in Seq(Nat) /\ Len(u) = n /\ (\A i \in 1..n : u[i] = s[i])
        /\ v \in Nat /\ n \in Nat /\ s[n + 1] \in Nat /\ Len(s) \in Nat /\ Len(t) \in Nat
        /\ t[n + 1] \in Nat
    <3>1. n \in Nat /\ Len(s) \in Nat /\ Len(t) \in Nat /\ n + 1 \in 1..Len(s) /\ n + 1 \in 1..Len(t)
      BY <1>1, <1>2, <2>2
    <3>2. s[n + 1] \in Nat /\ t[n + 1] \in Nat
      BY <1>1, <3>1
    <3>3. u \in Seq(Nat) /\ Len(u) = n /\ (\A i \in 1..n : u[i] = s[i])
      BY <1>1, <2>2, <3>1
    <3> QED
      BY <3>1, <3>2, <3>3
  <2>4. short = Append(u, v)
    OBVIOUS
  <2> HIDE DEF short, u
  <2>5. short \in Seq(Nat) /\ Len(short) = n + 1 /\ short[n + 1] = v
        /\ \A i \in 1..n : short[i] = s[i]
    BY <2>3, <2>4
  <2>6. UserLess(s, short)
    <3>1. \E m \in 0..Len(s) : /\ m < Len(short) /\ \A i \in 1..m : s[i] = short[i]
                               /\ m < Len(s) => s[m + 1] < short[m + 1]
      <4>1. n \in 0..Len(s)
        BY <2>2
      <4> WITNESS n \in 0..Len(s)
      <4> QED
        BY <2>2, <2>3, <2>5
    <3> QED
      BY <3>1, <1>1, <2>5, UserLessIs
  <2>7. UserLess(short, t)
    <3>1. \E m \in 0..Len(short) : /\ m < Len(t) /\ \A i \in 1..m : short[i] = t[i]
                                   /\ m < Len(short) => short[m + 1] < t[m + 1]
      <4>1. n \in 0..Len(short)
        BY <2>3, <2>5
      <4> WITNESS n \in 0..Len(short)
      <4> QED
        BY <1>2, <2>2, <2>3, <2>5
    <3> QED
      BY <3>1, <1>1, <2>5, UserLessIs
  <2> DEFINE k == Append(short, MaxTag)
  <2>8. k \in StoredKeys /\ User(k) = short
    <3>0. MaxTag \in Nat
      BY DEF MaxTag
    <3>1. k \in Seq(Nat) /\ k # <<>> /\ Len(k) = n + 2
      <4>1. k \in Seq(Nat) /\ Len(k) = Len(short) + 1
        BY <2>5, <3>0
      <4>2. k # <<>>
        BY <2>5, <3>0
      <4> QED
        BY <4>1, <4>2, <2>3, <2>5
    <3>2. SubSeq(k, 1, n + 1) = short
      BY <2>3, <2>5 DEF MaxTag
    <3> HIDE DEF k
    <3> QED
      BY <2>3, <3>1, <3>2 DEF StoredKeys, User, Front
  <2> HIDE DEF k
  <2>9. Less(k, limit)
    BY <2>7, <2>8 DEF Less, t
  <2>10. Less(key, k)
    BY <2>6, <2>8 DEF Less, s
  <2>11. ~Less(k, key)
    BY <1>1, <2>8, <2>10, StoredOrder
  <2> QED
    BY <2>1, <2>8, <2>9, <2>11 DEF k
<1>3. CASE ~(n < Len(s) /\ n < Len(t) /\ s[n + 1] + 1 < t[n + 1] /\ Len(short) < Len(s))
  <2>1. Separator(key, limit) = key
    BY <1>3 DEF Separator
  <2> QED
    BY <2>1, <1>1, LessIsAnOrder
<1> QED
  BY <1>2, <1>3

\* The last key of the index is not before the last of the table.
LEMMA SuccessorIs ==
    ASSUME NEW key \in TaggedKeys
    PROVE  Successor(key) \in StoredKeys /\ ~Less(Successor(key), key)
<1> DEFINE s == User(key)
           k == <<key[1] + 1, MaxTag>>
<1>1. s \in Seq(Nat) /\ s # <<>> /\ key \in StoredKeys /\ key = Append(s, Tag(key)) /\ Tag(key) \in Nat
  BY KeyParts, StoredOrder
<1>2. CASE Len(s) > 1
  <2>1. Successor(key) = k
    BY <1>2 DEF Successor
  <2> HIDE DEF s
  <2>2. key[1] = s[1] /\ s[1] \in Nat
    BY <1>1, <1>2
  <2> DEFINE short == <<s[1] + 1>>
  <2>3. k \in StoredKeys /\ User(k) = short
    <3>1. k = <<s[1] + 1, MaxTag>> /\ MaxTag \in Nat
      BY <2>2 DEF MaxTag
    <3>2. k \in Seq(Nat) /\ Len(k) = 2 /\ k # <<>>
      BY <2>2, <3>1
    <3>3. SubSeq(k, 1, 1) = short
      <4> DEFINE z == SubSeq(k, 1, 1)
      <4>1. k[1] = s[1] + 1 /\ short[1] = s[1] + 1 /\ Len(short) = 1 /\ short \in Seq(Nat)
        BY <2>2, <3>1
      <4> HIDE DEF k, short
      <4>2. z \in Seq(Nat) /\ Len(z) = 1 /\ z[1] = k[1]
        BY <3>2
      <4> HIDE DEF z
      <4>3. z = [i \in 1..Len(z) |-> z[i]] /\ short = [i \in 1..Len(short) |-> short[i]]
        BY <4>1, <4>2
      <4>4. \A i \in 1..1 : i = 1
        OBVIOUS
      <4> QED
        BY <4>1, <4>2, <4>3, <4>4 DEF z
    <3> HIDE DEF k
    <3> QED
      BY <3>2, <3>3 DEF StoredKeys, User, Front
  <2>4. short \in Seq(Nat) /\ Len(short) = 1 /\ short[1] = s[1] + 1
    BY <2>2
  <2> HIDE DEF k, short
  <2>5. UserLess(s, short)
    <3>1. \E m \in 0..Len(s) : /\ m < Len(short) /\ \A i \in 1..m : s[i] = short[i]
                               /\ m < Len(s) => s[m + 1] < short[m + 1]
      <4>1. 0 \in 0..Len(s) /\ Len(s) \in Nat
        BY <1>1
      <4> WITNESS 0 \in 0..Len(s)
      <4> QED
        BY <1>1, <2>2, <2>4
    <3> QED
      BY <3>1, <1>1, <2>4, UserLessIs
  <2>6. Less(key, k)
    BY <2>3, <2>5 DEF Less, s
  <2> QED
    BY <2>1, <2>3, <2>6, <1>1, StoredOrder
<1>3. CASE ~(Len(s) > 1)
  <2>1. Successor(key) = key
    BY <1>3 DEF Successor
  <2> QED
    BY <2>1, <1>1, LessIsAnOrder
<1> QED
  BY <1>2, <1>3

\* Decoding gives the keys that a block holds.
LEMMA KeysOfIs ==
    ASSUME NEW b, NEW K, Holds(b, K)
    PROVE  KeysOf(b) = K
<1> DEFINE N == Len(K)
           e(i) == b.entries[i]
           Key1(g, i) == IF e(i).shared = 0 THEN e(i).delta
                         ELSE SubSeq(g[i - 1], 1, e(i).shared) \o e(i).delta
           Is(g) == g = [i \in 1..N |-> Key1(g, i)]
<1>1. /\ N \in Nat /\ DOMAIN K = 1..N /\ Len(b.entries) = N /\ K = [i \in 1..N |-> K[i]]
      /\ \A i \in 1..N : /\ K[i] \in Seq(Nat) /\ e(i).shared \in Nat /\ e(i).delta \in Seq(Nat)
                         /\ \/ e(i).shared = 0 /\ e(i).delta = K[i]
                            \/ i > 1 /\ K[i] = SubSeq(K[i - 1], 1, e(i).shared) \o e(i).delta
  <2>1. N \in Nat /\ DOMAIN K = 1..N /\ Len(b.entries) = N /\ K = [i \in 1..N |-> K[i]]
    BY HoldsIs DEF Holds
  <2>2. \A i \in 1..N : K[i] \in Seq(Nat) /\ e(i).shared \in Nat /\ e(i).delta \in Seq(Nat)
    BY HoldsIs
  <2> QED
    BY <2>1, <2>2 DEF Holds
<1> HIDE DEF e, N
<1>2. \A a \in Seq(Nat) : SubSeq(a, 1, 0) = <<>> /\ <<>> \o a = a
  OBVIOUS
<1>3. \A i \in 1..N : K[i] = Key1(K, i) /\ (i = 1 => e(i).shared = 0)
  <2> TAKE i \in 1..N
  <2>1. CASE e(i).shared = 0 /\ e(i).delta = K[i]
    BY <2>1
  <2>2. CASE i > 1 /\ K[i] = SubSeq(K[i - 1], 1, e(i).shared) \o e(i).delta
    <3>1. i - 1 \in 1..N /\ i # 1
      BY <1>1, <2>2
    <3>2. e(i).shared = 0 => K[i] = e(i).delta
      BY <1>1, <1>2, <2>2, <3>1
    <3> QED
      BY <2>2, <3>1, <3>2
  <2> QED
    BY <1>1, <2>1, <2>2
<1>4. Is(K)
  <2> HIDE DEF Key1
  <2> QED
    BY <1>1, <1>3
<1> DEFINE g == CHOOSE h : Is(h)
<1>5. Is(g)
  <2> HIDE DEF Is
  <2> QED
    BY <1>4
<1>6. g = KeysOf(b)
  BY <1>1 DEF KeysOf, e
<1> HIDE DEF g
<1>7. \A i \in 1..N : g[i] = Key1(g, i)
  BY <1>5
<1> DEFINE T == {n \in 0..N : n = 0 \/ g[n] = K[n]}
<1>8. 0 \in T
  BY <1>1
<1>9. ASSUME NEW n \in 1..N, n - 1 \in T PROVE n \in T
  <2>1. n - 1 = 0 \/ g[n - 1] = K[n - 1]
    BY <1>9
  <2>2. n - 1 = 0 => e(n).shared = 0
    BY <1>3
  <2>3. g[n] = K[n]
    BY <2>1, <2>2, <1>3, <1>7
  <2> QED
    BY <2>3
<1>10. \A n \in 0..N : n \in T
  <2> HIDE DEF T
  <2> QED
    BY <1>1, <1>8, <1>9, Induction
<1>11. \A i \in 1..N : g[i] = K[i]
  <2> TAKE i \in 1..N
  <2>1. i # 0 /\ i \in 0..N
    BY <1>1
  <2>2. i \in T
    BY <1>10, <2>1
  <2> QED
    BY <2>1, <2>2
<1>12. g = [i \in 1..N |-> g[i]]
  BY <1>5
<1>13. g = K
  BY <1>1, <1>11, <1>12
<1> QED
  BY <1>6, <1>13

\* The parts of a new table.
Count(entries) == (Len(entries) + BlockEntries - 1) \div BlockEntries
Part(entries, i) == SubSeq(entries, (i - 1) * BlockEntries + 1,
                           IF i = Count(entries) THEN Len(entries) ELSE i * BlockEntries)
IndexKeyOf(entries, i) ==
    IF i = Count(entries) THEN Successor(Last(Part(entries, i)).key)
    ELSE Separator(Last(Part(entries, i)).key, Head(Part(entries, i + 1)).key)

\* A new table has one block for each.
LEMMA NewTableParts ==
    ASSUME NEW entries
    PROVE  NewTable(entries) =
             [blocks |-> [i \in 1..Count(entries) |-> NewBlock(RestartInterval, Part(entries, i))],
              index |-> NewBlock(1, [i \in 1..Count(entries) |->
                                        [key |-> IndexKeyOf(entries, i), value |-> i]])]
BY DEF NewTable, Count, Part, IndexKeyOf

\* The parts are not empty and cover the entries in their order.
LEMMA PartsAre ==
    ASSUME NEW S, NEW entries \in Seq(S)
    PROVE  LET n == Count(entries)
               From(i) == (i - 1) * BlockEntries
           IN  /\ n \in Nat
               /\ \A i \in 1..n :
                     /\ Part(entries, i) \in Seq(S) /\ Len(Part(entries, i)) \in Nat \ {0}
                     /\ \A d \in 1..Len(Part(entries, i)) :
                           From(i) + d \in 1..Len(entries)
                           /\ Part(entries, i)[d] = entries[From(i) + d]
               /\ \A i, j \in 1..n : i < j =>
                     \A d \in 1..Len(Part(entries, i)), c \in 1..Len(Part(entries, j)) :
                         From(i) + d < From(j) + c
<1> DEFINE N == Len(entries)
           B == BlockEntries
           n == Count(entries)
           From(i) == (i - 1) * B
           To1(i) == IF i = n THEN N ELSE i * B
<1>1. N \in Nat /\ B \in Nat \ {0}
  BY BlockAssumption
<1> HIDE DEF N, B
<1>2. n \in Nat /\ n * B <= N + B - 1 /\ N + B - 1 < n * B + B
  <2>1. N + B - 1 \in Nat
    BY <1>1
  <2> DEFINE a == N + B - 1
  <2>2. n = a \div B
    BY DEF Count, N, B
  <2> HIDE DEF a, n
  <2>3. a \in Nat
    BY <2>1 DEF a
  <2>4. a \div B \in Nat /\ (a \div B) * B <= a /\ a < (a \div B) * B + B
    BY <2>3, <1>1
  <2> QED
    BY <2>2, <2>4 DEF a
<1> HIDE DEF n
<1>3. \A x, y \in Int : x <= y => x * B <= y * B
  BY <1>1
<1>4. \A x \in Int : (x - 1) * B = x * B - B /\ x * B \in Int
  BY <1>1
<1>5. ASSUME NEW i \in 1..n
      PROVE  /\ From(i) \in Nat /\ To1(i) \in Nat /\ To1(i) <= N /\ From(i) + 1 <= To1(i)
             /\ To1(i) <= i * B
  <2>1. From(i) = i * B - B /\ i * B \in Int /\ n * B \in Int
    <3>1. i \in Int /\ n \in Int
      BY <1>2
    <3> QED
      BY <1>4, <3>1
  <2>2. 1 * B <= i * B /\ i * B <= n * B /\ 1 * B = B
    BY <1>1, <1>2, <1>3
  <2>3. CASE i = n
    BY <2>1, <2>2, <2>3, <1>1, <1>2
  <2>4. CASE i # n
    <3>1. i * B <= (n - 1) * B /\ (n - 1) * B = n * B - B
      BY <1>2, <1>3, <1>4, <2>4
    <3> QED
      BY <2>1, <2>2, <2>4, <3>1, <1>1, <1>2
  <2> QED
    BY <2>3, <2>4
<1>6. ASSUME NEW i \in 1..n
      PROVE  /\ Part(entries, i) \in Seq(S) /\ Len(Part(entries, i)) = To1(i) - From(i)
             /\ \A d \in 1..Len(Part(entries, i)) : /\ From(i) + d \in 1..N
                                                    /\ Part(entries, i)[d] = entries[From(i) + d]
  <2> DEFINE a == From(i)
             z == To1(i)
             p == Part(entries, i)
  <2>1. a \in Nat /\ z \in Nat /\ z <= N /\ a + 1 <= z
    BY <1>5
  <2>2. p = SubSeq(entries, a + 1, z)
    BY DEF Part, B, n, N
  <2> HIDE DEF a, z, p
  <2>3. p \in Seq(S) /\ Len(p) = z - a
    BY <2>1, <2>2, <1>1 DEF N
  <2>4. ASSUME NEW d \in 1..Len(p) PROVE a + d \in 1..N /\ p[d] = entries[a + d]
    <3>1. a + 1 + d - 1 = a + d /\ a + d \in 1..N
      BY <2>1, <2>3, <1>1
    <3>2. p[d] = entries[a + 1 + d - 1]
      BY <2>1, <2>2, <2>3, <1>1 DEF N
    <3> QED
      BY <3>1, <3>2
  <2> QED
    BY <2>3, <2>4 DEF a, z, p
<1>7. ASSUME NEW i \in 1..n, NEW j \in 1..n, i < j,
             NEW d \in 1..Len(Part(entries, i)), NEW c \in 1..Len(Part(entries, j))
      PROVE  From(i) + d < From(j) + c
  <2>1. /\ From(i) \in Nat /\ From(j) \in Nat /\ Len(Part(entries, i)) = To1(i) - From(i)
        /\ To1(i) \in Nat /\ To1(i) <= i * B
    BY <1>5, <1>6
  <2>2. i * B <= From(j) /\ i * B \in Int
    BY <1>2, <1>3, <1>4, <1>7
  <2> HIDE DEF From, To1
  <2>3. d \in Nat /\ d <= To1(i) - From(i) /\ c \in Nat /\ c >= 1
    BY <2>1
  <2> QED
    BY <2>1, <2>2, <2>3
<1>8. \A i \in 1..n : Len(Part(entries, i)) \in Nat \ {0}
  <2> TAKE i \in 1..n
  <2>1. /\ From(i) \in Nat /\ To1(i) \in Nat /\ From(i) + 1 <= To1(i)
        /\ Len(Part(entries, i)) = To1(i) - From(i)
    BY <1>5, <1>6
  <2> HIDE DEF From, To1
  <2> QED
    BY <2>1
<1> QED
  BY <1>2, <1>6, <1>7, <1>8 DEF n, B, N

\* The keys of the entries of a part.
PartKeys(p) == [d \in 1..Len(p) |-> p[d].key]

\* What the entries of a table are, part by part.
LEMMA EntriesOfParts ==
    ASSUME NEW E \in SUBSET TaggedKeys, IsFiniteSet(E)
    PROVE  LET P(i) == Part(EntriesOf(E), i)
               n == Count(EntriesOf(E))
           IN  /\ n \in Nat
               /\ \A i \in 1..n :
                     /\ P(i) \in Seq(StoredEntries) /\ Len(P(i)) \in Nat \ {0}
                     /\ \A d \in 1..Len(P(i)) : /\ P(i)[d].key \in E
                                                /\ P(i)[d].value = SequenceOf(P(i)[d].key)
               /\ \A i, j \in 1..n : \A d \in 1..Len(P(i)), c \in 1..Len(P(j)) :
                     i < j \/ (i = j /\ d < c) => Less(P(i)[d].key, P(j)[c].key)
<1> DEFINE entries == EntriesOf(E)
           N == Len(entries)
           P(i) == Part(entries, i)
           n == Count(entries)
           From(i) == (i - 1) * BlockEntries
<1>1. /\ entries \in Seq(StoredEntries)
      /\ \A i \in 1..N : entries[i].key \in E /\ entries[i].value = SequenceOf(entries[i].key)
      /\ \A i, j \in 1..N : i < j => Less(entries[i].key, entries[j].key)
  BY EntriesAre
<1> HIDE DEF entries
<1>2. /\ n \in Nat
      /\ \A i \in 1..n :
            /\ P(i) \in Seq(StoredEntries) /\ Len(P(i)) \in Nat \ {0}
            /\ \A d \in 1..Len(P(i)) : From(i) + d \in 1..N /\ P(i)[d] = entries[From(i) + d]
      /\ \A i, j \in 1..n : i < j =>
            \A d \in 1..Len(P(i)), c \in 1..Len(P(j)) : From(i) + d < From(j) + c
  BY <1>1, PartsAre
<1>3. \A i \in 1..n : From(i) \in Int
  <2> TAKE i \in 1..n
  <2>1. i \in Int /\ BlockEntries \in Int
    BY <1>2, BlockAssumption
  <2> QED
    BY <2>1
<1> HIDE DEF P, n, From, N
<1>4. ASSUME NEW i \in 1..n, NEW d \in 1..Len(P(i))
      PROVE  P(i)[d].key \in E /\ P(i)[d].value = SequenceOf(P(i)[d].key)
  BY <1>1, <1>2
<1>5. ASSUME NEW i \in 1..n, NEW j \in 1..n, NEW d \in 1..Len(P(i)), NEW c \in 1..Len(P(j)),
             i < j \/ (i = j /\ d < c)
      PROVE  Less(P(i)[d].key, P(j)[c].key)
  <2>1. From(i) + d < From(j) + c
    <3>1. CASE i < j
      BY <1>2, <3>1
    <3>2. CASE i = j /\ d < c
      <4>1. Len(P(i)) \in Nat /\ From(i) \in Int
        BY <1>2, <1>3
      <4> QED
        BY <3>2, <4>1
    <3> QED
      BY <1>5, <3>1, <3>2
  <2> QED
    BY <1>1, <1>2, <2>1
<1> QED
  BY <1>2, <1>4, <1>5 DEF entries, P, n

\* The index key of a part is not before its last key, and before the first of the next.
LEMMA IndexKeysAre ==
    ASSUME NEW E \in SUBSET TaggedKeys, IsFiniteSet(E)
    PROVE  LET P(i) == Part(EntriesOf(E), i)
               n == Count(EntriesOf(E))
               I(i) == IndexKeyOf(EntriesOf(E), i)
           IN  /\ \A i \in 1..n : I(i) \in StoredKeys
               /\ \A i \in 1..n : \A d \in 1..Len(P(i)) : ~Less(I(i), P(i)[d].key)
               /\ \A i, k \in 1..n : k < i => \A d \in 1..Len(P(i)) : Less(I(k), P(i)[d].key)
               /\ \A i, k \in 1..n : k < i => Less(I(k), I(i))
<1> DEFINE entries == EntriesOf(E)
           P(i) == Part(entries, i)
           n == Count(entries)
           I(i) == IndexKeyOf(entries, i)
<1>1. /\ n \in Nat
      /\ \A i \in 1..n :
            /\ P(i) \in Seq(StoredEntries) /\ Len(P(i)) \in Nat \ {0}
            /\ \A d \in 1..Len(P(i)) : P(i)[d].key \in TaggedKeys
      /\ \A i, j \in 1..n : \A d \in 1..Len(P(i)), c \in 1..Len(P(j)) :
            i < j \/ (i = j /\ d < c) => Less(P(i)[d].key, P(j)[c].key)
  BY EntriesOfParts
<1>2. ASSUME NEW i \in 1..n
      PROVE  /\ Last(P(i)) = P(i)[Len(P(i))] /\ Head(P(i)) = P(i)[1]
             /\ 1 \in 1..Len(P(i)) /\ Len(P(i)) \in 1..Len(P(i))
  <2> DEFINE p == P(i)
  <2>1. p \in Seq(StoredEntries) /\ Len(p) \in Nat \ {0}
    BY <1>1
  <2> HIDE DEF p
  <2> QED
    BY <2>1 DEF Last, p
<1>3. \A i \in 1..n : I(i) = IF i = n THEN Successor(Last(P(i)).key)
                              ELSE Separator(Last(P(i)).key, Head(P(i + 1)).key)
  BY DEF IndexKeyOf
<1> HIDE DEF entries, P, n, I
<1>4. ASSUME NEW i \in 1..n
      PROVE  /\ I(i) \in StoredKeys /\ ~Less(I(i), P(i)[Len(P(i))].key)
             /\ i # n => i + 1 \in 1..n /\ Less(I(i), P(i + 1)[1].key)
  <2>1. Last(P(i)) = P(i)[Len(P(i))] /\ P(i)[Len(P(i))].key \in TaggedKeys
    BY <1>1, <1>2
  <2>2. CASE i = n
    BY <1>3, <2>1, <2>2, SuccessorIs
  <2>3. CASE i # n
    <3>1. i + 1 \in 1..n /\ i < i + 1
      BY <1>1, <2>3
    <3>2. Head(P(i + 1)) = P(i + 1)[1] /\ 1 \in 1..Len(P(i + 1)) /\ Len(P(i)) \in 1..Len(P(i))
      BY <1>2, <3>1
    <3>3. Less(P(i)[Len(P(i))].key, P(i + 1)[1].key) /\ P(i + 1)[1].key \in TaggedKeys
      BY <1>1, <3>1, <3>2
    <3>4. I(i) = Separator(P(i)[Len(P(i))].key, P(i + 1)[1].key)
      BY <1>3, <2>1, <2>3, <3>2
    <3> QED
      BY <2>1, <2>3, <3>1, <3>3, <3>4, SeparatorIs
  <2> QED
    BY <2>2, <2>3
<1>5. \A i \in 1..n : \A d \in 1..Len(P(i)) : P(i)[d].key \in StoredKeys
  BY <1>1, StoredOrder
<1>6. ASSUME NEW i \in 1..n, NEW d \in 1..Len(P(i)) PROVE ~Less(I(i), P(i)[d].key)
  <2>1. Len(P(i)) \in 1..Len(P(i)) /\ Len(P(i)) \in Nat
    BY <1>1, <1>2
  <2>2. d = Len(P(i)) \/ Less(P(i)[d].key, P(i)[Len(P(i))].key)
    BY <1>1, <2>1
  <2> QED
    BY <1>4, <1>5, <2>1, <2>2, StoredOrder
<1>7. ASSUME NEW i \in 1..n, NEW k \in 1..n, k < i, NEW d \in 1..Len(P(i))
      PROVE  Less(I(k), P(i)[d].key)
  <2>1. k # n /\ (k + 1 = i \/ k + 1 < i)
    BY <1>1, <1>7
  <2>2. k + 1 \in 1..n /\ Less(I(k), P(k + 1)[1].key) /\ I(k) \in StoredKeys
    BY <1>4, <2>1
  <2>3. 1 \in 1..Len(P(k + 1))
    BY <1>2, <2>2
  <2>4. (k + 1 = i /\ d = 1) \/ Less(P(k + 1)[1].key, P(i)[d].key)
    <3>1. d = 1 \/ 1 < d
      BY <1>1
    <3> QED
      BY <1>1, <2>1, <2>2, <2>3, <3>1
  <2> QED
    BY <1>5, <2>2, <2>3, <2>4, StoredOrder
<1>8. ASSUME NEW i \in 1..n, NEW k \in 1..n, k < i PROVE Less(I(k), I(i))
  <2>1. 1 \in 1..Len(P(i))
    BY <1>2
  <2>2. ~Less(I(i), P(i)[1].key) /\ Less(I(k), P(i)[1].key) /\ P(i)[1].key \in StoredKeys
    BY <1>5, <1>6, <1>7, <1>8, <2>1
  <2>3. I(i) \in StoredKeys /\ I(k) \in StoredKeys
    BY <1>4
  <2> QED
    BY <2>2, <2>3, StoredOrder
<1> QED
  BY <1>4, <1>6, <1>7, <1>8 DEF entries, P, n, I

\* A new table is a table of its keys.
LEMMA NewTableIs ==
    ASSUME NEW E \in SUBSET TaggedKeys, IsFiniteSet(E)
    PROVE  LET t == TableOf(E)
           IN  IsTable(t, DataKeys(t), KeysOf(t.index)) /\ TableKeys(t) \subseteq E
<1> DEFINE entries == EntriesOf(E)
           P(i) == Part(entries, i)
           n == Count(entries)
           Ik(i) == IndexKeyOf(entries, i)
           index == [i \in 1..n |-> [key |-> Ik(i), value |-> i]]
           t == TableOf(E)
           D == DataKeys(t)
           I == KeysOf(t.index)
<1>1. /\ n \in Nat
      /\ \A i \in 1..n :
            /\ P(i) \in Seq(StoredEntries) /\ Len(P(i)) \in Nat \ {0}
            /\ \A d \in 1..Len(P(i)) : P(i)[d].key \in E /\ P(i)[d].value = SequenceOf(P(i)[d].key)
      /\ \A i, j \in 1..n : \A d \in 1..Len(P(i)), c \in 1..Len(P(j)) :
            i < j \/ (i = j /\ d < c) => Less(P(i)[d].key, P(j)[c].key)
  BY EntriesOfParts
<1>2. /\ \A i \in 1..n : Ik(i) \in StoredKeys
      /\ \A i \in 1..n : \A d \in 1..Len(P(i)) : ~Less(Ik(i), P(i)[d].key)
      /\ \A i, k \in 1..n : k < i => \A d \in 1..Len(P(i)) : Less(Ik(k), P(i)[d].key)
      /\ \A i, k \in 1..n : k < i => Less(Ik(k), Ik(i))
  BY IndexKeysAre
<1>3. t = [blocks |-> [i \in 1..n |-> NewBlock(RestartInterval, P(i))],
           index |-> NewBlock(1, index)]
  <2>1. t = NewTable(entries)
    BY EntriesAre
  <2> HIDE DEF t, entries
  <2> QED
    BY <2>1, NewTableParts
<1> HIDE DEF entries, P, n, Ik
<1>4. /\ t.blocks = [i \in 1..n |-> NewBlock(RestartInterval, P(i))]
      /\ t.index = NewBlock(1, index) /\ Len(t.blocks) = n /\ DOMAIN t.blocks = 1..n
  <2> HIDE DEF t, index
  <2> QED
    BY <1>1, <1>3
<1>5. ASSUME NEW i \in 1..n
      PROVE  /\ Holds(t.blocks[i], PartKeys(P(i)))
             /\ \A d \in 1..Len(P(i)) : t.blocks[i].entries[d].value = P(i)[d].value
             /\ D[i] = PartKeys(P(i))
  <2>1. t.blocks[i] = NewBlock(RestartInterval, P(i)) /\ RestartInterval \in Nat \ {0}
    <3> HIDE DEF t
    <3> QED
      BY <1>4, BlockAssumption
  <2>2. Holds(t.blocks[i], PartKeys(P(i)))
        /\ \A d \in 1..Len(P(i)) : t.blocks[i].entries[d].value = P(i)[d].value
    <3> HIDE DEF t
    <3> QED
      BY <1>1, <2>1, NewBlockIs DEF PartKeys
  <2>3. D[i] = KeysOf(t.blocks[i])
    <3> HIDE DEF t
    <3> QED
      BY <1>4 DEF DataKeys
  <2> HIDE DEF t, D
  <2> QED
    BY <2>2, <2>3, KeysOfIs
<1>6. /\ Holds(t.index, I) /\ Len(I) = n /\ DOMAIN I = 1..n
      /\ \A i \in 1..n : I[i] = Ik(i) /\ t.index.entries[i].value = i
  <2>1. index \in Seq(StoredEntries) /\ Len(index) = n
    <3>1. \A i \in 1..n : [key |-> Ik(i), value |-> i] \in StoredEntries
      BY <1>1, <1>2 DEF StoredEntries
    <3> QED
      BY <1>1, <3>1
  <2>2. \A i \in 1..n : index[i].key = Ik(i) /\ index[i].value = i
    OBVIOUS
  <2> DEFINE K == [i \in 1..Len(index) |-> index[i].key]
  <2>3. K = [i \in 1..n |-> Ik(i)]
    BY <2>1
  <2>4. Holds(NewBlock(1, index), K)
        /\ \A i \in 1..n : NewBlock(1, index).entries[i].value = index[i].value
    <3> HIDE DEF index
    <3>1. /\ Holds(NewBlock(1, index), K)
          /\ \A i \in 1..Len(index) : NewBlock(1, index).entries[i].value = index[i].value
      <4>1. index \in Seq(StoredEntries) /\ 1 \in Nat \ {0}
        BY <2>1
      <4> HIDE DEF K
      <4>2. /\ Holds(NewBlock(1, index), [i \in 1..Len(index) |-> index[i].key])
            /\ \A i \in 1..Len(index) : NewBlock(1, index).entries[i].value = index[i].value
        BY <4>1, NewBlockIs
      <4> QED
        BY <4>2 DEF K
    <3> QED
      BY <2>1, <3>1
  <2>5. t.index = NewBlock(1, index)
    BY <1>4
  <2>6. I = K
    <3> HIDE DEF K, index, t
    <3> QED
      BY <2>4, <2>5, KeysOfIs
  <2>7. Len(I) = n /\ DOMAIN I = 1..n /\ \A i \in 1..n : I[i] = Ik(i)
    <3> HIDE DEF I, K
    <3> QED
      BY <2>3, <2>6, <1>1
  <2> HIDE DEF I, K, index, t
  <2> QED
    BY <2>2, <2>4, <2>5, <2>6, <2>7
<1>7. D = [i \in 1..n |-> D[i]]
  <2>1. D = [i \in DOMAIN t.blocks |-> KeysOf(t.blocks[i])]
    BY DEF DataKeys
  <2> HIDE DEF t, D
  <2> QED
    BY <1>4, <2>1
<1> HIDE DEF D, I, t, index
<1>8. ASSUME NEW i \in 1..n
      PROVE  /\ D[i] \in Seq(TaggedKeys) /\ D[i] # <<>> /\ DOMAIN D[i] = 1..Len(P(i))
             /\ \A d \in 1..Len(P(i)) : D[i][d] = P(i)[d].key
  <2>1. Len(P(i)) \in Nat \ {0} /\ D[i] = PartKeys(P(i))
        /\ \A d \in 1..Len(P(i)) : P(i)[d].key \in TaggedKeys
    BY <1>1, <1>5
  <2> DEFINE p == P(i)
  <2> HIDE DEF p
  <2>2. Len(p) \in Nat \ {0} /\ D[i] = PartKeys(p) /\ \A d \in 1..Len(p) : p[d].key \in TaggedKeys
    BY <2>1 DEF p
  <2>3. PartKeys(p) \in Seq(TaggedKeys) /\ Len(PartKeys(p)) = Len(p)
    BY <2>2 DEF PartKeys
  <2>4. DOMAIN PartKeys(p) = 1..Len(p) /\ \A d \in 1..Len(p) : PartKeys(p)[d] = p[d].key
    BY DEF PartKeys
  <2>5. PartKeys(p) # <<>>
    BY <2>2, <2>3
  <2> QED
    BY <2>2, <2>3, <2>4, <2>5 DEF p
<1>9. D \in [1..n -> Seq(TaggedKeys)]
  BY <1>7, <1>8
<1>10. Ordered(I)
  BY <1>2, <1>6 DEF Ordered
<1>11. \A i \in 1..n : Holds(t.blocks[i], D[i]) /\ Ordered(D[i])
  <2> TAKE i \in 1..n
  <2>1. Holds(t.blocks[i], D[i])
    BY <1>5
  <2>2. Ordered(D[i])
    <3>1. DOMAIN D[i] = 1..Len(P(i)) /\ \A d \in 1..Len(P(i)) : D[i][d] = P(i)[d].key
      BY <1>8
    <3>2. \A d, c \in 1..Len(P(i)) : d < c => Less(P(i)[d].key, P(i)[c].key)
      BY <1>1
    <3> QED
      BY <3>1, <3>2 DEF Ordered
  <2> QED
    BY <2>1, <2>2
<1>12. ASSUME NEW i \in 1..n, NEW j \in DOMAIN D[i]
       PROVE  /\ t.blocks[i].entries[j].value = SequenceOf(D[i][j]) /\ ~Less(I[i], D[i][j])
              /\ \A k \in 1..(i - 1) : Less(I[k], D[i][j])
  <2>1. j \in 1..Len(P(i)) /\ D[i][j] = P(i)[j].key
    BY <1>8
  <2>2. \A k \in 1..(i - 1) : k \in 1..n /\ k < i
    BY <1>1
  <2>3. t.blocks[i].entries[j].value = P(i)[j].value
    BY <1>5, <2>1
  <2> QED
    BY <1>1, <1>2, <1>6, <2>1, <2>2, <2>3
<1>13. IsTable(t, D, I)
  BY <1>1, <1>4, <1>6, <1>8, <1>9, <1>10, <1>11, <1>12 DEF IsTable
<1>14. TableKeys(t) \subseteq E
  <2>1. DOMAIN D = 1..n
    BY <1>7
  <2>2. \A i \in 1..n : \A d \in DOMAIN D[i] : D[i][d] \in E
    BY <1>1, <1>8
  <2> QED
    BY <2>1, <2>2 DEF TableKeys, D
<1> QED
  BY <1>13, <1>14 DEF D, I, t

-----------------------------------------------------------------------------
(* The iterator of a table. *)

\* What the definition of a table says.
LEMMA TableIs ==
    ASSUME NEW t, NEW D, NEW I, IsTable(t, D, I)
    PROVE  /\ Len(t.blocks) \in Nat /\ DOMAIN t.blocks = 1..Len(t.blocks)
           /\ Len(I) = Len(t.blocks) /\ Holds(t.index, I) /\ Ordered(I)
           /\ \A i \in 1..Len(t.blocks) :
                 /\ t.index.entries[i].value = i
                 /\ Holds(t.blocks[i], D[i]) /\ Ordered(D[i]) /\ Len(D[i]) \in Nat \ {0}
                 /\ DOMAIN D[i] = 1..Len(D[i])
                 /\ \A j \in 1..Len(D[i]) :
                       /\ D[i][j] \in TaggedKeys
                       /\ t.blocks[i].entries[j].value = SequenceOf(D[i][j])
                       /\ ~Less(I[i], D[i][j])
                       /\ \A k \in 1..(i - 1) : Less(I[k], D[i][j])
<1> DEFINE n == Len(t.blocks)
<1>1. /\ n \in Nat /\ DOMAIN t.blocks = 1..n
      /\ Len(I) = n /\ Holds(t.index, I) /\ Ordered(I)
      /\ \A i \in 1..n : t.index.entries[i].value = i
      /\ D \in [1..n -> Seq(TaggedKeys)]
      /\ \A i \in 1..n : D[i] # <<>> /\ Holds(t.blocks[i], D[i]) /\ Ordered(D[i])
      /\ \A i \in 1..n : \A j \in DOMAIN D[i] :
            /\ t.blocks[i].entries[j].value = SequenceOf(D[i][j])
            /\ ~Less(I[i], D[i][j])
            /\ \A k \in 1..(i - 1) : Less(I[k], D[i][j])
  BY DEF IsTable
<1> HIDE DEF n
<1>2. ASSUME NEW i \in 1..n
      PROVE  /\ Len(D[i]) \in Nat \ {0} /\ DOMAIN D[i] = 1..Len(D[i])
             /\ \A j \in 1..Len(D[i]) : D[i][j] \in TaggedKeys
  <2> DEFINE K == D[i]
  <2>1. K \in Seq(TaggedKeys) /\ K # <<>>
    BY <1>1
  <2> HIDE DEF K
  <2>2. Len(K) \in Nat \ {0} /\ DOMAIN K = 1..Len(K) /\ \A j \in 1..Len(K) : K[j] \in TaggedKeys
    BY <2>1
  <2> QED
    BY <2>2 DEF K
<1> QED
  BY <1>1, <1>2 DEF n

\* The keys of an earlier block are before those of a later one.
LEMMA TableOrder ==
    ASSUME NEW t, NEW D, NEW I, IsTable(t, D, I),
           NEW i \in 1..Len(t.blocks), NEW k \in 1..Len(t.blocks), k < i,
           NEW c \in 1..Len(D[k]), NEW d \in 1..Len(D[i])
    PROVE  Less(D[k][c], D[i][d])
<1>1. /\ Len(t.blocks) \in Nat /\ D[k][c] \in StoredKeys /\ D[i][d] \in StoredKeys
      /\ ~Less(I[k], D[k][c]) /\ (k \in 1..(i - 1) => Less(I[k], D[i][d]))
      /\ Len(I) = Len(t.blocks) /\ Holds(t.index, I)
  BY TableIs, StoredOrder
<1>2. k \in 1..(i - 1)
  BY <1>1
<1>3. I[k] \in StoredKeys
  BY <1>1, HeldKeys
<1> QED
  BY <1>1, <1>2, <1>3, StoredOrder

\* An iterator of a block has the variables of one.
LEMMA ItersAreStates ==
    ASSUME NEW b, NEW K, Holds(b, K), NEW it \in BlockIters(b, K)
    PROVE  it \in BlockStates /\ it.corrupt = FALSE
<1>1. Limit(b) \in Nat /\ it \in IterStates(b)
  BY HoldsIs, ItersIs
<1>2. 1..Limit(b) \subseteq Nat
  BY <1>1
<1> QED
  BY <1>1, <1>2 DEF BlockStates, IterStates

\* What the definition of the iterators of a table says.
LEMMA LooseIs ==
    ASSUME NEW t, NEW D, NEW I, IsTable(t, D, I), NEW it \in LooseIters(t, D, I)
    PROVE  /\ it = [index |-> it.index, block |-> it.block, data |-> it.data,
                    handle |-> it.handle, failed |-> it.failed]
           /\ it.index \in BlockIters(t.index, I)
           /\ it.block \in Unread..Len(t.blocks) /\ it.handle \in 0..Len(t.blocks)
           /\ it.data \in BlockStates \cup {<<>>} /\ it.failed \in BOOLEAN
           /\ it.block > 0 => /\ it.handle = it.block /\ it.block \in 1..Len(t.blocks)
                              /\ it.data \in BlockIters(t.blocks[it.block], D[it.block])
           /\ TableFailed(it) <=> it.failed \/ it.block = Unread
           /\ TableFailed(it) \in BOOLEAN
           /\ it.index.current \in 1..(Len(t.blocks) + 1)
           /\ IterValid(t.index, it.index) <=> it.index.current <= Len(t.blocks)
           /\ IterValid(t.index, it.index) => it.index.value = it.index.current
<1>0. it \in [index : BlockIters(t.index, I), block : Unread..Len(t.blocks),
              data : BlockStates \cup {<<>>}, handle : 0..Len(t.blocks), failed : BOOLEAN]
      /\ (it.block > 0 => /\ it.handle = it.block
                          /\ it.data \in BlockIters(t.blocks[it.block], D[it.block]))
  BY DEF LooseIters
<1>1. /\ it = [index |-> it.index, block |-> it.block, data |-> it.data,
               handle |-> it.handle, failed |-> it.failed]
      /\ it.index \in BlockIters(t.index, I)
      /\ it.block \in Unread..Len(t.blocks) /\ it.handle \in 0..Len(t.blocks)
      /\ it.data \in BlockStates \cup {<<>>} /\ it.failed \in BOOLEAN
  BY <1>0
<1>2. /\ Len(t.blocks) \in Nat /\ Len(I) = Len(t.blocks) /\ Holds(t.index, I)
      /\ \A i \in 1..Len(t.blocks) : /\ t.index.entries[i].value = i /\ Holds(t.blocks[i], D[i])
  BY TableIs
<1>3. it.block > 0 => /\ it.handle = it.block /\ it.block \in 1..Len(t.blocks)
                      /\ it.data \in BlockIters(t.blocks[it.block], D[it.block])
  BY <1>0, <1>1, <1>2 DEF Unread
<1>4. it.index.corrupt = FALSE /\ (it.block > 0 => it.data.corrupt = FALSE)
  BY <1>1, <1>2, <1>3, ItersAreStates
<1>5. (TableFailed(it) <=> it.failed \/ it.block = Unread) /\ TableFailed(it) \in BOOLEAN
  BY <1>1, <1>4 DEF TableFailed
<1>6. /\ it.index.current \in 1..(Len(t.blocks) + 1)
      /\ IterValid(t.index, it.index) <=> it.index.current <= Len(t.blocks)
  BY <1>1, <1>2, ItersIs
<1>7. IterValid(t.index, it.index) => it.index.value = it.index.current
  <2>1. IterValid(t.index, it.index) => it.index.value = t.index.entries[it.index.current].value
    BY <1>1 DEF BlockIters
  <2>2. IterValid(t.index, it.index) => it.index.current \in 1..Len(t.blocks)
    BY <1>2, <1>6
  <2> QED
    BY <1>2, <2>1, <2>2
<1> QED
  BY <1>1, <1>3, <1>5, <1>6, <1>7

\* A record of those fields is such an iterator.
LEMMA LooseFrom ==
    ASSUME NEW t, NEW D, NEW I, NEW x \in BlockIters(t.index, I), NEW b \in Unread..Len(t.blocks),
           NEW d \in BlockStates \cup {<<>>}, NEW h \in 0..Len(t.blocks), NEW f \in BOOLEAN,
           b > 0 => h = b /\ d \in BlockIters(t.blocks[b], D[b])
    PROVE  LET r == [index |-> x, block |-> b, data |-> d, handle |-> h, failed |-> f]
           IN  r \in LooseIters(t, D, I)
<1> DEFINE r == [index |-> x, block |-> b, data |-> d, handle |-> h, failed |-> f]
<1>1. r.block = b /\ r.handle = h /\ r.data = d
  OBVIOUS
<1>2. r \in [index : BlockIters(t.index, I), block : Unread..Len(t.blocks),
             data : BlockStates \cup {<<>>}, handle : 0..Len(t.blocks), failed : BOOLEAN]
  OBVIOUS
<1> HIDE DEF r
<1>3. r \in LooseIters(t, D, I)
  BY <1>1, <1>2 DEF LooseIters
<1> QED
  BY <1>3 DEF r

\* SetDataIterator changes three variables,
LEMMA SetFields ==
    ASSUME NEW a, NEW b, NEW d, NEW h, NEW g, NEW it, NEW f, NEW n, NEW data,
           it = [index |-> a, block |-> b, data |-> d, handle |-> h, failed |-> g]
    PROVE  [it EXCEPT !.failed = f, !.block = n, !.data = data]
           = [index |-> a, block |-> n, data |-> data, handle |-> h, failed |-> f]
<1>1. \A x, y, z, u, v, w : LET r == [index |-> x, block |-> y, data |-> z, handle |-> u, failed |-> v]
      IN  /\ [r EXCEPT !.failed = w] = [index |-> x, block |-> y, data |-> z, handle |-> u, failed |-> w]
          /\ [r EXCEPT !.block = w] = [index |-> x, block |-> w, data |-> z, handle |-> u, failed |-> v]
          /\ [r EXCEPT !.data = w] = [index |-> x, block |-> y, data |-> w, handle |-> u, failed |-> v]
  OBVIOUS
<1> DEFINE p == [it EXCEPT !.failed = f]
           q == [p EXCEPT !.block = n]
<1>2. p = [index |-> a, block |-> b, data |-> d, handle |-> h, failed |-> f]
  BY <1>1
<1> HIDE DEF p
<1>3. q = [index |-> a, block |-> n, data |-> d, handle |-> h, failed |-> f]
  BY <1>1, <1>2
<1> HIDE DEF q
<1>4. [q EXCEPT !.data = data] = [index |-> a, block |-> n, data |-> data, handle |-> h, failed |-> f]
  BY <1>1, <1>3
<1> QED
  BY <1>4 DEF p, q

\* and leaves the iterator of the index and the handle alone.
LEMMA SetDataIs ==
    ASSUME NEW it, NEW n, NEW data,
           it = [index |-> it.index, block |-> it.block, data |-> it.data,
                 handle |-> it.handle, failed |-> it.failed]
    PROVE  SetData(it, n, data) = [index |-> it.index, block |-> n, data |-> data,
                                   handle |-> it.handle, failed |-> TableFailed(it)]
<1> DEFINE f == TableFailed(it)
<1>1. SetData(it, n, data) = [it EXCEPT !.failed = f, !.block = n, !.data = data]
  BY DEF SetData
<1> HIDE DEF f
<1> QED
  BY <1>1, SetFields DEF f

\* InitDataBlock gives the block at which the index is.
LEMMA InitDataIs ==
    ASSUME NEW t, NEW D, NEW I, IsTable(t, D, I), NEW it \in LooseIters(t, D, I), NEW bad
    PROVE  LET r == InitDataBlock(t, bad, it)
           IN  /\ r \in TableIters(t, D, I) /\ r.index = it.index
               /\ bad = {} /\ ~TableFailed(it) => ~TableFailed(r)
<1> DEFINE n == it.index.current
           r == InitDataBlock(t, bad, it)
           f == TableFailed(it)
<1>1. /\ it = [index |-> it.index, block |-> it.block, data |-> it.data,
               handle |-> it.handle, failed |-> it.failed]
      /\ it.index \in BlockIters(t.index, I)
      /\ it.block \in Unread..Len(t.blocks) /\ it.handle \in 0..Len(t.blocks)
      /\ it.data \in BlockStates \cup {<<>>} /\ it.failed \in BOOLEAN
      /\ it.block > 0 => /\ it.handle = it.block /\ it.block \in 1..Len(t.blocks)
                         /\ it.data \in BlockIters(t.blocks[it.block], D[it.block])
      /\ f \in BOOLEAN
      /\ n \in 1..(Len(t.blocks) + 1)
      /\ IterValid(t.index, it.index) <=> n <= Len(t.blocks)
      /\ IterValid(t.index, it.index) => it.index.value = n
  BY LooseIs
<1>2. /\ Len(t.blocks) \in Nat
      /\ \A i \in 1..Len(t.blocks) : Holds(t.blocks[i], D[i])
  BY TableIs
<1> HIDE DEF f
<1>3. CASE ~IterValid(t.index, it.index)
  <2> DEFINE q == [index |-> it.index, block |-> 0, data |-> <<>>, handle |-> it.handle, failed |-> f]
  <2>1. r = SetData(it, 0, <<>>)
    BY <1>3 DEF InitDataBlock
  <2>2. SetData(it, 0, <<>>) = q
    BY <1>1, SetDataIs DEF f
  <2>3. q \in LooseIters(t, D, I)
    <3>1. 0 \in Unread..Len(t.blocks) /\ ~(0 > 0) /\ <<>> \in BlockStates \cup {<<>>}
      BY <1>2 DEF Unread
    <3>2. it.index \in BlockIters(t.index, I) /\ it.handle \in 0..Len(t.blocks) /\ f \in BOOLEAN
      BY <1>1
    <3> HIDE DEF f
    <3> QED
      BY <3>1, <3>2, LooseFrom
  <2>4. q.index = it.index /\ q.block = 0 /\ q.failed = f
    OBVIOUS
  <2> HIDE DEF q, r
  <2>5. q \in TableIters(t, D, I)
    BY <1>3, <2>3, <2>4 DEF TableIters
  <2>6. TableFailed(q) <=> f
    BY <2>3, <2>4, LooseIs DEF Unread
  <2> QED
    BY <2>1, <2>2, <2>4, <2>5, <2>6 DEF f, r
<1>4. CASE IterValid(t.index, it.index) /\ it.block # 0 /\ n = it.handle
  <2>1. r = it
    BY <1>1, <1>4 DEF InitDataBlock
  <2>2. it.block \in {n, Unread}
    BY <1>1, <1>2, <1>4 DEF Unread
  <2> HIDE DEF r
  <2>3. it \in TableIters(t, D, I)
    BY <1>4, <2>2 DEF TableIters
  <2> QED
    BY <2>1, <2>3 DEF r
<1>5. CASE IterValid(t.index, it.index) /\ ~(it.block # 0 /\ n = it.handle)
  <2> DEFINE B == IF n \in bad THEN Unread ELSE n
             data == IF n \in bad THEN <<>> ELSE NewIter(t.blocks[n])
             q == [index |-> it.index, block |-> B, data |-> data, handle |-> n, failed |-> f]
  <2>1. r = [SetData(it, B, data) EXCEPT !.handle = n]
    BY <1>1, <1>5 DEF InitDataBlock
  <2>2. SetData(it, B, data) = [index |-> it.index, block |-> B, data |-> data,
                                handle |-> it.handle, failed |-> f]
    <3> HIDE DEF B, data
    <3> QED
      BY <1>1, SetDataIs DEF f
  <2>3. r = q
    <3> HIDE DEF B, data, r
    <3> QED
      BY <2>1, <2>2
  <2>4. n \in 1..Len(t.blocks)
    BY <1>1, <1>2, <1>5
  <2>5. NewIter(t.blocks[n]) \in BlockIters(t.blocks[n], D[n]) /\ NewIter(t.blocks[n]) \in BlockStates
    BY <1>2, <2>4, NewIterIs, ItersAreStates
  <2>6. B \in Unread..Len(t.blocks) /\ data \in BlockStates \cup {<<>>}
        /\ (B > 0 => n = B /\ data \in BlockIters(t.blocks[B], D[B]))
    <3>1. CASE n \in bad
      BY <1>2, <3>1 DEF Unread
    <3>2. CASE n \notin bad
      BY <1>2, <2>4, <2>5, <3>2 DEF Unread
    <3> QED
      BY <3>1, <3>2
  <2>7. B \in {n, Unread} /\ (bad = {} => B = n)
    OBVIOUS
  <2> HIDE DEF B, data
  <2>8. q \in LooseIters(t, D, I)
    <3>1. n \in 0..Len(t.blocks)
      BY <1>2, <2>4
    <3> HIDE DEF n
    <3> QED
      BY <1>1, <2>6, <3>1, LooseFrom
  <2>9. q.index = it.index /\ q.block = B /\ q.failed = f /\ q.handle = n
    OBVIOUS
  <2> HIDE DEF q, r
  <2>10. q \in TableIters(t, D, I)
    BY <1>5, <2>7, <2>8, <2>9 DEF TableIters
  <2>11. TableFailed(q) <=> (f \/ B = Unread)
    BY <2>8, <2>9, LooseIs
  <2>12. bad = {} => B # Unread
    BY <2>4, <2>7 DEF Unread
  <2> QED
    BY <2>3, <2>9, <2>10, <2>11, <2>12 DEF f, r
<1> QED
  BY <1>3, <1>4, <1>5

\* The iterator has a block that could be read, one that could not, or none.
LEMMA TableItersAreLoose ==
    ASSUME NEW t, NEW D, NEW I, NEW it \in TableIters(t, D, I)
    PROVE  /\ it \in LooseIters(t, D, I)
           /\ IF IterValid(t.index, it.index)
              THEN it.handle = it.index.current /\ it.block \in {it.index.current, Unread}
              ELSE it.block = 0
BY DEF TableIters

\* The other variables stay when one is assigned: the iterator of the data block,
LEMMA DataField ==
    ASSUME NEW it, NEW d,
           it = [index |-> it.index, block |-> it.block, data |-> it.data,
                 handle |-> it.handle, failed |-> it.failed]
    PROVE  [it EXCEPT !.data = d] = [index |-> it.index, block |-> it.block, data |-> d,
                                     handle |-> it.handle, failed |-> it.failed]
<1>1. \A x, y, z, u, v, w : [[index |-> x, block |-> y, data |-> z, handle |-> u, failed |-> v]
                                 EXCEPT !.data = w]
            = [index |-> x, block |-> y, data |-> w, handle |-> u, failed |-> v]
  OBVIOUS
<1> QED
  BY <1>1

\* and that of the index.
LEMMA IndexField ==
    ASSUME NEW it, NEW d,
           it = [index |-> it.index, block |-> it.block, data |-> it.data,
                 handle |-> it.handle, failed |-> it.failed]
    PROVE  [it EXCEPT !.index = d] = [index |-> d, block |-> it.block, data |-> it.data,
                                      handle |-> it.handle, failed |-> it.failed]
<1>1. \A x, y, z, u, v, w : [[index |-> x, block |-> y, data |-> z, handle |-> u, failed |-> v]
                                 EXCEPT !.index = w]
            = [index |-> w, block |-> y, data |-> z, handle |-> u, failed |-> v]
  OBVIOUS
<1> QED
  BY <1>1

\* The iterator of the data block moves.
LEMMA DataMoves ==
    ASSUME NEW t, NEW D, NEW I, IsTable(t, D, I), NEW it \in TableIters(t, D, I), it.block > 0,
           NEW d \in BlockIters(t.blocks[it.block], D[it.block])
    PROVE  LET r == [it EXCEPT !.data = d]
           IN  /\ r \in TableIters(t, D, I) /\ r.index = it.index /\ r.block = it.block
               /\ r.data = d /\ (TableFailed(r) <=> TableFailed(it))
<1> DEFINE r == [it EXCEPT !.data = d]
           q == [index |-> it.index, block |-> it.block, data |-> d,
                 handle |-> it.handle, failed |-> it.failed]
<1>1. it \in LooseIters(t, D, I)
      /\ IF IterValid(t.index, it.index)
         THEN it.handle = it.index.current /\ it.block \in {it.index.current, Unread}
         ELSE it.block = 0
  BY TableItersAreLoose
<1>2. /\ it = [index |-> it.index, block |-> it.block, data |-> it.data,
               handle |-> it.handle, failed |-> it.failed]
      /\ it.index \in BlockIters(t.index, I)
      /\ it.block \in Unread..Len(t.blocks) /\ it.handle \in 0..Len(t.blocks)
      /\ it.failed \in BOOLEAN /\ it.handle = it.block /\ it.block \in 1..Len(t.blocks)
      /\ TableFailed(it) <=> it.failed \/ it.block = Unread
  BY <1>1, LooseIs
<1>3. r = q
  BY <1>2, DataField
<1>4. d \in BlockStates
  BY <1>2, TableIs, ItersAreStates
<1>5. q \in LooseIters(t, D, I)
  BY <1>2, <1>4, LooseFrom
<1>6. /\ q.index = it.index /\ q.block = it.block /\ q.data = d /\ q.handle = it.handle
      /\ q.failed = it.failed
  OBVIOUS
<1> HIDE DEF q, r
<1>7. q \in TableIters(t, D, I)
  BY <1>1, <1>5, <1>6 DEF TableIters
<1>8. TableFailed(q) <=> q.failed \/ q.block = Unread
  BY <1>5, LooseIs
<1> QED
  BY <1>2, <1>3, <1>6, <1>7, <1>8 DEF r

\* The iterator of the index moves.
LEMMA IndexMoves ==
    ASSUME NEW t, NEW D, NEW I, IsTable(t, D, I), NEW it \in LooseIters(t, D, I),
           NEW x \in BlockIters(t.index, I)
    PROVE  LET r == [it EXCEPT !.index = x]
           IN  /\ r \in LooseIters(t, D, I) /\ r.index = x
               /\ TableFailed(r) <=> TableFailed(it)
<1> DEFINE r == [it EXCEPT !.index = x]
           q == [index |-> x, block |-> it.block, data |-> it.data,
                 handle |-> it.handle, failed |-> it.failed]
<1>2. /\ it = [index |-> it.index, block |-> it.block, data |-> it.data,
               handle |-> it.handle, failed |-> it.failed]
      /\ it.block \in Unread..Len(t.blocks) /\ it.handle \in 0..Len(t.blocks)
      /\ it.data \in BlockStates \cup {<<>>} /\ it.failed \in BOOLEAN
      /\ it.block > 0 => /\ it.handle = it.block /\ it.block \in 1..Len(t.blocks)
                         /\ it.data \in BlockIters(t.blocks[it.block], D[it.block])
      /\ TableFailed(it) <=> it.failed \/ it.block = Unread
  BY LooseIs
<1>3. r = q
  BY <1>2, IndexField
<1>5. q \in LooseIters(t, D, I)
  BY <1>2, LooseFrom
<1>6. q.index = x /\ q.block = it.block /\ q.failed = it.failed
  OBVIOUS
<1> HIDE DEF q, r
<1>8. TableFailed(q) <=> q.failed \/ q.block = Unread
  BY <1>5, LooseIs
<1> QED
  BY <1>2, <1>3, <1>5, <1>6, <1>8 DEF r

\* The block's states are those from which its iterator can be moved anywhere.
LEMMA DataStates ==
    ASSUME NEW t, NEW D, NEW I, IsTable(t, D, I), NEW it \in TableIters(t, D, I), it.block > 0
    PROVE  /\ it.block \in 1..Len(t.blocks) /\ Holds(t.blocks[it.block], D[it.block])
           /\ it.data \in BlockIters(t.blocks[it.block], D[it.block])
           /\ it.data \in IterStates(t.blocks[it.block])
           /\ it.block = it.index.current /\ IterValid(t.index, it.index)
           /\ Len(D[it.block]) \in Nat \ {0} /\ Ordered(D[it.block])
           /\ it.data.current \in 1..(Len(D[it.block]) + 1)
           /\ TableValid(t, it) <=> it.data.current <= Len(D[it.block])
           /\ TableValid(t, it) <=> IterValid(t.blocks[it.block], it.data)
           /\ TableValid(t, it) => /\ it.data.key = D[it.block][it.data.current]
                                   /\ it.data.value = SequenceOf(it.data.key)
                                   /\ it.data.key \in TaggedKeys
                                   /\ it.data.current \in 1..Len(D[it.block])
<1> DEFINE b == t.blocks[it.block]
           K == D[it.block]
<1>1. it \in LooseIters(t, D, I)
      /\ IF IterValid(t.index, it.index)
         THEN it.handle = it.index.current /\ it.block \in {it.index.current, Unread}
         ELSE it.block = 0
  BY TableItersAreLoose
<1>2. it.block \in 1..Len(t.blocks) /\ it.data \in BlockIters(b, K)
  BY <1>1, LooseIs
<1>3. it.block = it.index.current /\ IterValid(t.index, it.index)
  BY <1>1, <1>2, TableIs DEF Unread
<1>4. /\ Holds(b, K) /\ Len(K) \in Nat \ {0} /\ Ordered(K)
      /\ \A j \in 1..Len(K) : K[j] \in TaggedKeys /\ b.entries[j].value = SequenceOf(K[j])
  BY <1>2, TableIs
<1>5. TableValid(t, it) <=> IterValid(b, it.data)
  BY <1>2 DEF TableValid
<1> HIDE DEF b, K
<1>6. /\ it.data \in IterStates(b) /\ it.data.current \in 1..(Len(K) + 1)
      /\ IterValid(b, it.data) <=> it.data.current <= Len(K)
      /\ IterValid(b, it.data) => it.data.key = K[it.data.current]
  BY <1>2, <1>4, ItersIs
<1>7. IterValid(b, it.data) => it.data.value = b.entries[it.data.current].value
  BY <1>2 DEF BlockIters
<1>8. IterValid(b, it.data) => it.data.current \in 1..Len(K)
  BY <1>4, <1>6
<1> QED
  BY <1>2, <1>3, <1>4, <1>5, <1>6, <1>7, <1>8 DEF b, K

\* The block that has been read is never empty: its first entry,
LEMMA ToFirstIs ==
    ASSUME NEW t, NEW D, NEW I, IsTable(t, D, I), NEW it \in TableIters(t, D, I)
    PROVE  LET r == ToFirst(t, it)
           IN  /\ r \in TableIters(t, D, I) /\ r.index = it.index /\ r.block = it.block
               /\ r.block > 0 => TableValid(t, r)
               /\ TableFailed(r) <=> TableFailed(it)
<1>1. CASE it.block > 0
  <2> DEFINE d == BlockSeekToFirst(t.blocks[it.block], it.data)
             r == [it EXCEPT !.data = d]
  <2>1. ToFirst(t, it) = r
    BY <1>1 DEF ToFirst
  <2>2. d \in BlockIters(t.blocks[it.block], D[it.block]) /\ IterValid(t.blocks[it.block], d)
    BY <1>1, DataStates, BlockFirstIs
  <2> HIDE DEF d
  <2>3. r \in TableIters(t, D, I) /\ r.index = it.index /\ r.block = it.block /\ r.data = d
        /\ (TableFailed(r) <=> TableFailed(it))
    BY <1>1, <2>2, DataMoves
  <2>4. TableValid(t, r)
    BY <1>1, <2>2, <2>3 DEF TableValid
  <2> QED
    BY <2>1, <2>3, <2>4
<1>2. CASE ~(it.block > 0)
  BY <1>2 DEF ToFirst
<1> QED
  BY <1>1, <1>2

\* its last entry,
LEMMA ToLastIs ==
    ASSUME NEW t, NEW D, NEW I, IsTable(t, D, I), NEW it \in TableIters(t, D, I)
    PROVE  LET r == ToLast(t, it)
           IN  /\ r \in TableIters(t, D, I) /\ r.index = it.index /\ r.block = it.block
               /\ r.block > 0 => TableValid(t, r)
               /\ TableFailed(r) <=> TableFailed(it)
<1>1. CASE it.block > 0
  <2> DEFINE d == BlockSeekToLast(t.blocks[it.block], it.data)
             r == [it EXCEPT !.data = d]
  <2>1. ToLast(t, it) = r
    BY <1>1 DEF ToLast
  <2>2. d \in BlockIters(t.blocks[it.block], D[it.block]) /\ IterValid(t.blocks[it.block], d)
    BY <1>1, DataStates, BlockLastIs
  <2> HIDE DEF d
  <2>3. r \in TableIters(t, D, I) /\ r.index = it.index /\ r.block = it.block /\ r.data = d
        /\ (TableFailed(r) <=> TableFailed(it))
    BY <1>1, <2>2, DataMoves
  <2>4. TableValid(t, r)
    BY <1>1, <2>2, <2>3 DEF TableValid
  <2> QED
    BY <2>1, <2>3, <2>4
<1>2. CASE ~(it.block > 0)
  BY <1>2 DEF ToLast
<1> QED
  BY <1>1, <1>2

\* and the entry that is sought, or the end.
LEMMA ToTargetIs ==
    ASSUME NEW t, NEW D, NEW I, IsTable(t, D, I), NEW it \in TableIters(t, D, I),
           NEW target \in StoredKeys
    PROVE  LET r == ToTarget(t, it, target)
           IN  /\ r \in TableIters(t, D, I) /\ r.index = it.index /\ r.block = it.block
               /\ TableFailed(r) <=> TableFailed(it)
<1>1. CASE it.block > 0
  <2> DEFINE d == BlockSeek(t.blocks[it.block], it.data, target)
             r == [it EXCEPT !.data = d]
  <2>1. ToTarget(t, it, target) = r
    BY <1>1 DEF ToTarget
  <2>2. d \in BlockIters(t.blocks[it.block], D[it.block])
    BY <1>1, DataStates, BlockSeekIs
  <2> HIDE DEF d
  <2>3. r \in TableIters(t, D, I) /\ r.index = it.index /\ r.block = it.block /\ r.data = d
        /\ (TableFailed(r) <=> TableFailed(it))
    BY <1>1, <2>2, DataMoves
  <2> QED
    BY <2>1, <2>3
<1>2. CASE ~(it.block > 0)
  BY <1>2 DEF ToTarget
<1> QED
  BY <1>1, <1>2

\* The end of a table.
LEMMA EndIs ==
    ASSUME NEW t, NEW D, NEW I, IsTable(t, D, I), NEW it \in TableIters(t, D, I),
           ~IterValid(t.index, it.index)
    PROVE  LET r == SetData(it, 0, <<>>)
           IN  /\ r \in TableIters(t, D, I) /\ r.index = it.index /\ r.block = 0
               /\ TableFailed(r) <=> TableFailed(it)
<1> DEFINE r == SetData(it, 0, <<>>)
           f == TableFailed(it)
           q == [index |-> it.index, block |-> 0, data |-> <<>>, handle |-> it.handle, failed |-> f]
<1>1. it \in LooseIters(t, D, I) /\ it.block = 0
  BY TableItersAreLoose
<1>2. /\ it = [index |-> it.index, block |-> it.block, data |-> it.data,
               handle |-> it.handle, failed |-> it.failed]
      /\ it.index \in BlockIters(t.index, I) /\ it.handle \in 0..Len(t.blocks) /\ f \in BOOLEAN
  BY <1>1, LooseIs
<1>3. r = q
  BY <1>2, SetDataIs
<1>4. 0 \in Unread..Len(t.blocks) /\ ~(0 > 0) /\ <<>> \in BlockStates \cup {<<>>}
  BY TableIs DEF Unread
<1> HIDE DEF f
<1>5. q \in LooseIters(t, D, I)
  BY <1>2, <1>4, LooseFrom
<1>6. q.index = it.index /\ q.block = 0 /\ q.failed = f
  OBVIOUS
<1> HIDE DEF q, r
<1>7. q \in TableIters(t, D, I)
  BY <1>5, <1>6 DEF TableIters
<1>8. TableFailed(q) <=> f
  BY <1>5, <1>6, LooseIs DEF Unread
<1> QED
  BY <1>3, <1>6, <1>7, <1>8 DEF f, r

\* One turn of SkipEmptyDataBlocksForward.
ForwardStep(t, bad, s) ==
    IF TableValid(t, s) THEN s
    ELSE IF ~IterValid(t.index, s.index) THEN SetData(s, 0, <<>>)
    ELSE ToFirst(t, InitDataBlock(t, bad, [s EXCEPT !.index = BlockNext(t.index, @)]))

\* It goes to the first entry of the next block, or to the end.
LEMMA ForwardStepIs ==
    ASSUME NEW t, NEW D, NEW I, IsTable(t, D, I), NEW s \in TableIters(t, D, I), NEW bad
    PROVE  LET r == ForwardStep(t, bad, s)
           IN  /\ r \in TableIters(t, D, I)
               /\ TableValid(t, s) => r = s
               /\ ~TableValid(t, s) /\ s.block = 0 => r.block = 0
               /\ ~AtRest(t, s) => /\ r.index.current = s.index.current + 1
                                   /\ r.block > 0 => TableValid(t, r)
               /\ bad = {} /\ ~TableFailed(s) => ~TableFailed(r)
<1> DEFINE r == ForwardStep(t, bad, s)
<1>1. /\ s \in LooseIters(t, D, I)
      /\ IF IterValid(t.index, s.index)
         THEN s.handle = s.index.current /\ s.block \in {s.index.current, Unread}
         ELSE s.block = 0
  BY TableItersAreLoose
<1>2. /\ s.index \in BlockIters(t.index, I) /\ Len(t.blocks) \in Nat
      /\ s.index.current \in 1..(Len(t.blocks) + 1) /\ Holds(t.index, I)
  BY <1>1, LooseIs, TableIs
<1>3. CASE TableValid(t, s)
  BY <1>3 DEF ForwardStep, AtRest
<1>4. CASE ~TableValid(t, s) /\ ~IterValid(t.index, s.index)
  <2>1. r = SetData(s, 0, <<>>) /\ s.block = 0
    BY <1>1, <1>4 DEF ForwardStep
  <2> HIDE DEF r
  <2>2. r \in TableIters(t, D, I) /\ r.block = 0 /\ (TableFailed(r) <=> TableFailed(s))
    BY <1>4, <2>1, EndIs
  <2> QED
    BY <1>4, <2>1, <2>2 DEF AtRest, r
<1>5. CASE ~TableValid(t, s) /\ IterValid(t.index, s.index)
  <2> DEFINE x == BlockNext(t.index, s.index)
             p == [s EXCEPT !.index = x]
             q == InitDataBlock(t, bad, p)
  <2>1. r = ToFirst(t, q)
    BY <1>5 DEF ForwardStep
  <2>2. x \in BlockIters(t.index, I) /\ x.current = s.index.current + 1
    BY <1>2, <1>5, BlockNextIs
  <2> HIDE DEF x, r
  <2>3. p \in LooseIters(t, D, I) /\ p.index = x /\ (TableFailed(p) <=> TableFailed(s))
    BY <1>1, <2>2, IndexMoves
  <2> HIDE DEF p
  <2>4. q \in TableIters(t, D, I) /\ q.index = x /\ (bad = {} /\ ~TableFailed(p) => ~TableFailed(q))
    BY <2>3, InitDataIs
  <2> HIDE DEF q
  <2>5. r \in TableIters(t, D, I) /\ r.index = x /\ (r.block > 0 => TableValid(t, r))
        /\ (TableFailed(r) <=> TableFailed(q))
    BY <2>1, <2>4, ToFirstIs
  <2>6. s.block # 0
    <3>1. s.block \in {s.index.current, Unread}
      BY <1>1, <1>5
    <3> QED
      BY <1>2, <3>1 DEF Unread
  <2> QED
    BY <1>5, <2>2, <2>3, <2>4, <2>5, <2>6 DEF AtRest, r
<1> QED
  BY <1>3, <1>4, <1>5

\* The function with which Forward computes.
MovedForward(t, bad, it) ==
    LET moved[n \in 0..(Len(t.blocks) + 1)] ==
            IF n = 0 THEN it
            ELSE LET s == moved[n - 1]
                 IN  IF TableValid(t, s) THEN s
                     ELSE IF ~IterValid(t.index, s.index) THEN SetData(s, 0, <<>>)
                     ELSE ToFirst(t, InitDataBlock(t, bad,
                                         [s EXCEPT !.index = BlockNext(t.index, @)]))
    IN  moved

\* It is what its definition says, and every turn leaves an iterator of the table.
LEMMA MovedForwardIs ==
    ASSUME NEW t, NEW D, NEW I, IsTable(t, D, I), NEW it \in TableIters(t, D, I), NEW bad
    PROVE  LET g == MovedForward(t, bad, it)
           IN  \A n \in 0..(Len(t.blocks) + 1) :
                  /\ g[n] \in TableIters(t, D, I)
                  /\ g[n] = IF n = 0 THEN it ELSE ForwardStep(t, bad, g[n - 1])
<1> DEFINE L == Len(t.blocks) + 1
           G == TableIters(t, D, I)
           Turn(s) == ForwardStep(t, bad, s)
           turn == [x \in (1..L) \X G |-> Turn(x[2])]
           Is(g) == g = [n \in 0..L |-> IF n = 0 THEN it ELSE Turn(g[n - 1])]
<1>1. L \in Nat /\ it \in G
  BY TableIs
<1>2. ASSUME NEW s \in G PROVE Turn(s) \in G
  BY ForwardStepIs
<1> HIDE DEF L, G, Turn
<1>3. turn \in [(1..L) \X G -> G]
  BY <1>2
<1>4. PICK f \in Iterates(G, L, it, turn) : TRUE
  <2> HIDE DEF turn
  <2> QED
    BY <1>1, <1>3, Recursion
<1>5. Is(f)
  <2>1. f \in [0..L -> G] /\ \A i \in 0..L : f[i] = IF i = 0 THEN it ELSE turn[<<i, f[i - 1]>>]
    BY <1>4 DEF Iterates
  <2>2. \A i \in 0..L : f[i] = IF i = 0 THEN it ELSE Turn(f[i - 1])
    <3> TAKE i \in 0..L
    <3>1. i # 0 => i \in 1..L /\ i - 1 \in 0..L
      BY <1>1
    <3>2. i # 0 => <<i, f[i - 1]>> \in (1..L) \X G
      BY <3>1, <2>1
    <3>3. i # 0 => turn[<<i, f[i - 1]>>] = Turn(f[i - 1])
      BY <3>2
    <3> HIDE DEF turn
    <3> QED
      BY <2>1, <3>3
  <2> HIDE DEF turn
  <2> QED
    BY <2>1, <2>2
<1> DEFINE g == CHOOSE h : Is(h)
<1>6. Is(g)
  <2> HIDE DEF Is
  <2> QED
    BY <1>5
<1>7. g = MovedForward(t, bad, it)
  BY DEF MovedForward, ForwardStep, Turn, L
<1> HIDE DEF g
<1>8. \A n \in 0..L : g[n] = IF n = 0 THEN it ELSE Turn(g[n - 1])
  BY <1>6
<1> DEFINE T == {n \in 0..L : g[n] \in G}
<1>9. 0 \in T /\ \A n \in 1..L : n - 1 \in T => n \in T
  <2>1. 0 \in 0..L /\ \A n \in 1..L : n \in 0..L /\ n # 0
    BY <1>1
  <2> QED
    BY <1>1, <1>2, <1>8, <2>1
<1>10. \A n \in 0..L : n \in T
  <2> HIDE DEF T
  <2> QED
    BY <1>1, <1>9, Induction
<1> QED
  BY <1>7, <1>8, <1>10 DEF Turn, L, G

\* It stays where it is, or ends in a later block.
LEMMA ForwardIs ==
    ASSUME NEW t, NEW D, NEW I, IsTable(t, D, I), NEW it \in TableIters(t, D, I), NEW bad
    PROVE  LET r == Forward(t, bad, it)
           IN  /\ r \in TableIters(t, D, I) /\ AtRest(t, r)
               /\ TableValid(t, r) => r = it \/ r.block > it.index.current
               /\ bad = {} /\ ~TableFailed(it) => ~TableFailed(r)
<1> DEFINE L == Len(t.blocks) + 1
           g == MovedForward(t, bad, it)
           c(n) == g[n].index.current
<1>1. Forward(t, bad, it) = g[L]
  BY DEF Forward, MovedForward
<1>2. \A n \in 0..L : /\ g[n] \in TableIters(t, D, I)
                      /\ g[n] = IF n = 0 THEN it ELSE ForwardStep(t, bad, g[n - 1])
  BY MovedForwardIs
<1> HIDE DEF g
<1>3. L \in Nat /\ L = Len(t.blocks) + 1 /\ Len(t.blocks) \in Nat
  BY TableIs
<1>4. /\ \A n \in 0..L : c(n) \in 1..L
      /\ it.index.current \in 1..L
  BY <1>2, TableItersAreLoose, LooseIs
<1> HIDE DEF L
<1> DEFINE P(n) == /\ TableValid(t, g[n]) => g[n] = it \/ g[n].block > it.index.current
                   /\ ~AtRest(t, g[n]) => c(n) = it.index.current + n
                   /\ bad = {} /\ ~TableFailed(it) => ~TableFailed(g[n])
           T == {n \in 0..L : P(n)}
<1>5. 0 \in T
  <2>1. 0 \in 0..L /\ g[0] = it
    BY <1>2, <1>3
  <2> QED
    BY <1>4, <2>1
<1>6. ASSUME NEW n \in 1..L, n - 1 \in T PROVE n \in T
  <2> DEFINE s == g[n - 1]
             r == g[n]
  <2>1. n \in 0..L /\ n - 1 \in 0..L /\ n # 0 /\ P(n - 1) /\ n \in Int
    BY <1>3, <1>6
  <2>2. r = ForwardStep(t, bad, s) /\ s \in TableIters(t, D, I) /\ r \in TableIters(t, D, I)
    BY <1>2, <2>1
  <2>3. /\ TableValid(t, s) => r = s
        /\ ~TableValid(t, s) /\ s.block = 0 => r.block = 0
        /\ ~AtRest(t, s) => /\ r.index.current = s.index.current + 1
                            /\ r.block > 0 => TableValid(t, r)
        /\ bad = {} /\ ~TableFailed(s) => ~TableFailed(r)
    BY <2>2, ForwardStepIs
  <2>4. r.block = 0 => ~TableValid(t, r) /\ AtRest(t, r)
    BY DEF TableValid, AtRest
  <2>5. TableValid(t, r) => r.block = c(n)
    <3>1. TableValid(t, r) => r.block > 0
      BY DEF TableValid
    <3> QED
      BY <2>2, <3>1, DataStates
  <2>6. c(n - 1) \in 1..L /\ c(n) \in 1..L /\ it.index.current \in 1..L
    BY <1>4, <2>1
  <2>7. CASE TableValid(t, s)
    BY <2>1, <2>3, <2>7 DEF AtRest
  <2>8. CASE ~TableValid(t, s) /\ s.block = 0
    BY <2>1, <2>3, <2>4, <2>8
  <2>9. CASE ~AtRest(t, s)
    <3>1. c(n - 1) = it.index.current + (n - 1) /\ c(n) = c(n - 1) + 1
      BY <2>1, <2>3, <2>9
    <3>2. c(n) = it.index.current + n
      BY <2>1, <2>6, <3>1
    <3>3. TableValid(t, r) => r.block > it.index.current
      BY <2>1, <2>5, <2>6, <3>2
    <3> QED
      BY <2>1, <2>3, <2>9, <3>2, <3>3
  <2> QED
    BY <2>7, <2>8, <2>9 DEF AtRest
<1>7. \A n \in 0..L : n \in T
  <2> HIDE DEF T
  <2> QED
    BY <1>3, <1>5, <1>6, Induction
<1>8. P(L) /\ L \in 0..L
  BY <1>3, <1>7
<1>9. AtRest(t, g[L])
  <2>1. c(L) \in 1..L /\ it.index.current \in 1..L
    BY <1>4, <1>8
  <2> HIDE DEF c
  <2> QED
    BY <1>3, <1>8, <2>1
<1> QED
  BY <1>1, <1>2, <1>8, <1>9

\* One turn of SkipEmptyDataBlocksBackward.
BackwardStep(t, bad, s) ==
    IF TableValid(t, s) THEN s
    ELSE IF ~IterValid(t.index, s.index) THEN SetData(s, 0, <<>>)
    ELSE ToLast(t, InitDataBlock(t, bad, [s EXCEPT !.index = BlockPrev(t.index, @)]))

\* It goes to the last entry of the block before, or to the end.
LEMMA BackwardStepIs ==
    ASSUME NEW t, NEW D, NEW I, IsTable(t, D, I), NEW s \in TableIters(t, D, I), NEW bad
    PROVE  LET r == BackwardStep(t, bad, s)
           IN  /\ r \in TableIters(t, D, I)
               /\ TableValid(t, s) => r = s
               /\ ~TableValid(t, s) /\ s.block = 0 => r.block = 0
               /\ ~AtRest(t, s) => /\ (r.block = 0 \/ r.index.current = s.index.current - 1)
                                   /\ r.block > 0 => TableValid(t, r)
               /\ bad = {} /\ ~TableFailed(s) => ~TableFailed(r)
<1> DEFINE r == BackwardStep(t, bad, s)
<1>1. /\ s \in LooseIters(t, D, I)
      /\ IF IterValid(t.index, s.index)
         THEN s.handle = s.index.current /\ s.block \in {s.index.current, Unread}
         ELSE s.block = 0
  BY TableItersAreLoose
<1>2. /\ s.index \in BlockIters(t.index, I) /\ Len(t.blocks) \in Nat
      /\ s.index.current \in 1..(Len(t.blocks) + 1) /\ Holds(t.index, I)
  BY <1>1, LooseIs, TableIs
<1>3. CASE TableValid(t, s)
  BY <1>3 DEF BackwardStep, AtRest
<1>4. CASE ~TableValid(t, s) /\ ~IterValid(t.index, s.index)
  <2>1. r = SetData(s, 0, <<>>) /\ s.block = 0
    BY <1>1, <1>4 DEF BackwardStep
  <2> HIDE DEF r
  <2>2. r \in TableIters(t, D, I) /\ r.block = 0 /\ (TableFailed(r) <=> TableFailed(s))
    BY <1>4, <2>1, EndIs
  <2> QED
    BY <1>4, <2>1, <2>2 DEF AtRest, r
<1>5. CASE ~TableValid(t, s) /\ IterValid(t.index, s.index)
  <2> DEFINE x == BlockPrev(t.index, s.index)
             p == [s EXCEPT !.index = x]
             q == InitDataBlock(t, bad, p)
  <2>1. r = ToLast(t, q)
    BY <1>5 DEF BackwardStep
  <2>2. x \in BlockIters(t.index, I) /\ (~IterValid(t.index, x) \/ x.current = s.index.current - 1)
    BY <1>2, <1>5, BlockPrevIs
  <2> HIDE DEF x, r
  <2>3. p \in LooseIters(t, D, I) /\ p.index = x /\ (TableFailed(p) <=> TableFailed(s))
    BY <1>1, <2>2, IndexMoves
  <2> HIDE DEF p
  <2>4. q \in TableIters(t, D, I) /\ q.index = x /\ (bad = {} /\ ~TableFailed(p) => ~TableFailed(q))
    BY <2>3, InitDataIs
  <2> HIDE DEF q
  <2>5. r \in TableIters(t, D, I) /\ r.index = x /\ (r.block > 0 => TableValid(t, r))
        /\ (TableFailed(r) <=> TableFailed(q))
    BY <2>1, <2>4, ToLastIs
  <2>6. s.block # 0
    <3>1. s.block \in {s.index.current, Unread}
      BY <1>1, <1>5
    <3> QED
      BY <1>2, <3>1 DEF Unread
  <2>7. ~IterValid(t.index, x) => r.block = 0
    BY <2>5, TableItersAreLoose
  <2> QED
    BY <1>5, <2>2, <2>3, <2>4, <2>5, <2>6, <2>7 DEF AtRest, r
<1> QED
  BY <1>3, <1>4, <1>5

\* The function with which Backward computes.
MovedBackward(t, bad, it) ==
    LET moved[n \in 0..(Len(t.blocks) + 1)] ==
            IF n = 0 THEN it
            ELSE LET s == moved[n - 1]
                 IN  IF TableValid(t, s) THEN s
                     ELSE IF ~IterValid(t.index, s.index) THEN SetData(s, 0, <<>>)
                     ELSE ToLast(t, InitDataBlock(t, bad,
                                         [s EXCEPT !.index = BlockPrev(t.index, @)]))
    IN  moved

\* It is what its definition says, and every turn leaves an iterator of the table.
LEMMA MovedBackwardIs ==
    ASSUME NEW t, NEW D, NEW I, IsTable(t, D, I), NEW it \in TableIters(t, D, I), NEW bad
    PROVE  LET g == MovedBackward(t, bad, it)
           IN  \A n \in 0..(Len(t.blocks) + 1) :
                  /\ g[n] \in TableIters(t, D, I)
                  /\ g[n] = IF n = 0 THEN it ELSE BackwardStep(t, bad, g[n - 1])
<1> DEFINE L == Len(t.blocks) + 1
           G == TableIters(t, D, I)
           Turn(s) == BackwardStep(t, bad, s)
           turn == [x \in (1..L) \X G |-> Turn(x[2])]
           Is(g) == g = [n \in 0..L |-> IF n = 0 THEN it ELSE Turn(g[n - 1])]
<1>1. L \in Nat /\ it \in G
  BY TableIs
<1>2. ASSUME NEW s \in G PROVE Turn(s) \in G
  BY BackwardStepIs
<1> HIDE DEF L, G, Turn
<1>3. turn \in [(1..L) \X G -> G]
  BY <1>2
<1>4. PICK f \in Iterates(G, L, it, turn) : TRUE
  <2> HIDE DEF turn
  <2> QED
    BY <1>1, <1>3, Recursion
<1>5. Is(f)
  <2>1. f \in [0..L -> G] /\ \A i \in 0..L : f[i] = IF i = 0 THEN it ELSE turn[<<i, f[i - 1]>>]
    BY <1>4 DEF Iterates
  <2>2. \A i \in 0..L : f[i] = IF i = 0 THEN it ELSE Turn(f[i - 1])
    <3> TAKE i \in 0..L
    <3>1. i # 0 => i \in 1..L /\ i - 1 \in 0..L
      BY <1>1
    <3>2. i # 0 => <<i, f[i - 1]>> \in (1..L) \X G
      BY <3>1, <2>1
    <3>3. i # 0 => turn[<<i, f[i - 1]>>] = Turn(f[i - 1])
      BY <3>2
    <3> HIDE DEF turn
    <3> QED
      BY <2>1, <3>3
  <2> HIDE DEF turn
  <2> QED
    BY <2>1, <2>2
<1> DEFINE g == CHOOSE h : Is(h)
<1>6. Is(g)
  <2> HIDE DEF Is
  <2> QED
    BY <1>5
<1>7. g = MovedBackward(t, bad, it)
  BY DEF MovedBackward, BackwardStep, Turn, L
<1> HIDE DEF g
<1>8. \A n \in 0..L : g[n] = IF n = 0 THEN it ELSE Turn(g[n - 1])
  BY <1>6
<1> DEFINE T == {n \in 0..L : g[n] \in G}
<1>9. 0 \in T /\ \A n \in 1..L : n - 1 \in T => n \in T
  <2>1. 0 \in 0..L /\ \A n \in 1..L : n \in 0..L /\ n # 0
    BY <1>1
  <2> QED
    BY <1>1, <1>2, <1>8, <2>1
<1>10. \A n \in 0..L : n \in T
  <2> HIDE DEF T
  <2> QED
    BY <1>1, <1>9, Induction
<1> QED
  BY <1>7, <1>8, <1>10 DEF Turn, L, G

\* It stays where it is, or ends in an earlier block.
LEMMA BackwardIs ==
    ASSUME NEW t, NEW D, NEW I, IsTable(t, D, I), NEW it \in TableIters(t, D, I), NEW bad
    PROVE  LET r == Backward(t, bad, it)
           IN  /\ r \in TableIters(t, D, I) /\ AtRest(t, r)
               /\ TableValid(t, r) => r = it \/ r.block < it.index.current
               /\ bad = {} /\ ~TableFailed(it) => ~TableFailed(r)
<1> DEFINE L == Len(t.blocks) + 1
           g == MovedBackward(t, bad, it)
           c(n) == g[n].index.current
<1>1. Backward(t, bad, it) = g[L]
  BY DEF Backward, MovedBackward
<1>2. \A n \in 0..L : /\ g[n] \in TableIters(t, D, I)
                      /\ g[n] = IF n = 0 THEN it ELSE BackwardStep(t, bad, g[n - 1])
  BY MovedBackwardIs
<1> HIDE DEF g
<1>3. L \in Nat /\ L = Len(t.blocks) + 1 /\ Len(t.blocks) \in Nat
  BY TableIs
<1>4. /\ \A n \in 0..L : c(n) \in 1..L
      /\ it.index.current \in 1..L
  BY <1>2, TableItersAreLoose, LooseIs
<1> HIDE DEF L
<1> DEFINE P(n) == /\ TableValid(t, g[n]) => g[n] = it \/ g[n].block < it.index.current
                   /\ ~AtRest(t, g[n]) => c(n) = it.index.current - n
                   /\ bad = {} /\ ~TableFailed(it) => ~TableFailed(g[n])
           T == {n \in 0..L : P(n)}
<1>5. 0 \in T
  <2>1. 0 \in 0..L /\ g[0] = it
    BY <1>2, <1>3
  <2> QED
    BY <1>4, <2>1
<1>6. ASSUME NEW n \in 1..L, n - 1 \in T PROVE n \in T
  <2> DEFINE s == g[n - 1]
             r == g[n]
  <2>1. n \in 0..L /\ n - 1 \in 0..L /\ n # 0 /\ P(n - 1) /\ n \in Int
    BY <1>3, <1>6
  <2>2. r = BackwardStep(t, bad, s) /\ s \in TableIters(t, D, I) /\ r \in TableIters(t, D, I)
    BY <1>2, <2>1
  <2>3. /\ TableValid(t, s) => r = s
        /\ ~TableValid(t, s) /\ s.block = 0 => r.block = 0
        /\ ~AtRest(t, s) => /\ (r.block = 0 \/ r.index.current = s.index.current - 1)
                            /\ r.block > 0 => TableValid(t, r)
        /\ bad = {} /\ ~TableFailed(s) => ~TableFailed(r)
    BY <2>2, BackwardStepIs
  <2>4. r.block = 0 => ~TableValid(t, r) /\ AtRest(t, r)
    BY DEF TableValid, AtRest
  <2>5. TableValid(t, r) => r.block = c(n)
    <3>1. TableValid(t, r) => r.block > 0
      BY DEF TableValid
    <3> QED
      BY <2>2, <3>1, DataStates
  <2>6. c(n - 1) \in 1..L /\ c(n) \in 1..L /\ it.index.current \in 1..L
    BY <1>4, <2>1
  <2>7. CASE TableValid(t, s)
    BY <2>1, <2>3, <2>7 DEF AtRest
  <2>8. CASE ~TableValid(t, s) /\ s.block = 0
    BY <2>1, <2>3, <2>4, <2>8
  <2>9. CASE ~AtRest(t, s)
    <3>1. c(n - 1) = it.index.current - (n - 1) /\ (r.block = 0 \/ c(n) = c(n - 1) - 1)
      BY <2>1, <2>3, <2>9
    <3>2. ~AtRest(t, r) => c(n) = it.index.current - n
      BY <2>1, <2>4, <2>6, <3>1
    <3>3. TableValid(t, r) => r.block < it.index.current
      BY <2>1, <2>4, <2>5, <2>6, <3>1
    <3> QED
      BY <2>1, <2>3, <2>9, <3>2, <3>3
  <2> QED
    BY <2>7, <2>8, <2>9 DEF AtRest
<1>7. \A n \in 0..L : n \in T
  <2> HIDE DEF T
  <2> QED
    BY <1>3, <1>5, <1>6, Induction
<1>8. P(L) /\ L \in 0..L
  BY <1>3, <1>7
<1>9. AtRest(t, g[L])
  <2>1. c(L) \in 1..L /\ it.index.current \in 1..L
    BY <1>4, <1>8
  <2> HIDE DEF c
  <2> QED
    BY <1>3, <1>8, <2>1
<1> QED
  BY <1>1, <1>2, <1>8, <1>9

\* The iterator of the index can be moved anywhere.
LEMMA IndexStates ==
    ASSUME NEW t, NEW D, NEW I, IsTable(t, D, I), NEW it \in TableIters(t, D, I)
    PROVE  /\ it \in LooseIters(t, D, I) /\ Holds(t.index, I) /\ Ordered(I)
           /\ it.index \in IterStates(t.index)
<1>1. it \in LooseIters(t, D, I) /\ Holds(t.index, I) /\ Ordered(I)
  BY TableItersAreLoose, TableIs
<1>2. it.index \in BlockIters(t.index, I)
  BY <1>1, LooseIs
<1> QED
  BY <1>1, <1>2, ItersIs

\* Every call leaves an iterator of the table, at rest, and without an error if none was met: Seek,
LEMMA TableSeekIs ==
    ASSUME NEW t, NEW D, NEW I, IsTable(t, D, I), NEW it \in TableIters(t, D, I), NEW bad,
           NEW target \in StoredKeys
    PROVE  LET r == TableSeek(t, bad, it, target)
           IN  /\ r \in TableIters(t, D, I) /\ AtRest(t, r)
               /\ bad = {} /\ ~TableFailed(it) => ~TableFailed(r)
<1> DEFINE x == BlockSeek(t.index, it.index, target)
           p == [it EXCEPT !.index = x]
           q == InitDataBlock(t, bad, p)
           s == ToTarget(t, q, target)
           r == Forward(t, bad, s)
<1>1. TableSeek(t, bad, it, target) = r
  BY DEF TableSeek
<1>2. x \in BlockIters(t.index, I)
  BY IndexStates, BlockSeekIs
<1> HIDE DEF x
<1>3. p \in LooseIters(t, D, I) /\ (TableFailed(p) <=> TableFailed(it))
  BY <1>2, IndexStates, IndexMoves
<1> HIDE DEF p
<1>4. q \in TableIters(t, D, I) /\ (bad = {} /\ ~TableFailed(p) => ~TableFailed(q))
  BY <1>3, InitDataIs
<1> HIDE DEF q
<1>5. s \in TableIters(t, D, I) /\ (TableFailed(s) <=> TableFailed(q))
  BY <1>4, ToTargetIs
<1> HIDE DEF s
<1>6. r \in TableIters(t, D, I) /\ AtRest(t, r) /\ (bad = {} /\ ~TableFailed(s) => ~TableFailed(r))
  BY <1>5, ForwardIs
<1> HIDE DEF r
<1> QED
  BY <1>1, <1>3, <1>4, <1>5, <1>6

\* SeekToFirst,
LEMMA TableSeekToFirstIs ==
    ASSUME NEW t, NEW D, NEW I, IsTable(t, D, I), NEW it \in TableIters(t, D, I), NEW bad
    PROVE  LET r == TableSeekToFirst(t, bad, it)
           IN  /\ r \in TableIters(t, D, I) /\ AtRest(t, r)
               /\ bad = {} /\ ~TableFailed(it) => ~TableFailed(r)
<1> DEFINE x == BlockSeekToFirst(t.index, it.index)
           p == [it EXCEPT !.index = x]
           q == InitDataBlock(t, bad, p)
           s == ToFirst(t, q)
           r == Forward(t, bad, s)
<1>1. TableSeekToFirst(t, bad, it) = r
  BY DEF TableSeekToFirst
<1>2. x \in BlockIters(t.index, I)
  BY IndexStates, BlockFirstIs
<1> HIDE DEF x
<1>3. p \in LooseIters(t, D, I) /\ (TableFailed(p) <=> TableFailed(it))
  BY <1>2, IndexStates, IndexMoves
<1> HIDE DEF p
<1>4. q \in TableIters(t, D, I) /\ (bad = {} /\ ~TableFailed(p) => ~TableFailed(q))
  BY <1>3, InitDataIs
<1> HIDE DEF q
<1>5. s \in TableIters(t, D, I) /\ (TableFailed(s) <=> TableFailed(q))
  BY <1>4, ToFirstIs
<1> HIDE DEF s
<1>6. r \in TableIters(t, D, I) /\ AtRest(t, r) /\ (bad = {} /\ ~TableFailed(s) => ~TableFailed(r))
  BY <1>5, ForwardIs
<1> HIDE DEF r
<1> QED
  BY <1>1, <1>3, <1>4, <1>5, <1>6

\* SeekToLast,
LEMMA TableSeekToLastIs ==
    ASSUME NEW t, NEW D, NEW I, IsTable(t, D, I), NEW it \in TableIters(t, D, I), NEW bad
    PROVE  LET r == TableSeekToLast(t, bad, it)
           IN  /\ r \in TableIters(t, D, I) /\ AtRest(t, r)
               /\ bad = {} /\ ~TableFailed(it) => ~TableFailed(r)
<1> DEFINE x == BlockSeekToLast(t.index, it.index)
           p == [it EXCEPT !.index = x]
           q == InitDataBlock(t, bad, p)
           s == ToLast(t, q)
           r == Backward(t, bad, s)
<1>1. TableSeekToLast(t, bad, it) = r
  BY DEF TableSeekToLast
<1>2. x \in BlockIters(t.index, I)
  BY IndexStates, BlockLastIs
<1> HIDE DEF x
<1>3. p \in LooseIters(t, D, I) /\ (TableFailed(p) <=> TableFailed(it))
  BY <1>2, IndexStates, IndexMoves
<1> HIDE DEF p
<1>4. q \in TableIters(t, D, I) /\ (bad = {} /\ ~TableFailed(p) => ~TableFailed(q))
  BY <1>3, InitDataIs
<1> HIDE DEF q
<1>5. s \in TableIters(t, D, I) /\ (TableFailed(s) <=> TableFailed(q))
  BY <1>4, ToLastIs
<1> HIDE DEF s
<1>6. r \in TableIters(t, D, I) /\ AtRest(t, r) /\ (bad = {} /\ ~TableFailed(s) => ~TableFailed(r))
  BY <1>5, BackwardIs
<1> HIDE DEF r
<1> QED
  BY <1>1, <1>3, <1>4, <1>5, <1>6

\* Next, which goes to a later entry,
LEMMA TableNextIs ==
    ASSUME NEW t, NEW D, NEW I, IsTable(t, D, I), NEW it \in TableIters(t, D, I), NEW bad,
           TableValid(t, it)
    PROVE  LET r == TableNext(t, bad, it)
           IN  /\ r \in TableIters(t, D, I) /\ AtRest(t, r)
               /\ TableValid(t, r) => Less(it.data.key, r.data.key)
               /\ bad = {} /\ ~TableFailed(it) => ~TableFailed(r)
<1> DEFINE B == it.block
           K == D[B]
           c == it.data.current
           d == BlockNext(t.blocks[B], it.data)
           s == [it EXCEPT !.data = d]
           r == Forward(t, bad, s)
<1>1. TableNext(t, bad, it) = r
  BY DEF TableNext
<1>2. B > 0
  BY DEF TableValid
<1>3. /\ B \in 1..Len(t.blocks) /\ Holds(t.blocks[B], K)
      /\ it.data \in BlockIters(t.blocks[B], K)
      /\ B = it.index.current
      /\ Len(K) \in Nat \ {0} /\ Ordered(K) /\ DOMAIN K = 1..Len(K)
      /\ IterValid(t.blocks[B], it.data)
      /\ it.data.key = K[c] /\ c \in 1..Len(K)
  BY <1>2, DataStates, TableIs
<1>4. d \in BlockIters(t.blocks[B], K) /\ d.current = c + 1
  BY <1>3, BlockNextIs
<1> HIDE DEF d
<1>5. s \in TableIters(t, D, I) /\ s.index = it.index /\ s.block = B /\ s.data = d
      /\ (TableFailed(s) <=> TableFailed(it))
  BY <1>2, <1>4, DataMoves
<1> HIDE DEF s
<1>6. /\ r \in TableIters(t, D, I) /\ AtRest(t, r)
      /\ TableValid(t, r) => r = s \/ r.block > B
      /\ bad = {} /\ ~TableFailed(s) => ~TableFailed(r)
  BY <1>3, <1>5, ForwardIs
<1> HIDE DEF r
<1>7. ASSUME TableValid(t, r) PROVE Less(it.data.key, r.data.key)
  <2>1. r.block > 0
    BY <1>7 DEF TableValid
  <2>2. /\ r.block \in 1..Len(t.blocks) /\ r.data.key = D[r.block][r.data.current]
        /\ r.data.current \in 1..Len(D[r.block])
    BY <1>6, <1>7, <2>1, DataStates
  <2>3. CASE r = s
    <3>1. r.data = d /\ r.block = B
      BY <1>5, <2>3
    <3>2. d.key = K[d.current] /\ d.current \in 1..Len(K) /\ IterValid(t.blocks[B], d)
      <4>1. IterValid(t.blocks[B], d)
        BY <1>7, <3>1 DEF TableValid
      <4> QED
        BY <2>2, <3>1, <4>1
    <3>3. d.current = c + 1
      BY <1>4, <3>2
    <3>4. Less(K[c], K[d.current])
      <4> HIDE DEF K, c
      <4> QED
        BY <1>3, <3>2, <3>3 DEF Ordered
    <3> QED
      BY <1>3, <3>1, <3>2, <3>4
  <2>4. CASE r.block > B
    <3>1. Less(D[B][c], D[r.block][r.data.current])
      BY <1>3, <2>2, <2>4, TableOrder
    <3> QED
      BY <1>3, <2>2, <3>1
  <2> QED
    BY <1>6, <1>7, <2>3, <2>4
<1> QED
  BY <1>1, <1>5, <1>6, <1>7

\* and Prev, which goes to an earlier one.
LEMMA TablePrevIs ==
    ASSUME NEW t, NEW D, NEW I, IsTable(t, D, I), NEW it \in TableIters(t, D, I), NEW bad,
           TableValid(t, it)
    PROVE  LET r == TablePrev(t, bad, it)
           IN  /\ r \in TableIters(t, D, I) /\ AtRest(t, r)
               /\ TableValid(t, r) => Less(r.data.key, it.data.key)
               /\ bad = {} /\ ~TableFailed(it) => ~TableFailed(r)
<1> DEFINE B == it.block
           K == D[B]
           c == it.data.current
           d == BlockPrev(t.blocks[B], it.data)
           s == [it EXCEPT !.data = d]
           r == Backward(t, bad, s)
<1>1. TablePrev(t, bad, it) = r
  BY DEF TablePrev
<1>2. B > 0
  BY DEF TableValid
<1>3. /\ B \in 1..Len(t.blocks) /\ Holds(t.blocks[B], K)
      /\ it.data \in BlockIters(t.blocks[B], K)
      /\ B = it.index.current
      /\ Len(K) \in Nat \ {0} /\ Ordered(K) /\ DOMAIN K = 1..Len(K)
      /\ IterValid(t.blocks[B], it.data)
      /\ it.data.key = K[c] /\ c \in 1..Len(K)
  BY <1>2, DataStates, TableIs
<1>4. d \in BlockIters(t.blocks[B], K) /\ (IF c = 1 THEN ~IterValid(t.blocks[B], d)
      ELSE IterValid(t.blocks[B], d) /\ d.current = c - 1)
  BY <1>3, BlockPrevIs
<1> HIDE DEF d
<1>5. s \in TableIters(t, D, I) /\ s.index = it.index /\ s.block = B /\ s.data = d
      /\ (TableFailed(s) <=> TableFailed(it))
  BY <1>2, <1>4, DataMoves
<1> HIDE DEF s
<1>6. /\ r \in TableIters(t, D, I) /\ AtRest(t, r)
      /\ TableValid(t, r) => r = s \/ r.block < B
      /\ bad = {} /\ ~TableFailed(s) => ~TableFailed(r)
  BY <1>3, <1>5, BackwardIs
<1> HIDE DEF r
<1>7. ASSUME TableValid(t, r) PROVE Less(r.data.key, it.data.key)
  <2>1. r.block > 0
    BY <1>7 DEF TableValid
  <2>2. /\ r.block \in 1..Len(t.blocks) /\ r.data.key = D[r.block][r.data.current]
        /\ r.data.current \in 1..Len(D[r.block])
    BY <1>6, <1>7, <2>1, DataStates
  <2>3. CASE r = s
    <3>1. r.data = d /\ r.block = B
      BY <1>5, <2>3
    <3>2. d.key = K[d.current] /\ d.current \in 1..Len(K) /\ IterValid(t.blocks[B], d)
      <4>1. IterValid(t.blocks[B], d)
        BY <1>7, <3>1 DEF TableValid
      <4> QED
        BY <2>2, <3>1, <4>1
    <3>3. d.current = c - 1
      BY <1>4, <3>2
    <3>4. Less(K[d.current], K[c])
      <4> HIDE DEF K, c
      <4> QED
        BY <1>3, <3>2, <3>3 DEF Ordered
    <3> QED
      BY <1>3, <3>1, <3>2, <3>4
  <2>4. CASE r.block < B
    <3>1. Less(D[r.block][r.data.current], D[B][c])
      BY <1>3, <2>2, <2>4, TableOrder
    <3> QED
      BY <1>3, <2>2, <3>1
  <2> QED
    BY <1>6, <1>7, <2>3, <2>4
<1> QED
  BY <1>1, <1>5, <1>6, <1>7

\* A new iterator is at the end.
LEMMA NewTableIterIs ==
    ASSUME NEW t, NEW D, NEW I, IsTable(t, D, I)
    PROVE  LET r == NewTableIter(t)
           IN  /\ r \in TableIters(t, D, I) /\ AtRest(t, r) /\ ~TableValid(t, r)
               /\ ~TableFailed(r)
<1> DEFINE x == NewIter(t.index)
           r == [index |-> x, block |-> 0, data |-> <<>>, handle |-> 0, failed |-> FALSE]
<1>1. x \in BlockIters(t.index, I) /\ ~IterValid(t.index, x)
  BY TableIs, NewIterIs
<1>2. NewTableIter(t) = r
  BY DEF NewTableIter
<1>3. 0 \in Unread..Len(t.blocks) /\ ~(0 > 0) /\ <<>> \in BlockStates \cup {<<>>}
      /\ 0 \in 0..Len(t.blocks) /\ FALSE \in BOOLEAN
  BY TableIs DEF Unread
<1> HIDE DEF x
<1>4. r \in LooseIters(t, D, I)
  BY <1>1, <1>3, LooseFrom
<1>5. r.index = x /\ r.block = 0 /\ r.failed = FALSE
  OBVIOUS
<1> HIDE DEF r
<1>6. r \in TableIters(t, D, I)
  BY <1>1, <1>4, <1>5 DEF TableIters
<1>7. ~TableFailed(r)
  BY <1>4, <1>5, LooseIs DEF Unread
<1> QED
  BY <1>2, <1>5, <1>6, <1>7 DEF AtRest, TableValid

-----------------------------------------------------------------------------
(* The children of the MergingIterator. *)

\* Of some keys one is not after any other, and one not before any.
LEMMA EndsOfKeys ==
    ASSUME NEW N \in Nat, NEW V \in SUBSET (0..N), V # {}, NEW K, \A i \in V : K[i] \in StoredKeys
    PROVE  /\ \E i \in V : \A j \in V : ~Less(K[j], K[i])
           /\ \E i \in V : \A j \in V : ~Less(K[i], K[j])
<1> DEFINE Low(S) == \E i \in S : \A j \in S : ~Less(K[j], K[i])
           High(S) == \E i \in S : \A j \in S : ~Less(K[i], K[j])
           T == {n \in 0..N : \A S \in SUBSET V : S \subseteq 0..n /\ S # {} => Low(S) /\ High(S)}
<1>1. \A n \in V : ~Less(K[n], K[n])
  BY StoredOrder
<1>2. 0 \in T
  <2>1. ASSUME NEW S \in SUBSET V, S \subseteq 0..0, S # {} PROVE Low(S) /\ High(S)
    <3>1. S = {0} /\ 0 \in V
      <4>1. \A x \in S : x = 0 /\ x \in V
        BY <2>1
      <4> QED
        BY <2>1, <4>1
    <3> QED
      BY <1>1, <3>1
  <2> HIDE DEF Low, High
  <2> QED
    BY <2>1
<1>3. ASSUME NEW n \in 1..N, n - 1 \in T PROVE n \in T
  <2>1. ASSUME NEW S \in SUBSET V, S \subseteq 0..n, S # {} PROVE Low(S) /\ High(S)
    <3> DEFINE R == S \ {n}
    <3>1. R \subseteq 0..(n - 1) /\ R \in SUBSET V
      BY <2>1
    <3>2. CASE R = {}
      <4>1. S = {n} /\ n \in V
        BY <2>1, <3>2
      <4> QED
        BY <1>1, <4>1
    <3>3. CASE n \notin S
      <4>1. S = R
        BY <3>3
      <4> HIDE DEF R, Low, High
      <4> QED
        BY <1>3, <2>1, <3>1, <4>1
    <3>4. CASE R # {} /\ n \in S
      <4>1. Low(R) /\ High(R)
        <5> HIDE DEF R, Low, High
        <5> QED
          BY <1>3, <3>1, <3>4
      <4>2. PICK i \in R : \A j \in R : ~Less(K[j], K[i])
        BY <4>1
      <4>3. PICK h \in R : \A j \in R : ~Less(K[h], K[j])
        BY <4>1
      <4>4. S = R \cup {n} /\ n \in V /\ i \in V /\ h \in V
        BY <2>1, <3>1, <3>4
      <4>5. \A j \in S : K[j] \in StoredKeys
        BY <2>1
      <4> HIDE DEF R
      <4>6. Low(S)
        <5>1. CASE Less(K[n], K[i])
          <6>1. \A j \in S : ~Less(K[j], K[n])
            BY <1>1, <4>2, <4>4, <4>5, <5>1, StoredOrder
          <6> QED
            BY <4>4, <6>1
        <5>2. CASE ~Less(K[n], K[i])
          BY <4>2, <4>4, <5>2
        <5> QED
          BY <5>1, <5>2
      <4>7. High(S)
        <5>1. CASE Less(K[h], K[n])
          <6>1. \A j \in S : ~Less(K[n], K[j])
            BY <1>1, <4>3, <4>4, <4>5, <5>1, StoredOrder
          <6> QED
            BY <4>4, <6>1
        <5>2. CASE ~Less(K[h], K[n])
          BY <4>3, <4>4, <5>2
        <5> QED
          BY <5>1, <5>2
      <4> QED
        BY <4>6, <4>7
    <3> QED
      BY <3>2, <3>3, <3>4
  <2>2. n \in 0..N
    OBVIOUS
  <2> HIDE DEF Low, High
  <2> QED
    BY <2>1, <2>2
<1>4. N \in T
  <2>1. N \in 0..N
    OBVIOUS
  <2> HIDE DEF T
  <2> QED
    BY <1>2, <1>3, <2>1, Induction
<1> QED
  BY <1>4

\* The iterator of the memtable moves along its lowest list.
LEMMA MemChildMoves ==
    ASSUME ListInvariant, NEW c \in Chain(mem, 1) \cup {Nowhere}, NEW target,
           NEW op \in {"first", "last", "seek", "next", "prev"},
           op \in {"next", "prev"} => c # Nowhere
    PROVE  LET r == MemMoved(c, op, target)
           IN  /\ r \in Chain(mem, 1) \cup {Nowhere}
               /\ op = "next" /\ r # Nowhere => Less(c, r)
               /\ op = "prev" /\ r # Nowhere => Less(r, c)
<1>1. LinksInv(mem) /\ LevelsInv(mem) /\ mem.height \in 1..MaxHeight
  BY DEF ListInvariant, ListInv, LevelsInv
<1>2. 1 \in 1..MaxHeight /\ 1 \in 1..mem.height
  BY <1>1, SkipListAssumption
<1>3. Head0 \in On(mem, 1) /\ Chain(mem, 1) \subseteq On(mem, 1)
      /\ On(mem, 1) = {Head0} \cup Chain(mem, 1)
  BY DEF On
<1>4. \A n \in On(mem, 1) :
         /\ mem.next[n][1] \in Chain(mem, 1) \cup {Nowhere}
         /\ mem.next[n][1] # Nowhere => IsBefore(n, mem.next[n][1])
  BY <1>1, <1>2, LinkIs DEF Null, Nowhere
<1>5. \A passed \in SUBSET Nodes(mem) :
         LET r == Search(mem, Head0, mem.height, 1, passed)
         IN  r \in On(mem, 1) /\ (r = Head0 \/ r \in passed)
  <2> TAKE passed \in SUBSET Nodes(mem)
  <2>1. Head0 \in On(mem, mem.height)
    BY DEF On
  <2> QED
    BY <1>1, <1>2, <2>1, SearchEnds
<1>6. \A key : LET r == FindLessThan(mem, key)
               IN  r \in On(mem, 1) /\ (r = Head0 \/ Less(r, key))
  <2> TAKE key
  <2> DEFINE passed == {n \in Nodes(mem) : KeyIsAfterNode(key, n)}
  <2>1. passed \in SUBSET Nodes(mem) /\ \A n \in passed : Less(n, key)
    BY DEF KeyIsAfterNode
  <2>2. FindLessThan(mem, key) = Search(mem, Head0, mem.height, 1, passed)
    BY DEF FindLessThan, SearchFor
  <2> HIDE DEF passed
  <2> QED
    BY <1>5, <2>1, <2>2
<1>7. \A n \in On(mem, 1) : /\ NotHead(n) \in Chain(mem, 1) \cup {Nowhere}
                            /\ NotHead(n) # Nowhere => NotHead(n) = n /\ n # Head0
  BY <1>3 DEF NotHead
<1>8. CASE op = "first"
  BY <1>3, <1>4, <1>8 DEF MemMoved
<1>9. CASE op = "last"
  <2>1. FindLast(mem) \in On(mem, 1)
    BY <1>5 DEF FindLast
  <2>2. MemMoved(c, op, target) = NotHead(FindLast(mem))
    BY <1>9 DEF MemMoved
  <2> QED
    BY <1>7, <1>9, <2>1, <2>2
<1>10. CASE op = "seek"
  <2>1. MemMoved(c, op, target) = mem.next[FindLessThan(mem, target)][1]
    BY <1>10 DEF MemMoved, FindGreaterOrEqual
  <2> QED
    BY <1>4, <1>6, <1>10, <2>1
<1>11. CASE op = "next"
  <2>1. MemMoved(c, op, target) = mem.next[c][1] /\ c \in Chain(mem, 1)
    BY <1>11 DEF MemMoved
  <2>2. c # Head0
    <3>1. Chain(mem, 1) \subseteq TaggedKeys
      BY <1>1, <1>2, <1>3, LinkIs
    <3> QED
      BY <2>1, <3>1, KeyParts
  <2> QED
    BY <1>3, <1>4, <1>11, <2>1, <2>2 DEF IsBefore
<1>12. CASE op = "prev"
  <2>1. MemMoved(c, op, target) = NotHead(FindLessThan(mem, c))
    BY <1>12 DEF MemMoved
  <2> QED
    BY <1>6, <1>7, <1>12, <2>1
<1> QED
  BY <1>8, <1>9, <1>10, <1>11, <1>12

\* The keys of child i.
ChildKeys(i) == IF i = 0 THEN Chain(mem, 1) ELSE TableKeys(tables[i])

\* A child at an entry has one of them, and a table gives the value that was added with it.
LEMMA ChildKeyIs ==
    ASSUME ListInvariant, TablesInv, NEW i \in 0..Len(tables), NEW c, ChildInv(c, i), ChildValid(c, i)
    PROVE  /\ ChildKey(c, i) \in ChildKeys(i) /\ ChildKey(c, i) \in TaggedKeys
           /\ i # 0 => ChildKey(c, i) = c.data.key /\ SequenceOf(c.data.key) = c.data.value
<1>1. CASE i = 0
  <2>1. c \in Chain(mem, 1) /\ ChildKey(c, i) = c
    BY <1>1 DEF ChildInv, ChildValid, ChildKey
  <2>2. Chain(mem, 1) \subseteq TaggedKeys
    <3>1. LinksInv(mem) /\ Head0 \in On(mem, 1) /\ 1 \in 1..MaxHeight
      BY SkipListAssumption DEF ListInvariant, ListInv, On
    <3> QED
      BY <3>1, LinkIs
  <2> QED
    BY <1>1, <2>1, <2>2 DEF ChildKeys
<1>2. CASE i # 0
  <2> DEFINE t == tables[i]
             D == DataKeys(t)
             I == KeysOf(t.index)
  <2>1. i \in DOMAIN tables
    BY <1>2 DEF TablesInv
  <2>2. IsTable(t, D, I)
    BY <2>1 DEF TablesInv
  <2>3. c \in TableIters(t, D, I) /\ TableValid(t, c) /\ ChildKey(c, i) = c.data.key
    BY <1>2 DEF ChildInv, ChildValid, ChildKey, TableKey
  <2>4. DOMAIN D = DOMAIN t.blocks
    BY DEF DataKeys
  <2>5. ChildKeys(i) = TableKeys(t)
    BY <1>2 DEF ChildKeys
  <2> HIDE DEF I, t
  <2>6. TableKeys(t) = UNION {{D[x][j] : j \in DOMAIN D[x]} : x \in DOMAIN D}
    BY DEF TableKeys
  <2> HIDE DEF D
  <2>7. c.block > 0
    BY <2>3 DEF TableValid
  <2>8. /\ c.block \in 1..Len(t.blocks) /\ c.data.key = D[c.block][c.data.current]
        /\ c.data.value = SequenceOf(c.data.key)
        /\ c.data.key \in TaggedKeys /\ c.data.current \in 1..Len(D[c.block])
    BY <2>2, <2>3, <2>7, DataStates
  <2>9. c.block \in DOMAIN D /\ c.data.current \in DOMAIN D[c.block]
    BY <2>2, <2>4, <2>8, TableIs
  <2>10. c.data.key \in TableKeys(t)
    BY <2>6, <2>8, <2>9
  <2> QED
    BY <2>3, <2>5, <2>8, <2>10
<1> QED
  BY <1>1, <1>2

\* No key is one of two children.
LEMMA ChildrenDiffer ==
    ASSUME ListInvariant, TablesInv, NEW i \in 0..Len(tables), NEW j \in 0..Len(tables), i # j
    PROVE  ChildKeys(i) \cap ChildKeys(j) = {}
<1>1. Chain(mem, 1) \subseteq Nodes(mem)
  <2>1. LinksInv(mem) /\ Head0 \in On(mem, 1) /\ 1 \in 1..MaxHeight
    BY SkipListAssumption DEF ListInvariant, ListInv, On
  <2> QED
    BY <2>1, LinkIs
<1>2. (i # 0 => i \in DOMAIN tables) /\ (j # 0 => j \in DOMAIN tables)
  BY DEF TablesInv
<1>3. \A x \in DOMAIN tables : \A k \in TableKeys(tables[x]) : k \notin Nodes(mem)
  BY DEF TablesInv
<1>4. \A x, y \in DOMAIN tables : x # y => TableKeys(tables[x]) \cap TableKeys(tables[y]) = {}
  BY DEF TablesInv
<1> QED
  BY <1>1, <1>2, <1>3, <1>4 DEF ChildKeys

\* A move keeps a child in order, and goes forward or back.
LEMMA ChildMoves ==
    ASSUME ListInvariant, TablesInv, NEW i \in 0..Len(tables), NEW c, ChildInv(c, i),
           NEW op \in {"first", "last", "seek", "next", "prev"}, NEW target, NEW bad,
           op = "seek" => target \in StoredKeys,
           op \in {"next", "prev"} => ChildValid(c, i)
    PROVE  LET r == Moved(c, i, op, target, bad)
           IN  /\ ChildInv(r, i)
               /\ op = "next" /\ ChildValid(r, i) => Less(ChildKey(c, i), ChildKey(r, i))
               /\ op = "prev" /\ ChildValid(r, i) => Less(ChildKey(r, i), ChildKey(c, i))
               /\ i # 0 /\ bad = {} /\ ~TableFailed(c) => ~TableFailed(r)
<1> DEFINE r == Moved(c, i, op, target, bad)
<1>1. CASE i = 0
  <2>1. c \in Chain(mem, 1) \cup {Nowhere} /\ (op \in {"next", "prev"} => c # Nowhere)
    BY <1>1 DEF ChildInv, ChildValid
  <2>2. r = MemMoved(c, op, target)
    BY <1>1 DEF Moved
  <2> HIDE DEF r
  <2>3. /\ r \in Chain(mem, 1) \cup {Nowhere}
        /\ op = "next" /\ r # Nowhere => Less(c, r)
        /\ op = "prev" /\ r # Nowhere => Less(r, c)
    BY <2>1, <2>2, MemChildMoves
  <2> QED
    BY <1>1, <2>3 DEF ChildInv, ChildValid, ChildKey, r
<1>2. CASE i # 0
  <2> DEFINE t == tables[i]
             D == DataKeys(t)
             I == KeysOf(t.index)
             B == {b[2] : b \in {d \in bad : d[1] = i}}
  <2>1. i \in DOMAIN tables
    BY <1>2 DEF TablesInv
  <2>2. IsTable(t, D, I)
    BY <2>1 DEF TablesInv
  <2>3. c \in TableIters(t, D, I) /\ (ChildValid(c, i) => TableValid(t, c))
        /\ ChildKey(c, i) = c.data.key
    BY <1>2 DEF ChildInv, ChildValid, ChildKey, TableKey
  <2>4. r = TableMoved(t, B, c, op, target) /\ (bad = {} => B = {})
    BY <1>2 DEF Moved
  <2>5. \A x : /\ ChildInv(x, i) <=> x \in TableIters(t, D, I) /\ AtRest(t, x)
               /\ ChildValid(x, i) <=> TableValid(t, x)
               /\ ChildKey(x, i) = x.data.key
    BY <1>2 DEF ChildInv, ChildValid, ChildKey, TableKey
  <2> HIDE DEF t, D, I, B, r
  <2>6. /\ r \in TableIters(t, D, I) /\ AtRest(t, r)
        /\ op = "next" /\ TableValid(t, r) => Less(c.data.key, r.data.key)
        /\ op = "prev" /\ TableValid(t, r) => Less(r.data.key, c.data.key)
        /\ B = {} /\ ~TableFailed(c) => ~TableFailed(r)
    <3>1. CASE op = "first"
      BY <2>2, <2>3, <2>4, <3>1, TableSeekToFirstIs DEF TableMoved
    <3>2. CASE op = "last"
      BY <2>2, <2>3, <2>4, <3>2, TableSeekToLastIs DEF TableMoved
    <3>3. CASE op = "seek"
      BY <2>2, <2>3, <2>4, <3>3, TableSeekIs DEF TableMoved
    <3>4. CASE op = "next"
      BY <2>2, <2>3, <2>4, <3>4, TableNextIs DEF TableMoved
    <3>5. CASE op = "prev"
      BY <2>2, <2>3, <2>4, <3>5, TablePrevIs DEF TableMoved
    <3> QED
      BY <3>1, <3>2, <3>3, <3>4, <3>5
  <2> QED
    BY <1>2, <2>4, <2>5, <2>6 DEF r
<1> QED
  BY <1>1, <1>2

-----------------------------------------------------------------------------
(* The MergingIterator. *)

\* FindSmallest and FindLargest give a merged iterator in order.
LEMMA FoundIs ==
    ASSUME ListInvariant, TablesInv, NEW children, DOMAIN children = 0..Len(tables),
           \A i \in 0..Len(tables) : ChildInv(children[i], i), NEW forward \in BOOLEAN
    PROVE  LET m == Found(children, forward)
           IN  /\ MergedOK(m) /\ m.children = children /\ m.forward = forward
<1> DEFINE N == Len(tables)
           key(i) == ChildKey(children[i], i)
           V == {i \in DOMAIN children : ChildValid(children[i], i)}
           K == [i \in V |-> key(i)]
           current == IF V = {} THEN -1
                      ELSE IF forward THEN CHOOSE i \in V : \A j \in V : ~Less(key(j), key(i))
                      ELSE CHOOSE i \in V : \A j \in V : ~Less(key(i), key(j))
           m == Found(children, forward)
<1>1. m = [children |-> children, forward |-> forward, current |-> current]
  BY DEF Found
<1>2. N \in Nat /\ V \in SUBSET (0..N) /\ \A i \in 0..N : i \in V <=> ChildValid(children[i], i)
  BY DEF TablesInv
<1>3. \A i \in V : key(i) \in StoredKeys
  BY <1>2, ChildKeyIs, StoredOrder
<1> HIDE DEF key, V
<1>4. current \in {-1} \cup V
      /\ (current # -1 => \A j \in V : IF forward THEN ~Less(key(j), key(current))
                                       ELSE ~Less(key(current), key(j)))
  <2>1. CASE V = {}
    BY <2>1
  <2>2. CASE V # {}
    <3>1. \A i \in V : K[i] = key(i) /\ K[i] \in StoredKeys
      BY <1>3
    <3> HIDE DEF K
    <3>2. (\E i \in V : \A j \in V : ~Less(K[j], K[i])) /\ (\E i \in V : \A j \in V : ~Less(K[i], K[j]))
      BY <1>2, <2>2, <3>1, EndsOfKeys
    <3>3. (\E i \in V : \A j \in V : ~Less(key(j), key(i))) /\ (\E i \in V : \A j \in V : ~Less(key(i), key(j)))
      BY <3>1, <3>2
    <3>4. CASE forward
      BY <2>2, <3>3, <3>4
    <3>5. CASE ~forward
      BY <2>2, <3>3, <3>5
    <3> QED
      BY <3>4, <3>5
  <2> QED
    BY <2>1, <2>2
<1> HIDE DEF current, m
<1>5. m.children = children /\ m.forward = forward /\ m.current = current
      /\ m = [children |-> m.children, current |-> m.current, forward |-> m.forward]
  BY <1>1
<1>6. MergedValid(m) => current # -1 /\ current \in V /\ current \in 0..N
  BY <1>2, <1>4, <1>5 DEF MergedValid
<1>7. MergedKey(m) = key(current)
  BY <1>5 DEF MergedKey, key
<1>8. ASSUME MergedValid(m)
      PROVE  /\ ChildValid(m.children[m.current], m.current)
             /\ \A i \in 0..N : ChildValid(m.children[i], i) =>
                    IF m.forward THEN ~Less(ChildKey(m.children[i], i), MergedKey(m))
                    ELSE ~Less(MergedKey(m), ChildKey(m.children[i], i))
  <2>1. \A i \in 0..N : ChildKey(m.children[i], i) = key(i)
    BY <1>5 DEF key
  <2>2. ChildValid(m.children[m.current], m.current)
    BY <1>2, <1>5, <1>6, <1>8
  <2>3. ASSUME NEW i \in 0..N, ChildValid(m.children[i], i)
        PROVE  IF m.forward THEN ~Less(ChildKey(m.children[i], i), MergedKey(m))
               ELSE ~Less(MergedKey(m), ChildKey(m.children[i], i))
    <3>1. i \in V
      BY <1>2, <1>5, <2>3
    <3> QED
      BY <1>4, <1>5, <1>6, <1>7, <1>8, <2>1, <3>1
  <2> QED
    BY <2>2, <2>3
<1>9. m.current \in {-1} \cup 0..N
  BY <1>2, <1>4, <1>5
<1>10. MergedOK(m)
  BY <1>5, <1>8, <1>9 DEF MergedOK
<1> QED
  BY <1>5, <1>10 DEF m

\* The status is the first of the tables' that is not ok.
LEMMA NoneFails ==
    ASSUME TablesInv, NEW m, MergedOK(m)
    PROVE  ~Failed(m) <=> \A i \in 1..Len(tables) : ~TableFailed(m.children[i])
<1>1. DOMAIN m.children \ {0} = 1..Len(tables)
  BY DEF MergedOK, TablesInv
<1> QED
  BY <1>1 DEF Failed

\* SeekToFirst, SeekToLast and Seek.
LEMMA MergedToIs ==
    ASSUME ListInvariant, TablesInv, NEW m, MergedOK(m), NEW op \in {"first", "last", "seek"},
           NEW target, op = "seek" => target \in StoredKeys, NEW bad
    PROVE  LET r == MergedTo(m, op, target, bad)
           IN  /\ MergedOK(r) /\ (r.forward <=> op # "last")
               /\ bad = {} /\ ~Failed(m) => ~Failed(r)
<1> DEFINE N == Len(tables)
           children == [i \in DOMAIN m.children |-> Moved(m.children[i], i, op, target, bad)]
           r == MergedTo(m, op, target, bad)
<1>1. r = Found(children, op # "last")
  BY DEF MergedTo
<1>2. DOMAIN m.children = 0..N /\ \A i \in 0..N : ChildInv(m.children[i], i)
  BY DEF MergedOK
<1>3. DOMAIN children = 0..N /\ \A i \in 0..N : children[i] = Moved(m.children[i], i, op, target, bad)
  BY <1>2
<1> HIDE DEF children, r, N
<1>4. ASSUME NEW i \in 0..N
      PROVE  /\ ChildInv(children[i], i)
             /\ i # 0 /\ bad = {} /\ ~TableFailed(m.children[i]) => ~TableFailed(children[i])
  BY <1>2, <1>3, ChildMoves DEF N
<1>5. (op # "last") \in BOOLEAN
  OBVIOUS
<1> DEFINE forward == op # "last"
<1> HIDE DEF forward
<1>6. MergedOK(r) /\ r.children = children /\ r.forward = forward
  BY <1>1, <1>3, <1>4, <1>5, FoundIs DEF N, forward
<1>7. ASSUME bad = {}, ~Failed(m) PROVE ~Failed(r)
  <2>1. N \in Nat /\ \A i \in 1..N : i \in 0..N /\ i # 0
    BY DEF TablesInv, N
  <2>2. \A i \in 1..N : ~TableFailed(m.children[i])
    BY <1>7, NoneFails DEF N
  <2>3. ASSUME NEW i \in 1..N PROVE ~TableFailed(r.children[i])
    <3>1. i \in 0..N /\ i # 0 /\ ~TableFailed(m.children[i])
      BY <2>1, <2>2
    <3>2. ~TableFailed(children[i])
      BY <1>4, <1>7, <3>1
    <3> QED
      BY <1>6, <3>2
  <2> QED
    BY <1>6, <2>3, NoneFails DEF N
<1> QED
  BY <1>6, <1>7 DEF r, forward

\* Turning round keeps a child in order: for Next,
LEMMA AfterIs ==
    ASSUME ListInvariant, TablesInv, NEW i \in 0..Len(tables), NEW c, ChildInv(c, i),
           NEW key \in StoredKeys, NEW bad
    PROVE  LET r == After(c, i, key, bad)
           IN  /\ ChildInv(r, i)
               /\ i # 0 /\ bad = {} /\ ~TableFailed(c) => ~TableFailed(r)
<1> DEFINE s == Moved(c, i, "seek", key, bad)
           r == Moved(s, i, "next", key, bad)
<1>1. After(c, i, key, bad) = IF ChildValid(s, i) /\ ChildKey(s, i) = key THEN r ELSE s
  BY DEF After
<1>2. ChildInv(s, i) /\ (i # 0 /\ bad = {} /\ ~TableFailed(c) => ~TableFailed(s))
  BY ChildMoves
<1> HIDE DEF s
<1>3. CASE ChildValid(s, i) /\ ChildKey(s, i) = key
  <2>1. ChildInv(r, i) /\ (i # 0 /\ bad = {} /\ ~TableFailed(s) => ~TableFailed(r))
    BY <1>2, <1>3, ChildMoves
  <2> HIDE DEF r
  <2> QED
    BY <1>1, <1>2, <1>3, <2>1
<1>4. CASE ~(ChildValid(s, i) /\ ChildKey(s, i) = key)
  <2> HIDE DEF r
  <2> QED
    BY <1>1, <1>2, <1>4
<1> QED
  BY <1>3, <1>4

\* and for Prev.
LEMMA BeforeIs ==
    ASSUME ListInvariant, TablesInv, NEW i \in 0..Len(tables), NEW c, ChildInv(c, i),
           NEW key \in StoredKeys, NEW bad
    PROVE  LET r == Before(c, i, key, bad)
           IN  /\ ChildInv(r, i)
               /\ i # 0 /\ bad = {} /\ ~TableFailed(c) => ~TableFailed(r)
<1> DEFINE s == Moved(c, i, "seek", key, bad)
           op == IF ChildValid(s, i) THEN "prev" ELSE "last"
           r == Moved(s, i, op, key, bad)
<1>1. Before(c, i, key, bad) = r
  BY DEF Before
<1>2. ChildInv(s, i) /\ (i # 0 /\ bad = {} /\ ~TableFailed(c) => ~TableFailed(s))
  BY ChildMoves
<1> HIDE DEF s
<1>3. op \in {"first", "last", "seek", "next", "prev"} /\ op # "seek"
      /\ (op \in {"next", "prev"} => ChildValid(s, i))
  OBVIOUS
<1> HIDE DEF op
<1>4. ChildInv(r, i) /\ (i # 0 /\ bad = {} /\ ~TableFailed(s) => ~TableFailed(r))
  BY <1>2, <1>3, ChildMoves
<1> HIDE DEF r
<1> QED
  BY <1>1, <1>2, <1>4

\* Next; if it did not turn round, it is at a later entry.
LEMMA MergedNextIs ==
    ASSUME ListInvariant, TablesInv, NEW m, MergedOK(m), MergedValid(m), NEW bad
    PROVE  LET r == MergedNext(m, bad)
           IN  /\ MergedOK(r) /\ r.forward = TRUE
               /\ bad = {} /\ ~Failed(m) => ~Failed(r)
               /\ m.forward = TRUE /\ MergedValid(r) => Less(MergedKey(m), MergedKey(r))
<1> DEFINE N == Len(tables)
           key == MergedKey(m)
           c(i) == m.children[i]
           To1(i) == IF i = m.current THEN Moved(c(i), i, "next", key, bad)
                     ELSE IF m.forward THEN c(i)
                     ELSE After(c(i), i, key, bad)
           children == [i \in DOMAIN m.children |-> To1(i)]
           r == MergedNext(m, bad)
<1>1. r = Found(children, TRUE)
  BY DEF MergedNext
<1>2. /\ DOMAIN m.children = 0..N /\ \A i \in 0..N : ChildInv(c(i), i)
      /\ m.current \in 0..N /\ ChildValid(c(m.current), m.current) /\ m.forward \in BOOLEAN
      /\ key = ChildKey(c(m.current), m.current)
      /\ \A i \in 0..N : ChildValid(c(i), i) =>
             IF m.forward THEN ~Less(ChildKey(c(i), i), key) ELSE ~Less(key, ChildKey(c(i), i))
  BY DEF MergedOK, MergedValid, MergedKey
<1>3. DOMAIN children = 0..N /\ \A i \in 0..N : children[i] = To1(i)
  BY <1>2
<1> HIDE DEF children, r, N, c, key
<1>4. key \in StoredKeys
  BY <1>2, ChildKeyIs, StoredOrder DEF N
<1>5. ASSUME NEW i \in 0..N
      PROVE  /\ ChildInv(children[i], i)
             /\ i # 0 /\ bad = {} /\ ~TableFailed(c(i)) => ~TableFailed(children[i])
  <2>1. CASE i = m.current
    BY <1>2, <1>3, <2>1, ChildMoves DEF N
  <2>2. CASE i # m.current
    BY <1>2, <1>3, <1>4, <2>2, AfterIs DEF N
  <2> QED
    BY <2>1, <2>2
<1>6. MergedOK(r) /\ r.children = children /\ r.forward = TRUE
  BY <1>1, <1>3, <1>5, FoundIs DEF N
<1>7. ASSUME bad = {}, ~Failed(m) PROVE ~Failed(r)
  <2>1. N \in Nat /\ \A i \in 1..N : i \in 0..N /\ i # 0
    BY DEF TablesInv, N
  <2>2. \A i \in 1..N : ~TableFailed(c(i))
    BY <1>7, NoneFails DEF N, c
  <2>3. \A i \in 1..N : ~TableFailed(r.children[i])
    BY <1>5, <1>6, <1>7, <2>1, <2>2
  <2> QED
    BY <1>6, <2>3, NoneFails DEF N
<1>8. ASSUME m.forward = TRUE, MergedValid(r) PROVE Less(MergedKey(m), MergedKey(r))
  <2> DEFINE j == r.current
  <2>1. j \in 0..N /\ ChildValid(children[j], j) /\ MergedKey(r) = ChildKey(children[j], j)
    BY <1>6, <1>8 DEF MergedOK, MergedValid, MergedKey, N
  <2> HIDE DEF j
  <2>2. CASE j = m.current
    <3>1. children[j] = Moved(c(j), j, "next", key, bad)
      BY <1>3, <2>1, <2>2
    <3>2. Less(ChildKey(c(j), j), ChildKey(children[j], j))
      BY <1>2, <2>1, <2>2, <3>1, ChildMoves DEF N
    <3> QED
      BY <1>2, <2>1, <2>2, <3>2 DEF key
  <2>3. CASE j # m.current
    <3>1. children[j] = c(j)
      BY <1>3, <1>8, <2>1, <2>3
    <3>2. ChildKey(c(j), j) \in ChildKeys(j) /\ ChildKey(c(j), j) \in TaggedKeys
      BY <1>2, <2>1, <3>1, ChildKeyIs DEF N
    <3>3. key \in ChildKeys(m.current) /\ key \in TaggedKeys
      BY <1>2, ChildKeyIs DEF N
    <3>4. ChildKeys(j) \cap ChildKeys(m.current) = {}
      BY <1>2, <2>1, <2>3, ChildrenDiffer DEF N
    <3>5. ~Less(ChildKey(c(j), j), key)
      BY <1>2, <1>8, <2>1, <3>1
    <3>6. Less(key, ChildKey(c(j), j))
      BY <3>2, <3>3, <3>4, <3>5, LessIsAnOrder
    <3> QED
      BY <2>1, <3>1, <3>6 DEF key
  <2> QED
    BY <2>2, <2>3
<1> QED
  BY <1>6, <1>7, <1>8 DEF r

\* Prev; if it did not turn round, it is at an earlier entry.
LEMMA MergedPrevIs ==
    ASSUME ListInvariant, TablesInv, NEW m, MergedOK(m), MergedValid(m), NEW bad
    PROVE  LET r == MergedPrev(m, bad)
           IN  /\ MergedOK(r) /\ r.forward = FALSE
               /\ bad = {} /\ ~Failed(m) => ~Failed(r)
               /\ m.forward = FALSE /\ MergedValid(r) => Less(MergedKey(r), MergedKey(m))
<1> DEFINE N == Len(tables)
           key == MergedKey(m)
           c(i) == m.children[i]
           To1(i) == IF i = m.current THEN Moved(c(i), i, "prev", key, bad)
                     ELSE IF ~m.forward THEN c(i)
                     ELSE Before(c(i), i, key, bad)
           children == [i \in DOMAIN m.children |-> To1(i)]
           r == MergedPrev(m, bad)
<1>1. r = Found(children, FALSE)
  BY DEF MergedPrev
<1>2. /\ DOMAIN m.children = 0..N /\ \A i \in 0..N : ChildInv(c(i), i)
      /\ m.current \in 0..N /\ ChildValid(c(m.current), m.current) /\ m.forward \in BOOLEAN
      /\ key = ChildKey(c(m.current), m.current)
      /\ \A i \in 0..N : ChildValid(c(i), i) =>
             IF m.forward THEN ~Less(ChildKey(c(i), i), key) ELSE ~Less(key, ChildKey(c(i), i))
  BY DEF MergedOK, MergedValid, MergedKey
<1>3. DOMAIN children = 0..N /\ \A i \in 0..N : children[i] = To1(i)
  BY <1>2
<1> HIDE DEF children, r, N, c, key
<1>4. key \in StoredKeys
  BY <1>2, ChildKeyIs, StoredOrder DEF N
<1>5. ASSUME NEW i \in 0..N
      PROVE  /\ ChildInv(children[i], i)
             /\ i # 0 /\ bad = {} /\ ~TableFailed(c(i)) => ~TableFailed(children[i])
  <2>1. CASE i = m.current
    BY <1>2, <1>3, <2>1, ChildMoves DEF N
  <2>2. CASE i # m.current
    BY <1>2, <1>3, <1>4, <2>2, BeforeIs DEF N
  <2> QED
    BY <2>1, <2>2
<1>6. MergedOK(r) /\ r.children = children /\ r.forward = FALSE
  BY <1>1, <1>3, <1>5, FoundIs DEF N
<1>7. ASSUME bad = {}, ~Failed(m) PROVE ~Failed(r)
  <2>1. N \in Nat /\ \A i \in 1..N : i \in 0..N /\ i # 0
    BY DEF TablesInv, N
  <2>2. \A i \in 1..N : ~TableFailed(c(i))
    BY <1>7, NoneFails DEF N, c
  <2>3. \A i \in 1..N : ~TableFailed(r.children[i])
    BY <1>5, <1>6, <1>7, <2>1, <2>2
  <2> QED
    BY <1>6, <2>3, NoneFails DEF N
<1>8. ASSUME m.forward = FALSE, MergedValid(r) PROVE Less(MergedKey(r), MergedKey(m))
  <2> DEFINE j == r.current
  <2>1. j \in 0..N /\ ChildValid(children[j], j) /\ MergedKey(r) = ChildKey(children[j], j)
    BY <1>6, <1>8 DEF MergedOK, MergedValid, MergedKey, N
  <2> HIDE DEF j
  <2>2. CASE j = m.current
    <3>1. children[j] = Moved(c(j), j, "prev", key, bad)
      BY <1>3, <2>1, <2>2
    <3>2. Less(ChildKey(children[j], j), ChildKey(c(j), j))
      BY <1>2, <2>1, <2>2, <3>1, ChildMoves DEF N
    <3> QED
      BY <1>2, <2>1, <2>2, <3>2 DEF key
  <2>3. CASE j # m.current
    <3>1. children[j] = c(j)
      BY <1>3, <1>8, <2>1, <2>3
    <3>2. ChildKey(c(j), j) \in ChildKeys(j) /\ ChildKey(c(j), j) \in TaggedKeys
      BY <1>2, <2>1, <3>1, ChildKeyIs DEF N
    <3>3. key \in ChildKeys(m.current) /\ key \in TaggedKeys
      BY <1>2, ChildKeyIs DEF N
    <3>4. ChildKeys(j) \cap ChildKeys(m.current) = {}
      BY <1>2, <2>1, <2>3, ChildrenDiffer DEF N
    <3>5. ~Less(key, ChildKey(c(j), j))
      BY <1>2, <1>8, <2>1, <3>1
    <3>6. Less(ChildKey(c(j), j), key)
      BY <3>2, <3>3, <3>4, <3>5, LessIsAnOrder
    <3> QED
      BY <2>1, <3>1, <3>6 DEF key
  <2> QED
    BY <2>2, <2>3
<1> QED
  BY <1>6, <1>7, <1>8 DEF r

-----------------------------------------------------------------------------
(* The steps of a reader. *)

\* A seek of DBIter keeps the merged iterator in order,
LEMMA ToKeeps ==
    ASSUME ListInvariant, TablesInv, MergedInv, mem' = mem, tables' = tables,
           DOMAIN bounds = {"last", "inserts", "unread"},
           NEW op \in {"first", "last", "seek"}, NEW target,
           op = "seek" => target \in StoredKeys, To(op, target)
    PROVE  MergedInv' /\ merged'.forward \in BOOLEAN /\ (merged'.forward <=> op # "last")
<1>1. PICK bad : merged' = MergedTo(merged, op, target, bad) /\ \E readable : Faulty(bad, readable)
  BY DEF To
<1> DEFINE r == MergedTo(merged, op, target, bad)
<1>2. MergedOK(merged) /\ bounds.unread \in Nat /\ (bounds.unread = 0 => ~Failed(merged))
  BY DEF MergedInv
<1>3. MergedOK(r) /\ (r.forward <=> op # "last") /\ (bad = {} /\ ~Failed(merged) => ~Failed(r))
  BY <1>2, MergedToIs
<1>4. merged' = r
  BY <1>1
<1> HIDE DEF r
<1>5. r.forward \in BOOLEAN
  BY <1>3 DEF MergedOK
<1>6. MergedOK(merged)'
  BY <1>3, <1>4 DEF MergedOK, ChildInv, ChildValid
<1>7. bounds'.unread \in Nat /\ (bounds'.unread = 0 => bad = {} /\ bounds.unread = 0)
  <2>1. (bounds' = bounds /\ bad = {}) \/ bounds' = [bounds EXCEPT !.unread = @ + 1]
    BY <1>1 DEF Faulty
  <2>2. CASE bounds' = bounds /\ bad = {}
    BY <1>2, <2>2
  <2>3. CASE bounds' = [bounds EXCEPT !.unread = @ + 1]
    <3>1. bounds'.unread = bounds.unread + 1
      BY <2>3
    <3> QED
      BY <1>2, <3>1
  <2> QED
    BY <2>1, <2>2, <2>3
<1>8. bounds'.unread = 0 => ~Failed(merged')
  BY <1>2, <1>3, <1>4, <1>7
<1> QED
  BY <1>3, <1>4, <1>5, <1>6, <1>7, <1>8 DEF MergedInv

\* and so do Next
LEMMA ToNextKeeps ==
    ASSUME ListInvariant, TablesInv, MergedInv, mem' = mem, tables' = tables,
           DOMAIN bounds = {"last", "inserts", "unread"},
           MergedValid(merged), ToNext
    PROVE  MergedInv' /\ merged'.forward \in BOOLEAN /\ merged'.forward = TRUE
<1>1. PICK bad : merged' = MergedNext(merged, bad) /\ \E readable : Faulty(bad, readable)
  BY DEF ToNext
<1> DEFINE r == MergedNext(merged, bad)
<1>2. MergedOK(merged) /\ bounds.unread \in Nat /\ (bounds.unread = 0 => ~Failed(merged))
  BY DEF MergedInv
<1>3. MergedOK(r) /\ r.forward = TRUE /\ (bad = {} /\ ~Failed(merged) => ~Failed(r))
  BY <1>2, MergedNextIs
<1>4. merged' = r
  BY <1>1
<1> HIDE DEF r
<1>5. r.forward \in BOOLEAN
  BY <1>3 DEF MergedOK
<1>6. MergedOK(merged)'
  BY <1>3, <1>4 DEF MergedOK, ChildInv, ChildValid
<1>7. bounds'.unread \in Nat /\ (bounds'.unread = 0 => bad = {} /\ bounds.unread = 0)
  <2>1. (bounds' = bounds /\ bad = {}) \/ bounds' = [bounds EXCEPT !.unread = @ + 1]
    BY <1>1 DEF Faulty
  <2>2. CASE bounds' = bounds /\ bad = {}
    BY <1>2, <2>2
  <2>3. CASE bounds' = [bounds EXCEPT !.unread = @ + 1]
    <3>1. bounds'.unread = bounds.unread + 1
      BY <2>3
    <3> QED
      BY <1>2, <3>1
  <2> QED
    BY <2>1, <2>2, <2>3
<1>8. bounds'.unread = 0 => ~Failed(merged')
  BY <1>2, <1>3, <1>4, <1>7
<1> QED
  BY <1>3, <1>4, <1>5, <1>6, <1>7, <1>8 DEF MergedInv

\* and Prev; status() tells of a block that could not be read.
LEMMA ToPrevKeeps ==
    ASSUME ListInvariant, TablesInv, MergedInv, mem' = mem, tables' = tables,
           DOMAIN bounds = {"last", "inserts", "unread"},
           MergedValid(merged), ToPrev
    PROVE  MergedInv' /\ merged'.forward \in BOOLEAN /\ merged'.forward = FALSE
<1>1. PICK bad : merged' = MergedPrev(merged, bad) /\ \E readable : Faulty(bad, readable)
  BY DEF ToPrev
<1> DEFINE r == MergedPrev(merged, bad)
<1>2. MergedOK(merged) /\ bounds.unread \in Nat /\ (bounds.unread = 0 => ~Failed(merged))
  BY DEF MergedInv
<1>3. MergedOK(r) /\ r.forward = FALSE /\ (bad = {} /\ ~Failed(merged) => ~Failed(r))
  BY <1>2, MergedPrevIs
<1>4. merged' = r
  BY <1>1
<1> HIDE DEF r
<1>5. r.forward \in BOOLEAN
  BY <1>3 DEF MergedOK
<1>6. MergedOK(merged)'
  BY <1>3, <1>4 DEF MergedOK, ChildInv, ChildValid
<1>7. bounds'.unread \in Nat /\ (bounds'.unread = 0 => bad = {} /\ bounds.unread = 0)
  <2>1. (bounds' = bounds /\ bad = {}) \/ bounds' = [bounds EXCEPT !.unread = @ + 1]
    BY <1>1 DEF Faulty
  <2>2. CASE bounds' = bounds /\ bad = {}
    BY <1>2, <2>2
  <2>3. CASE bounds' = [bounds EXCEPT !.unread = @ + 1]
    <3>1. bounds'.unread = bounds.unread + 1
      BY <2>3
    <3> QED
      BY <1>2, <3>1
  <2> QED
    BY <2>1, <2>2, <2>3
<1>8. bounds'.unread = 0 => ~Failed(merged')
  BY <1>2, <1>3, <1>4, <1>7
<1> QED
  BY <1>3, <1>4, <1>5, <1>6, <1>7, <1>8 DEF MergedInv

\* What the merged iterator is at.
LEMMA MergedKeyIs ==
    ASSUME ListInvariant, TablesInv, MergedOK(merged), MergedValid(merged)
    PROVE  /\ MergedKey(merged) \in TaggedKeys /\ User(MergedKey(merged)) \in Seq(Nat)
           /\ MergedValue(merged) \in Nat
           /\ SequenceOf(MergedKey(merged)) \in Nat
           /\ TypeOf(MergedKey(merged)) \in {Value, Deletion}
<1> DEFINE k == MergedKey(merged)
           i == merged.current
           c == merged.children[i]
<1>1. i \in 0..Len(tables) /\ ChildInv(c, i) /\ ChildValid(c, i) /\ k = ChildKey(c, i)
  BY DEF MergedOK, MergedValid, MergedKey
<1> HIDE DEF k, c
<1>2. k \in TaggedKeys /\ (i # 0 => k = c.data.key /\ SequenceOf(c.data.key) = c.data.value)
  BY <1>1, ChildKeyIs
<1>3. User(k) \in Seq(Nat) /\ Tag(k) \in Nat
  BY <1>2, KeyParts
<1>4. SequenceOf(k) \in Nat /\ TypeOf(k) \in {Value, Deletion}
  BY <1>3 DEF SequenceOf, TypeOf, Value, Deletion
<1>5. MergedValue(merged) = SequenceOf(k)
  BY <1>2 DEF MergedValue, TableValue, k, c
<1> QED
  BY <1>2, <1>3, <1>4, <1>5 DEF k

\* The variables of a call keep their types.
LEMMA CallsAre ==
    /\ Idle \in CallStates /\ Idle.pc = "idle"
    /\ \A c \in CallStates : \A p \in {"find next", "find prev", "scan back"}, b \in BOOLEAN,
                                t \in {Value, Deletion} :
          /\ [c EXCEPT !.pc = p] \in CallStates /\ [c EXCEPT !.pc = p].pc = p
          /\ [c EXCEPT !.pc = p, !.skipping = b] \in CallStates
          /\ [c EXCEPT !.pc = p, !.skipping = b].pc = p
          /\ [c EXCEPT !.skipping = b] \in CallStates /\ [c EXCEPT !.skipping = b].pc = c.pc
          /\ [c EXCEPT !.type = t] \in CallStates /\ [c EXCEPT !.type = t].pc = c.pc
    /\ \A c \in CallStates : c.skipping \in BOOLEAN /\ c.type \in {Value, Deletion}
<1>1. Idle \in CallStates /\ Idle.pc = "idle"
  BY DEF Idle, CallStates, Deletion, Value
<1>2. ASSUME NEW c \in CallStates, NEW p \in {"find next", "find prev", "scan back"},
             NEW b \in BOOLEAN, NEW t \in {Value, Deletion}
      PROVE  /\ [c EXCEPT !.pc = p] \in CallStates /\ [c EXCEPT !.pc = p].pc = p
             /\ [c EXCEPT !.pc = p, !.skipping = b] \in CallStates
             /\ [c EXCEPT !.pc = p, !.skipping = b].pc = p
             /\ [c EXCEPT !.skipping = b] \in CallStates /\ [c EXCEPT !.skipping = b].pc = c.pc
             /\ [c EXCEPT !.type = t] \in CallStates /\ [c EXCEPT !.type = t].pc = c.pc
  <2>1. [c EXCEPT !.pc = p] \in CallStates /\ [c EXCEPT !.pc = p].pc = p
    BY DEF CallStates
  <2>2. [c EXCEPT !.pc = p, !.skipping = b] \in CallStates
        /\ [c EXCEPT !.pc = p, !.skipping = b].pc = p
    BY DEF CallStates
  <2>3. [c EXCEPT !.skipping = b] \in CallStates /\ [c EXCEPT !.skipping = b].pc = c.pc
    BY DEF CallStates
  <2>4. [c EXCEPT !.type = t] \in CallStates /\ [c EXCEPT !.type = t].pc = c.pc
    BY DEF CallStates
  <2> QED
    BY <2>1, <2>2, <2>3, <2>4
<1>3. \A c \in CallStates : c.skipping \in BOOLEAN /\ c.type \in {Value, Deletion}
  BY DEF CallStates
<1> QED
  BY <1>1, <1>2, <1>3

\* What does not read, write or move changes nothing.
LEMMA NothingMoves ==
    ASSUME MergedInv, UNCHANGED <<merged, tables, mem, bounds>>
    PROVE  MergedInv'
BY DEF MergedInv, MergedOK, ChildInv, ChildValid

\* Nor do those of an iterator that becomes invalid.
LEMMA NothingIs ==
    ASSUME iter \in DBIters
    PROVE  Nothing \in DBIters /\ Nothing.valid = FALSE /\ Nothing.forward = iter.forward
<1>1. <<>> \in Seq(Nat)
  OBVIOUS
<1> QED
  BY <1>1 DEF DBIters, Nothing

\* The bounds of the model.
LEMMA BoundsAre ==
    ASSUME ListInvariant
    PROVE  DOMAIN bounds = {"last", "inserts", "unread"}
<1>1. bounds = [last |-> bounds.last, inserts |-> bounds.inserts, unread |-> bounds.unread]
  BY DEF ListInvariant
<1>2. \A x, y, z : DOMAIN [last |-> x, inserts |-> y, unread |-> z] = {"last", "inserts", "unread"}
  OBVIOUS
<1> QED
  BY <1>1, <1>2

\* Each step of DBIter keeps the invariant: Seek and SeekToFirst,
LEMMA StartForwardKeeps ==
    ASSUME ListInvariant, TablesInv, MergedInv, ReaderTypes, CallInv, StartForward
    PROVE  MergedInv' /\ ReaderTypes' /\ CallInv'
<1> DEFINE target == IF call.pc = "seek" THEN Key(call.asked.key, sequence, Value) ELSE <<>>
           started == [iter EXCEPT !.forward = TRUE, !.savedValue = 0,
                          !.savedKey = IF call.pc = "seek" THEN target ELSE @]
           ended == [started EXCEPT !.valid = FALSE]
<1>1. /\ call.pc \in {"seek", "first"} /\ To(call.pc, target)
      /\ IF MergedValid(merged')
         THEN iter' = started /\ call' = [call EXCEPT !.pc = "find next"]
         ELSE iter' = ended /\ call' = Idle
      /\ tables' = tables /\ mem' = mem /\ contents' = contents
  BY DEF StartForward, GoOn, Return
<1>2. target \in Seq(Nat) /\ (call.pc = "seek" => target \in StoredKeys)
  <2>1. CASE call.pc = "seek"
    <3>1. call.asked.key \in UserKeys /\ sequence \in Nat
      BY <2>1 DEF ReaderTypes, ListInvariant
    <3>2. Key(call.asked.key, sequence, Value) \in TaggedKeys
      BY <3>1, KeyIs
    <3> QED
      BY <2>1, <3>2, StoredOrder DEF StoredKeys
  <2>2. CASE call.pc # "seek"
    BY <2>2
  <2> QED
    BY <2>1, <2>2
<1> HIDE DEF target
<1>3. MergedInv' /\ merged'.forward
  <2>1. call.pc \in {"first", "last", "seek"} /\ call.pc # "last"
    BY <1>1
  <2> QED
    BY <1>1, <1>2, <2>1, ToKeeps, BoundsAre
<1>4. started \in DBIters /\ started.forward = TRUE /\ ended \in DBIters /\ ended.valid = FALSE
  BY <1>2 DEF ReaderTypes, DBIters
<1> HIDE DEF started, ended
<1>5. call \in CallStates
  BY DEF ReaderTypes
<1>6. CASE MergedValid(merged')
  <2>1. iter' \in DBIters /\ iter'.forward = TRUE /\ call' \in CallStates /\ call'.pc = "find next"
    <3>1. iter' = started /\ call' = [call EXCEPT !.pc = "find next"]
      BY <1>1, <1>6
    <3>2. iter' \in DBIters /\ iter'.forward = TRUE
      BY <1>4, <3>1
    <3>3. call' \in CallStates /\ call'.pc = "find next"
      BY <1>5, <3>1 DEF CallStates
    <3> QED
      BY <3>2, <3>3
  <2>2. ReaderTypes'
    BY <1>1, <2>1 DEF ReaderTypes
  <2>3. CallInv'
    BY <1>3, <1>6, <2>1 DEF CallInv
  <2> QED
    BY <1>3, <2>2, <2>3
<1>7. CASE ~MergedValid(merged')
  <2>1. iter' \in DBIters /\ iter'.valid = FALSE /\ call' \in CallStates /\ call'.pc = "idle"
    BY <1>1, <1>4, <1>7, CallsAre
  <2>2. ReaderTypes'
    BY <1>1, <2>1 DEF ReaderTypes
  <2>3. CallInv'
    BY <2>1 DEF CallInv
  <2> QED
    BY <1>3, <2>2, <2>3
<1> QED
  BY <1>6, <1>7

\* SeekToLast,
LEMMA SeekToLastKeeps ==
    ASSUME ListInvariant, TablesInv, MergedInv, ReaderTypes, CallInv, SeekToLast
    PROVE  MergedInv' /\ ReaderTypes' /\ CallInv'
<1> DEFINE it == [iter EXCEPT !.forward = FALSE, !.savedValue = 0]
<1>1. /\ To("last", <<>>) /\ iter' = it /\ call' = [call EXCEPT !.pc = "find prev"]
      /\ tables' = tables /\ mem' = mem /\ contents' = contents
  BY DEF SeekToLast, GoOn
<1>2. MergedInv' /\ ~merged'.forward
  BY <1>1, ToKeeps, BoundsAre
<1>3. it \in DBIters /\ it.forward = FALSE
  BY DEF ReaderTypes, DBIters
<1> HIDE DEF it
<1>4. iter' \in DBIters /\ iter'.forward = FALSE /\ call' \in CallStates /\ call'.pc = "find prev"
  <2>1. call \in CallStates
    BY DEF ReaderTypes
  <2> QED
    BY <1>1, <1>3, <2>1, CallsAre
<1>5. ReaderTypes'
  BY <1>1, <1>4 DEF ReaderTypes
<1>6. CallInv'
  BY <1>2, <1>4 DEF CallInv
<1> QED
  BY <1>2, <1>5, <1>6

\* Next in the direction of the iterator,
LEMMA NextForwardKeeps ==
    ASSUME ListInvariant, TablesInv, MergedInv, ReaderTypes, CallInv, NextForward
    PROVE  MergedInv' /\ ReaderTypes' /\ CallInv'
<1> DEFINE it == [iter EXCEPT !.savedKey = User(MergedKey(merged))]
<1>1. /\ call.pc = "next" /\ iter.forward /\ iter' = it
      /\ call' = [call EXCEPT !.pc = "find next", !.skipping = TRUE]
      /\ UNCHANGED <<merged, tables, mem, bounds>> /\ contents' = contents
  BY DEF NextForward, GoOn
<1>2. MergedInv'
  BY <1>1, NothingMoves
<1>3. iter \in DBIters /\ call \in CallStates /\ MergedValid(merged) /\ merged.forward
  BY <1>1 DEF ReaderTypes, CallInv
<1>4. User(MergedKey(merged)) \in Seq(Nat)
  BY <1>3, MergedKeyIs DEF MergedInv
<1>5. it \in DBIters /\ it.forward = iter.forward
  BY <1>3, <1>4 DEF DBIters
<1> HIDE DEF it
<1>6. iter' \in DBIters /\ iter'.forward /\ call' \in CallStates /\ call'.pc = "find next"
  BY <1>1, <1>3, <1>5, CallsAre
<1>7. ReaderTypes'
  BY <1>1, <1>6 DEF ReaderTypes
<1>8. CallInv'
  BY <1>1, <1>3, <1>6 DEF CallInv
<1> QED
  BY <1>2, <1>7, <1>8

\* Next that turns round,
LEMMA NextTurnsKeeps ==
    ASSUME ListInvariant, TablesInv, MergedInv, ReaderTypes, CallInv, NextTurns
    PROVE  MergedInv' /\ ReaderTypes' /\ CallInv'
<1> DEFINE it == [iter EXCEPT !.forward = TRUE]
           ended == [Nothing EXCEPT !.forward = TRUE]
<1>1. /\ IF MergedValid(merged) THEN ToNext ELSE To("first", <<>>)
      /\ IF MergedValid(merged')
         THEN iter' = it /\ call' = [call EXCEPT !.pc = "find next", !.skipping = TRUE]
         ELSE iter' = ended /\ call' = Idle
      /\ tables' = tables /\ mem' = mem /\ contents' = contents
  BY DEF NextTurns, GoOn, Return
<1>2. MergedInv' /\ merged'.forward
  <2>1. CASE MergedValid(merged)
    BY <1>1, <2>1, ToNextKeeps, BoundsAre
  <2>2. CASE ~MergedValid(merged)
    BY <1>1, <2>2, ToKeeps, BoundsAre
  <2> QED
    BY <2>1, <2>2
<1>3. iter \in DBIters /\ call \in CallStates
  BY DEF ReaderTypes
<1>4. it \in DBIters /\ it.forward = TRUE /\ ended \in DBIters /\ ended.valid = FALSE
  <2>1. it \in DBIters /\ it.forward = TRUE
    BY <1>3 DEF DBIters
  <2>2. Nothing \in DBIters /\ Nothing.valid = FALSE
    BY <1>3, NothingIs
  <2> HIDE DEF it
  <2>3. ended \in DBIters /\ ended.valid = FALSE
    BY <2>2 DEF DBIters
  <2> QED
    BY <2>1, <2>3
<1> HIDE DEF it, ended
<1>5. iter' \in DBIters /\ call' \in CallStates
      /\ (MergedValid(merged') => iter'.forward = TRUE /\ call'.pc = "find next")
      /\ (~MergedValid(merged') => iter'.valid = FALSE /\ call'.pc = "idle")
  <2>1. CASE MergedValid(merged')
    <3>1. iter' = it /\ call' = [call EXCEPT !.pc = "find next", !.skipping = TRUE]
      BY <1>1, <2>1
    <3>2. call' \in CallStates /\ call'.pc = "find next"
      BY <1>3, <3>1 DEF CallStates
    <3> QED
      BY <1>4, <2>1, <3>1, <3>2
  <2>2. CASE ~MergedValid(merged')
    <3>1. iter' = ended /\ call' = Idle
      BY <1>1, <2>2
    <3> QED
      BY <1>4, <2>2, <3>1, CallsAre
  <2> QED
    BY <2>1, <2>2
<1>6. ReaderTypes'
  BY <1>1, <1>5 DEF ReaderTypes
<1>7. CallInv'
  BY <1>2, <1>5 DEF CallInv
<1> QED
  BY <1>2, <1>6, <1>7

\* a turn of FindNextUserEntry,
LEMMA FindNextKeeps ==
    ASSUME ListInvariant, TablesInv, MergedInv, ReaderTypes, CallInv, FindNextUserEntry
    PROVE  MergedInv' /\ ReaderTypes' /\ CallInv'
<1> DEFINE key == MergedKey(merged)
           deleted == InSnapshot(key) /\ TypeOf(key) = Deletion
           found == InSnapshot(key) /\ TypeOf(key) = Value /\ ~Hidden(User(key))
           skip == IF deleted THEN [iter EXCEPT !.savedKey = User(key)] ELSE iter
           at == [iter EXCEPT !.valid = TRUE, !.savedKey = <<>>]
           more == call.skipping \/ deleted
<1>1. /\ call.pc = "find next"
      /\ IF found
         THEN iter' = at /\ UNCHANGED <<merged, bounds>> /\ call' = Idle
         ELSE /\ ToNext
              /\ IF MergedValid(merged')
                 THEN iter' = skip /\ call' = [call EXCEPT !.skipping = more]
                 ELSE iter' = Nothing /\ call' = Idle
      /\ tables' = tables /\ mem' = mem /\ contents' = contents
  BY DEF FindNextUserEntry, GoOn, Return
<1>2. /\ iter \in DBIters /\ call \in CallStates /\ MergedValid(merged) /\ merged.forward
      /\ iter.forward
  BY <1>1 DEF ReaderTypes, CallInv
<1>3. User(key) \in Seq(Nat)
  BY <1>2, MergedKeyIs DEF MergedInv
<1>4. more \in BOOLEAN /\ found \in BOOLEAN
  <2>1. call.skipping \in BOOLEAN
    BY <1>2, CallsAre
  <2> HIDE DEF deleted
  <2> QED
    BY <2>1
<1> HIDE DEF found, more
<1>5. /\ at \in DBIters /\ at.forward = iter.forward /\ skip \in DBIters
      /\ skip.forward = iter.forward /\ Nothing \in DBIters /\ Nothing.valid = FALSE
  <2>1. at \in DBIters /\ at.forward = iter.forward
    <3>1. <<>> \in Seq(Nat)
      OBVIOUS
    <3> QED
      BY <1>2, <3>1 DEF DBIters
  <2>2. Nothing \in DBIters /\ Nothing.valid = FALSE
    BY <1>2, NothingIs
  <2>3. [iter EXCEPT !.savedKey = User(key)] \in DBIters
        /\ [iter EXCEPT !.savedKey = User(key)].forward = iter.forward
    <3> HIDE DEF key
    <3> QED
      BY <1>2, <1>3 DEF DBIters
  <2>4. skip \in DBIters /\ skip.forward = iter.forward
    <3> HIDE DEF deleted, key
    <3> QED
      BY <1>2, <2>3
  <2> QED
    BY <2>1, <2>2, <2>4
<1> HIDE DEF at, skip
<1>6. CASE found
  <2>1. UNCHANGED <<merged, tables, mem, bounds>> /\ iter' = at /\ call' = Idle
    BY <1>1, <1>6
  <2>2. MergedInv'
    BY <2>1, NothingMoves
  <2>3. iter' \in DBIters /\ iter'.forward /\ call' \in CallStates /\ call'.pc = "idle"
    BY <1>2, <1>5, <2>1, CallsAre
  <2>4. ReaderTypes'
    BY <1>1, <2>3 DEF ReaderTypes
  <2>5. CallInv'
    BY <1>2, <2>1, <2>3 DEF CallInv
  <2> QED
    BY <2>2, <2>4, <2>5
<1>7. CASE ~found
  <2>1. MergedInv' /\ merged'.forward
    BY <1>1, <1>2, <1>7, ToNextKeeps, BoundsAre
  <2>2. iter' \in DBIters /\ call' \in CallStates
        /\ (MergedValid(merged') => iter'.forward /\ call'.pc = "find next")
        /\ (~MergedValid(merged') => iter'.valid = FALSE /\ call'.pc = "idle")
    <3>1. CASE MergedValid(merged')
      <4>1. iter' = skip /\ call' = [call EXCEPT !.skipping = more]
        BY <1>1, <1>7, <3>1
      <4>2. call' \in CallStates /\ call'.pc = "find next"
        BY <1>1, <1>2, <1>4, <4>1 DEF CallStates
      <4> QED
        BY <1>2, <1>5, <3>1, <4>1, <4>2
    <3>2. CASE ~MergedValid(merged')
      <4>1. iter' = Nothing /\ call' = Idle
        BY <1>1, <1>7, <3>2
      <4> QED
        BY <1>5, <3>2, <4>1, CallsAre
    <3> QED
      BY <3>1, <3>2
  <2>3. ReaderTypes'
    BY <1>1, <2>2 DEF ReaderTypes
  <2>4. CallInv'
    BY <2>1, <2>2 DEF CallInv
  <2> QED
    BY <2>1, <2>3, <2>4
<1> QED
  BY <1>6, <1>7

\* Prev in the direction of the iterator,
LEMMA PrevReverseKeeps ==
    ASSUME ListInvariant, TablesInv, MergedInv, ReaderTypes, CallInv, PrevReverse
    PROVE  MergedInv' /\ ReaderTypes' /\ CallInv'
<1>1. /\ call.pc = "prev" /\ ~iter.forward /\ call' = [call EXCEPT !.pc = "find prev"]
      /\ UNCHANGED <<merged, tables, mem, bounds>> /\ contents' = contents /\ iter' = iter
  BY DEF PrevReverse, GoOn
<1>2. MergedInv'
  BY <1>1, NothingMoves
<1>3. iter' \in DBIters /\ call' \in CallStates /\ call'.pc = "find prev"
  BY <1>1 DEF ReaderTypes, CallStates
<1>4. ReaderTypes'
  BY <1>1, <1>3 DEF ReaderTypes
<1>5. CallInv'
  BY <1>1, <1>3 DEF CallInv, MergedValid
<1> QED
  BY <1>2, <1>4, <1>5

\* Prev that turns round,
LEMMA PrevTurnsKeeps ==
    ASSUME ListInvariant, TablesInv, MergedInv, ReaderTypes, CallInv, PrevTurns
    PROVE  MergedInv' /\ ReaderTypes' /\ CallInv'
<1> DEFINE from == IF call.pc = "prev" THEN User(MergedKey(merged)) ELSE iter.savedKey
           ended == [Nothing EXCEPT !.savedValue = 0]
           back == [iter EXCEPT !.forward = FALSE, !.savedKey = from]
           on == [iter EXCEPT !.savedKey = from]
<1>1. /\ call.pc \in {"prev", "scan back"} /\ iter.forward /\ ToPrev
      /\ \/ ~MergedValid(merged') /\ iter' = ended /\ call' = Idle
         \/ /\ MergedValid(merged') /\ iter' = back
            /\ call' = [call EXCEPT !.pc = "find prev"]
         \/ /\ MergedValid(merged') /\ iter' = on
            /\ call' = [call EXCEPT !.pc = "scan back"]
      /\ tables' = tables /\ mem' = mem /\ contents' = contents
  BY DEF PrevTurns, GoOn, Return
<1>2. iter \in DBIters /\ call \in CallStates /\ MergedValid(merged)
  BY <1>1 DEF ReaderTypes, CallInv
<1>3. from \in Seq(Nat)
  <2>1. User(MergedKey(merged)) \in Seq(Nat)
    BY <1>2, MergedKeyIs DEF MergedInv
  <2>2. iter.savedKey \in Seq(Nat)
    BY <1>2 DEF DBIters
  <2> QED
    BY <2>1, <2>2
<1> HIDE DEF from
<1>4. back \in DBIters /\ back.forward = FALSE
  BY <1>2, <1>3 DEF DBIters
<1>5. on \in DBIters /\ on.forward = iter.forward
  BY <1>2, <1>3 DEF DBIters
<1>6. ended \in DBIters /\ ended.valid = FALSE
  <2>1. Nothing \in DBIters /\ Nothing.valid = FALSE
    BY <1>2, NothingIs
  <2> QED
    BY <2>1 DEF DBIters
<1> HIDE DEF back, on, ended
<1>7. MergedInv' /\ merged'.forward = FALSE
  BY <1>1, <1>2, ToPrevKeeps, BoundsAre
<1>8. CASE ~MergedValid(merged') /\ iter' = ended /\ call' = Idle
  <2>1. iter' \in DBIters /\ iter'.valid = FALSE /\ call' \in CallStates /\ call'.pc = "idle"
    BY <1>6, <1>8, CallsAre
  <2>2. ReaderTypes'
    BY <1>1, <2>1 DEF ReaderTypes
  <2>3. CallInv'
    BY <2>1 DEF CallInv
  <2> QED
    BY <1>7, <2>2, <2>3
<1>9. CASE /\ MergedValid(merged') /\ iter' = back
           /\ call' = [call EXCEPT !.pc = "find prev"]
  <2>1. call' \in CallStates /\ call'.pc = "find prev"
    BY <1>2, <1>9 DEF CallStates
  <2>2. iter' \in DBIters /\ iter'.forward = FALSE
    BY <1>4, <1>9
  <2>3. ReaderTypes'
    BY <1>1, <2>1, <2>2 DEF ReaderTypes
  <2>4. CallInv'
    BY <1>7, <2>1, <2>2 DEF CallInv
  <2> QED
    BY <1>7, <2>3, <2>4
<1>10. CASE /\ MergedValid(merged') /\ iter' = on
            /\ call' = [call EXCEPT !.pc = "scan back"]
  <2>1. call' \in CallStates /\ call'.pc = "scan back"
    BY <1>2, <1>10 DEF CallStates
  <2>2. iter' \in DBIters /\ iter'.forward
    BY <1>1, <1>5, <1>10
  <2>3. ReaderTypes'
    BY <1>1, <2>1, <2>2 DEF ReaderTypes
  <2>4. CallInv'
    BY <1>7, <1>10, <2>1, <2>2 DEF CallInv
  <2> QED
    BY <1>7, <2>3, <2>4
<1> QED
  BY <1>1, <1>8, <1>9, <1>10

\* and a turn of FindPrevUserEntry.
LEMMA FindPrevKeeps ==
    ASSUME ListInvariant, TablesInv, MergedInv, ReaderTypes, CallInv, FindPrevUserEntry
    PROVE  MergedInv' /\ ReaderTypes' /\ CallInv'
<1> DEFINE key == MergedKey(merged)
           taken == IF ~InSnapshot(key) THEN iter
                    ELSE IF TypeOf(key) = Deletion
                    THEN [iter EXCEPT !.savedKey = <<>>, !.savedValue = 0]
                    ELSE [iter EXCEPT !.savedKey = User(key), !.savedValue = MergedValue(merged)]
           none == [Nothing EXCEPT !.savedValue = 0, !.forward = TRUE]
           at == [iter EXCEPT !.valid = TRUE]
           type == IF InSnapshot(key) THEN TypeOf(key) ELSE call.type
<1>1. /\ call.pc = "find prev"
      /\ \/ iter' \in {none, at} /\ UNCHANGED <<merged, bounds>> /\ call' = Idle
         \/ /\ MergedValid(merged) /\ ToPrev /\ iter' = taken
            /\ call' = [call EXCEPT !.type = type]
      /\ tables' = tables /\ mem' = mem /\ contents' = contents
  BY DEF FindPrevUserEntry, GoOn, Return
<1>2. /\ iter \in DBIters /\ call \in CallStates
      /\ ~iter.forward /\ (MergedValid(merged) => ~merged.forward)
  BY <1>1 DEF ReaderTypes, CallInv
<1>3. at \in DBIters /\ at.forward = iter.forward
  BY <1>2 DEF DBIters
<1>4. none \in DBIters /\ none.valid = FALSE
  <2>1. Nothing \in DBIters /\ Nothing.valid = FALSE
    BY <1>2, NothingIs
  <2> QED
    BY <2>1 DEF DBIters
<1> HIDE DEF at, none
<1>5. CASE iter' \in {none, at} /\ UNCHANGED <<merged, bounds>> /\ call' = Idle
  <2>1. MergedInv'
    BY <1>1, <1>5, NothingMoves
  <2>2. call' \in CallStates /\ call'.pc = "idle"
    BY <1>5, CallsAre
  <2>3. iter' \in DBIters /\ (iter'.valid => ~iter'.forward)
    BY <1>2, <1>3, <1>4, <1>5
  <2>4. ReaderTypes'
    BY <1>1, <2>2, <2>3 DEF ReaderTypes
  <2>5. CallInv'
    BY <1>2, <1>5, <2>2, <2>3 DEF CallInv
  <2> QED
    BY <2>1, <2>4, <2>5
<1>6. CASE /\ MergedValid(merged) /\ ToPrev /\ iter' = taken
           /\ call' = [call EXCEPT !.type = type]
  <2>1. MergedInv' /\ merged'.forward = FALSE
    BY <1>1, <1>6, ToPrevKeeps, BoundsAre
  <2>2. /\ User(key) \in Seq(Nat) /\ MergedValue(merged) \in Nat
        /\ TypeOf(key) \in {Value, Deletion}
    BY <1>6, MergedKeyIs DEF MergedInv
  <2>3. taken \in DBIters /\ taken.forward = iter.forward
    <3> HIDE DEF key
    <3>1. <<>> \in Seq(Nat)
      OBVIOUS
    <3>2. [iter EXCEPT !.savedKey = <<>>, !.savedValue = 0] \in DBIters
          /\ [iter EXCEPT !.savedKey = <<>>, !.savedValue = 0].forward = iter.forward
      BY <1>2, <3>1 DEF DBIters
    <3> DEFINE e == [iter EXCEPT !.savedKey = User(key), !.savedValue = MergedValue(merged)]
    <3>3. e \in DBIters /\ e.forward = iter.forward
      BY <1>2, <2>2 DEF DBIters
    <3> HIDE DEF e
    <3>4. taken \in {iter, [iter EXCEPT !.savedKey = <<>>, !.savedValue = 0], e}
      BY DEF e
    <3> QED
      BY <1>2, <3>2, <3>3, <3>4
  <2>4. type \in {Value, Deletion}
    BY <1>2, <2>2, CallsAre
  <2> HIDE DEF type, taken
  <2>5. call' \in CallStates /\ call'.pc = "find prev"
    BY <1>1, <1>2, <1>6, <2>4 DEF CallStates
  <2>6. iter' \in DBIters /\ ~iter'.forward
    BY <1>2, <1>6, <2>3
  <2>7. ReaderTypes'
    BY <1>1, <2>5, <2>6 DEF ReaderTypes
  <2>8. CallInv'
    BY <2>1, <2>5, <2>6 DEF CallInv
  <2> QED
    BY <2>1, <2>7, <2>8
<1> QED
  BY <1>1, <1>5, <1>6

\* The keys of a table are keys of the database.
LEMMA TableKeysAre ==
    ASSUME NEW t, IsTable(t, DataKeys(t), KeysOf(t.index))
    PROVE  TableKeys(t) \subseteq TaggedKeys
<1> DEFINE D == DataKeys(t)
<1>1. /\ DOMAIN t.blocks = 1..Len(t.blocks)
      /\ \A i \in 1..Len(t.blocks) :
            DOMAIN D[i] = 1..Len(D[i]) /\ \A j \in 1..Len(D[i]) : D[i][j] \in TaggedKeys
  BY TableIs
<1>2. DOMAIN D = 1..Len(t.blocks)
  BY <1>1 DEF DataKeys
<1> HIDE DEF D
<1>3. TableKeys(t) = UNION {{D[i][j] : j \in DOMAIN D[i]} : i \in DOMAIN D}
  BY DEF TableKeys, D
<1> QED
  BY <1>1, <1>2, <1>3

\* A writer adds keys with new numbers only.
LEMMA WritesKeep ==
    ASSUME TablesInv, MergedInv, tables' = tables, merged' = merged,
           bounds'.unread = bounds.unread, bounds.last \in Nat, bounds'.last \in Nat,
           bounds'.last >= bounds.last, Chain(mem, 1) \subseteq Chain(mem', 1),
           \A k \in Nodes(mem') : \/ k \in Nodes(mem)
                                  \/ k \in TaggedKeys /\ Tag(k) > 2 * bounds.last + 1
    PROVE  TablesInv' /\ MergedInv'
<1>1. ASSUME NEW i \in DOMAIN tables, NEW k \in TableKeys(tables[i])
      PROVE  Tag(k) <= 2 * bounds'.last + 1 /\ k \notin Nodes(mem')
  <2>1. /\ IsTable(tables[i], DataKeys(tables[i]), KeysOf(tables[i].index))
        /\ Tag(k) <= 2 * bounds.last + 1 /\ k \notin Nodes(mem)
    BY DEF TablesInv
  <2>2. Tag(k) \in Nat
    BY <2>1, TableKeysAre, KeyParts
  <2> QED
    BY <2>1, <2>2
<1>2. TablesInv'
  BY <1>1 DEF TablesInv
<1>3. MergedInv'
  BY DEF MergedInv, MergedOK, ChildInv, ChildValid
<1> QED
  BY <1>2, <1>3

\* A writer does not touch the variables of a reader.
LEMMA CallStays ==
    ASSUME ReaderTypes, CallInv, UNCHANGED <<merged, iter, call, contents>>
    PROVE  ReaderTypes' /\ CallInv'
BY DEF ReaderTypes, CallInv, MergedValid

\* A new node takes none from the list, and its number is in no table.
LEMMA InsertKeeps ==
    ASSUME ListInvariant, TablesInv, MergedInv, ReaderTypes, CallInv,
           NEW k \in UserKeys, NEW put \in BOOLEAN, NEW height \in 1..MaxHeight,
           Insert(k, put, height)
    PROVE  TablesInv' /\ MergedInv' /\ ReaderTypes' /\ CallInv'
<1> DEFINE last == bounds.last
           w == [key |-> k, put |-> put]
           key == KeyOf(w, last + 1)
           begun == BeginInsert(mem, key, height)
<1>1. /\ mem.insert = NoInsert /\ mem' = Link(begun)
      /\ bounds' = [bounds EXCEPT !.last = @ + 1, !.inserts = @ + 1]
      /\ UNCHANGED <<tables, contents, merged, iter, call>>
  BY DEF Insert
<1>2. last \in Nat /\ ListInv(mem, last)
  BY DEF ListInvariant
<1>3. bounds'.last = last + 1 /\ bounds'.unread = bounds.unread
  BY <1>1, BoundsAre
<1>4. w \in Writes
  BY DEF Writes
<1>5. key \in TaggedKeys /\ Tag(key) > 2 * last + 1 /\ Tag(key) <= 2 * (last + 1) + 1
  <2> DEFINE s == last + 1
  <2>1. s \in Nat /\ s > 0 /\ s - 1 = last
    BY <1>2
  <2> HIDE DEF s, w
  <2>2. KeyOf(w, s) \in TaggedKeys
        /\ Tag(KeyOf(w, s)) > 2 * (s - 1) + 1 /\ Tag(KeyOf(w, s)) <= 2 * s + 1
    BY <1>4, <2>1, KeyOfIs
  <2> QED
    BY <2>1, <2>2 DEF s
<1> HIDE DEF key, last
<1>6. ListInv(begun, last + 1) /\ begun.insert # NoInsert
  BY <1>1, <1>2, <1>5, BeginKeepsOrder
<1>7. /\ DOMAIN begun.next = DOMAIN mem.next \cup {key}
      /\ \A n \in DOMAIN mem.next : n # key => begun.next[n] = mem.next[n]
  BY DEF BeginInsert
<1>8. key \notin DOMAIN mem.next
  <2>1. SUFFICES ASSUME key \in DOMAIN mem.next PROVE FALSE
    OBVIOUS
  <2>2. key # Head0 /\ Tag(key) \in Nat
    BY <1>5, KeyParts
  <2>3. Tag(key) <= 2 * last + 1
    BY <1>2, <2>1, <2>2 DEF ListInv, Nodes
  <2> QED
    BY <1>2, <1>5, <2>2, <2>3
<1> HIDE DEF begun
<1>9. Chain(mem, 1) \subseteq Chain(begun, 1)
  BY <1>7, <1>8 DEF Chain
<1>10. Chain(mem, 1) \subseteq Chain(mem', 1)
  <2>1. \A l \in 1..MaxHeight : Chain(begun, l) \subseteq Chain(mem', l)
    BY <1>1, <1>6, LinkedChains
  <2>2. 1 \in 1..MaxHeight
    BY SkipListAssumption
  <2> QED
    BY <1>9, <2>1, <2>2
<1>11. DOMAIN mem'.next = DOMAIN mem.next \cup {key}
  BY <1>1, <1>6, <1>7, LinkChanges
<1>12. \A n \in Nodes(mem') : n \in Nodes(mem) \/ (n \in TaggedKeys /\ Tag(n) > 2 * last + 1)
  BY <1>5, <1>11 DEF Nodes
<1>13. TablesInv' /\ MergedInv'
  <2>1. bounds.last \in Nat /\ bounds'.last \in Nat /\ bounds'.last >= bounds.last
    BY <1>2, <1>3 DEF last
  <2>2. \A n \in Nodes(mem') : n \in Nodes(mem) \/ (n \in TaggedKeys /\ Tag(n) > 2 * bounds.last + 1)
    BY <1>12 DEF last
  <2> QED
    BY <1>1, <1>3, <1>10, <2>1, <2>2, WritesKeep
<1> QED
  BY <1>1, <1>13, CallStays

\* Nor does a link take one.
LEMMA GoOnInsertingKeeps ==
    ASSUME ListInvariant, TablesInv, MergedInv, ReaderTypes, CallInv, GoOnInserting
    PROVE  TablesInv' /\ MergedInv' /\ ReaderTypes' /\ CallInv'
<1>1. /\ mem.insert # NoInsert /\ mem' = Link(mem)
      /\ UNCHANGED <<tables, contents, merged, iter, call, bounds>>
  BY DEF GoOnInserting
<1>2. bounds.last \in Nat /\ ListInv(mem, bounds.last)
  BY DEF ListInvariant
<1>3. Chain(mem, 1) \subseteq Chain(mem', 1)
  <2>1. \A l \in 1..MaxHeight : Chain(mem, l) \subseteq Chain(mem', l)
    BY <1>1, <1>2, LinkedChains
  <2>2. 1 \in 1..MaxHeight
    BY SkipListAssumption
  <2> QED
    BY <2>1, <2>2
<1>4. Nodes(mem') = Nodes(mem)
  BY <1>1, <1>2, LinkChanges DEF Nodes
<1>5. TablesInv' /\ MergedInv'
  BY <1>1, <1>2, <1>3, <1>4, WritesKeep
<1> QED
  BY <1>1, <1>5, CallStays

\* A call begins.
LEMMA AskKeeps ==
    ASSUME ListInvariant, TablesInv, MergedInv, ReaderTypes, CallInv, NEW c \in Calls, Ask(c)
    PROVE  TablesInv' /\ MergedInv' /\ ReaderTypes' /\ CallInv'
<1>1. /\ call.pc = "idle" /\ (c.op \in {"next", "prev"} => iter.valid)
      /\ call' = [Idle EXCEPT !.asked = c, !.pc = c.op]
      /\ UNCHANGED <<tables, mem, contents, merged, iter, bounds>>
  BY DEF Ask
<1>2. /\ c.op \in {"first", "last", "next", "prev", "seek"}
      /\ c.op = "seek" => c \in [op : {"seek"}, key : UserKeys]
  BY DEF Calls
<1>3. call' \in CallStates /\ call'.pc = c.op /\ call'.asked = c
  <2>1. call' = [asked |-> c, pc |-> c.op, skipping |-> FALSE, type |-> Deletion]
    BY <1>1 DEF Idle
  <2> QED
    BY <1>2, <2>1 DEF CallStates, Deletion, Value
<1>4. TablesInv'
  BY <1>1 DEF TablesInv
<1>5. MergedInv'
  BY <1>1, NothingMoves
<1>6. ReaderTypes'
  BY <1>1, <1>2, <1>3 DEF ReaderTypes
<1>7. CallInv'
  BY <1>1, <1>2, <1>3 DEF CallInv, MergedValid
<1> QED
  BY <1>4, <1>5, <1>6, <1>7

\* All the steps of a reader.
LEMMA StepKeeps ==
    ASSUME ListInvariant, TablesInv, MergedInv, ReaderTypes, CallInv, Step
    PROVE  TablesInv' /\ MergedInv' /\ ReaderTypes' /\ CallInv'
<1>1. tables' = tables
  <2>1. CASE StartForward
    BY <2>1 DEF StartForward
  <2>2. CASE SeekToLast
    BY <2>2 DEF SeekToLast
  <2>3. CASE NextForward
    BY <2>3 DEF NextForward
  <2>4. CASE NextTurns
    BY <2>4 DEF NextTurns
  <2>5. CASE FindNextUserEntry
    BY <2>5 DEF FindNextUserEntry
  <2>6. CASE PrevReverse
    BY <2>6 DEF PrevReverse
  <2>7. CASE PrevTurns
    BY <2>7 DEF PrevTurns
  <2>8. CASE FindPrevUserEntry
    BY <2>8 DEF FindPrevUserEntry
  <2> QED
    BY <2>1, <2>2, <2>3, <2>4, <2>5, <2>6, <2>7, <2>8 DEF Step
<1>2. mem' = mem /\ bounds'.last = bounds.last
  <2>1. bounds' = bounds \/ bounds' = [bounds EXCEPT !.unread = @ + 1]
    BY ReadersDoNotWrite
  <2> QED
    BY <2>1, ReadersDoNotWrite, BoundsAre
<1>3. TablesInv'
  BY <1>1, <1>2 DEF TablesInv
<1>4. MergedInv' /\ ReaderTypes' /\ CallInv'
  BY StartForwardKeeps, SeekToLastKeeps, NextForwardKeeps, NextTurnsKeeps, FindNextKeeps,
     PrevReverseKeeps, PrevTurnsKeeps, FindPrevKeeps DEF Step
<1> QED
  BY <1>3, <1>4

\* The keys of a table of writes, the first of which has number seq.
LEMMA WrittenIs ==
    ASSUME NEW writes \in Seq(Writes), NEW seq \in Nat \ {0}
    PROVE  /\ Written(writes, seq) \in SUBSET TaggedKeys /\ IsFiniteSet(Written(writes, seq))
           /\ \A k \in Written(writes, seq) :
                 Tag(k) >= 2 * seq /\ Tag(k) < 2 * (seq + Len(writes))
<1> DEFINE N == Len(writes)
           g == [i \in 1..N |-> KeyOf(writes[i], seq + i - 1)]
<1>1. N \in Nat /\ DOMAIN writes = 1..N /\ \A i \in 1..N : writes[i] \in Writes
  OBVIOUS
<1>2. Written(writes, seq) = {g[i] : i \in 1..N}
  BY <1>1 DEF Written
<1>3. ASSUME NEW i \in 1..N
      PROVE  g[i] \in TaggedKeys /\ Tag(g[i]) >= 2 * seq /\ Tag(g[i]) < 2 * (seq + N)
  <2> DEFINE s == seq + i - 1
  <2>1. s \in Nat /\ s > 0 /\ s >= seq /\ s < seq + N /\ writes[i] \in Writes
    BY <1>1
  <2>2. g[i] = KeyOf(writes[i], s)
    OBVIOUS
  <2> HIDE DEF s, g
  <2>3. g[i] \in TaggedKeys /\ Tag(g[i]) > 2 * (s - 1) + 1 /\ Tag(g[i]) <= 2 * s + 1
    BY <2>1, <2>2, KeyOfIs
  <2>4. Tag(g[i]) \in Nat
    BY <2>3, KeyParts
  <2> HIDE DEF N
  <2>5. N \in Nat
    BY <1>1
  <2> QED
    BY <2>1, <2>3, <2>4, <2>5
<1> HIDE DEF N
<1>4. IsFiniteSet(Written(writes, seq))
  <2>1. g \in Surjection(1..N, {g[i] : i \in 1..N})
    BY DEF Surjection
  <2>2. IsFiniteSet(1..N)
    BY <1>1, FS_Interval
  <2> HIDE DEF g
  <2> QED
    BY <1>2, <2>1, <2>2, FS_Surjection
<1> QED
  BY <1>2, <1>3, <1>4 DEF N

\* A later table has later writes.
LEMMA FirstNumbersGrow ==
    ASSUME NEW writes \in Seq(Seq(Writes)), NEW i \in 1..(Len(writes) + 1),
           NEW j \in 1..(Len(writes) + 1), i <= j
    PROVE  FirstNumbers(writes)[i] <= FirstNumbers(writes)[j]
<1> DEFINE N == Len(writes)
           s == FirstNumbers(writes)
           Bad == {m \in 1..(N + 1) : i <= m /\ ~(s[i] <= s[m])}
<1>0. N \in Nat /\ \A m \in 1..N : Len(writes[m]) \in Nat
  <2>1. N \in Nat /\ \A m \in 1..N : writes[m] \in Seq(Writes)
    OBVIOUS
  <2> QED
    BY <2>1
<1>1. /\ \A m \in 1..(N + 1) : s[m] \in Nat
      /\ \A m \in 1..N : s[m + 1] = s[m] + Len(writes[m])
  BY FirstNumbersIs
<1> HIDE DEF s, N
<1>2. Bad = {}
  <2>1. SUFFICES ASSUME Bad # {} PROVE FALSE
    OBVIOUS
  <2>2. Bad \in SUBSET Nat
    BY <1>0
  <2>3. PICK m \in Bad : \A x \in Bad : m <= x
    <3> HIDE DEF Bad
    <3> QED
      BY <2>1, <2>2, LeastNat
  <2>4. m \in 1..(N + 1) /\ i <= m /\ ~(s[i] <= s[m])
    BY <2>3
  <2>5. m # i /\ i \in 1..(N + 1)
    BY <2>4, <1>1 DEF N
  <2>6. m - 1 \in 1..N /\ m - 1 \in 1..(N + 1) /\ i <= m - 1 /\ m = (m - 1) + 1 /\ ~(m <= m - 1)
    BY <1>0, <2>4, <2>5
  <2>7. s[i] <= s[m - 1]
    BY <2>3, <2>6
  <2>8. s[m] = s[m - 1] + Len(writes[m - 1])
    BY <1>1, <2>6
  <2> QED
    BY <1>0, <1>1, <2>4, <2>5, <2>6, <2>7, <2>8
<1> QED
  BY <1>2 DEF s, N

\* The state in which a reader begins.
LEMMA InitIs ==
    ASSUME Init, ListInvariant
    PROVE  TablesInv /\ MergedInv /\ ReaderTypes /\ CallInv
<1>1. PICK writes \in TableContents, memWrites \in MemContents :
      \E heights \in [DOMAIN memWrites -> 1..MaxHeight] :
        LET n == Len(writes)
            seq == FirstNumbers(writes)
            E(i) == Written(writes[i], seq[i])
            last == seq[n + 1] + Len(memWrites) - 1
        IN  /\ tables = [i \in 1..n |-> TableOf(E(n + 1 - i))]
            /\ mem = MemTable(memWrites, seq[n + 1], heights)
            /\ sequence \in 0..last
            /\ contents = Visible(Chain(mem, 1) \cup UNION {E(i) : i \in 1..n}, sequence)
            /\ merged = [children |-> [i \in 0..n |-> IF i = 0 THEN Nowhere
                                                      ELSE NewTableIter(tables[i])],
                         current |-> -1, forward |-> TRUE]
            /\ bounds = [last |-> last, inserts |-> 0, unread |-> 0]
  BY DEF Init, FirstNumbers
<1> DEFINE n == Len(writes)
           seq == FirstNumbers(writes)
           E(i) == Written(writes[i], seq[i])
           last == seq[n + 1] + Len(memWrites) - 1
           children == [i \in 0..n |-> IF i = 0 THEN Nowhere ELSE NewTableIter(tables[i])]
<1>2. PICK heights \in [DOMAIN memWrites -> 1..MaxHeight] :
            /\ tables = [i \in 1..n |-> TableOf(E(n + 1 - i))]
            /\ mem = MemTable(memWrites, seq[n + 1], heights)
            /\ contents = Visible(Chain(mem, 1) \cup UNION {E(i) : i \in 1..n}, sequence)
            /\ merged = [children |-> children, current |-> -1, forward |-> TRUE]
            /\ bounds = [last |-> last, inserts |-> 0, unread |-> 0]
  BY <1>1
<1>3. /\ writes \in Seq(Seq(Writes)) /\ memWrites \in Seq(Writes)
      /\ n \in Nat /\ Len(memWrites) \in Nat
  <2>1. writes \in Seq(Seq(Writes)) /\ memWrites \in Seq(Writes)
    BY IteratorsAssumption
  <2> QED
    BY <2>1
<1>4. /\ \A i \in 1..(n + 1) : seq[i] \in Nat \ {0}
      /\ \A i \in 1..n : seq[i + 1] = seq[i] + Len(writes[i]) /\ writes[i] \in Seq(Writes)
      /\ \A i, j \in 1..(n + 1) : i <= j => seq[i] <= seq[j]
      /\ seq[n + 1] \in Nat \ {0}
  BY <1>3, FirstNumbersIs, FirstNumbersGrow
<1> HIDE DEF n, seq, last, children
<1>5. last \in Nat /\ 2 * seq[n + 1] - 1 <= 2 * last + 1
  BY <1>3, <1>4 DEF last
<1>6. ASSUME NEW i \in 1..n
      PROVE  /\ E(i) \in SUBSET TaggedKeys /\ IsFiniteSet(E(i)) /\ i \in 1..(n + 1) /\ i + 1 \in 1..(n + 1)
             /\ \A k \in E(i) : Tag(k) >= 2 * seq[i] /\ Tag(k) < 2 * seq[i + 1]
  <2>1. i \in 1..(n + 1) /\ i + 1 \in 1..(n + 1) /\ seq[i] \in Nat \ {0}
        /\ seq[i + 1] = seq[i] + Len(writes[i]) /\ writes[i] \in Seq(Writes)
    BY <1>3, <1>4
  <2> QED
    BY <2>1, WrittenIs
<1> HIDE DEF E
<1>7. ASSUME NEW i \in 1..n, NEW j \in 1..n, NEW k, k \in E(i), k \in E(j)
      PROVE  i = j
  <2>1. ASSUME NEW x \in 1..n, NEW y \in 1..n, x < y, k \in E(x), k \in E(y) PROVE FALSE
    <3>1. /\ k \in TaggedKeys /\ x + 1 \in 1..(n + 1) /\ y \in 1..(n + 1)
          /\ Tag(k) < 2 * seq[x + 1] /\ Tag(k) >= 2 * seq[y]
      BY <1>6, <2>1
    <3>2. seq[x + 1] \in Nat /\ seq[y] \in Nat /\ seq[x + 1] <= seq[y]
      <4>1. x + 1 <= y
        BY <1>3, <2>1
      <4> QED
        BY <1>4, <3>1, <4>1
    <3>3. Tag(k) \in Nat
      BY <3>1, KeyParts
    <3> QED
      BY <3>1, <3>2, <3>3
  <2>2. i < j \/ j < i \/ i = j
    BY <1>3
  <2> QED
    BY <1>7, <2>1, <2>2
<1>8. DOMAIN tables = 1..n /\ Len(tables) = n
      /\ \A i \in 1..n : tables[i] = TableOf(E(n + 1 - i)) /\ n + 1 - i \in 1..n
  BY <1>2, <1>3
<1>9. ASSUME NEW i \in 1..n
      PROVE  /\ IsTable(tables[i], DataKeys(tables[i]), KeysOf(tables[i].index))
             /\ TableKeys(tables[i]) \subseteq E(n + 1 - i)
  <2> DEFINE F == E(n + 1 - i)
  <2>1. F \in SUBSET TaggedKeys /\ IsFiniteSet(F) /\ tables[i] = TableOf(F)
    BY <1>6, <1>8
  <2> HIDE DEF F
  <2>2. IsTable(tables[i], DataKeys(tables[i]), KeysOf(tables[i].index)) /\ TableKeys(tables[i]) \subseteq F
    BY <2>1, NewTableIs
  <2> QED
    BY <2>2 DEF F
<1>10. TablesInv
  <2>1. ASSUME NEW i \in 1..n, NEW k \in TableKeys(tables[i])
        PROVE  Tag(k) <= 2 * bounds.last + 1 /\ k \notin Nodes(mem)
    <3> DEFINE j == n + 1 - i
    <3>1. j \in 1..n /\ k \in E(j)
      BY <1>8, <1>9
    <3> HIDE DEF j
    <3>2. k \in TaggedKeys /\ Tag(k) < 2 * seq[j + 1] /\ j + 1 \in 1..(n + 1)
      BY <1>6, <3>1
    <3>3. Tag(k) \in Nat /\ seq[j + 1] \in Nat /\ seq[n + 1] \in Nat /\ seq[j + 1] <= seq[n + 1]
      <4>1. n + 1 \in 1..(n + 1) /\ j + 1 <= n + 1
        BY <1>3, <3>1
      <4> QED
        BY <1>4, <3>2, <4>1, KeyParts
    <3>4. Tag(k) < 2 * seq[n + 1]
      BY <3>2, <3>3
    <3>5. Tag(k) <= 2 * last + 1
      BY <1>3, <3>3, <3>4 DEF last
    <3>6. \A x \in Nodes(mem) : Tag(x) >= 2 * seq[n + 1]
      <4> DEFINE first == seq[n + 1]
      <4>1. first \in Nat /\ first > 0 /\ mem = MemTable(memWrites, first, heights)
        BY <1>2, <1>4
      <4> HIDE DEF first
      <4>2. \A x \in Nodes(mem) : Tag(x) >= 2 * first
        BY <1>3, <4>1, MemTableIsInOrder
      <4> QED
        BY <4>2 DEF first
    <3>7. bounds.last = last
      BY <1>2
    <3> QED
      BY <3>3, <3>4, <3>5, <3>6, <3>7
  <2>2. ASSUME NEW i \in 1..n, NEW j \in 1..n, i # j
        PROVE  TableKeys(tables[i]) \cap TableKeys(tables[j]) = {}
    <3>1. SUFFICES ASSUME NEW k, k \in TableKeys(tables[i]), k \in TableKeys(tables[j]) PROVE FALSE
      OBVIOUS
    <3>2. k \in E(n + 1 - i) /\ k \in E(n + 1 - j)
      BY <1>9, <3>1
    <3>3. n + 1 - i = n + 1 - j
      BY <1>7, <1>8, <3>2
    <3> QED
      BY <1>3, <2>2, <3>3
  <2> QED
    BY <1>3, <1>8, <1>9, <2>1, <2>2 DEF TablesInv
<1>11. merged.children = children /\ merged.current = -1 /\ merged.forward = TRUE
       /\ merged = [children |-> merged.children, current |-> merged.current, forward |-> merged.forward]
  BY <1>2
<1>12. /\ DOMAIN children = 0..n /\ children[0] = Nowhere
       /\ \A i \in 1..n : children[i] = NewTableIter(tables[i])
  BY <1>3 DEF children
<1>13. ASSUME NEW i \in 0..n PROVE ChildInv(children[i], i) /\ (i # 0 => ~TableFailed(children[i]))
  <2>1. CASE i = 0
    BY <1>12, <2>1 DEF ChildInv
  <2>2. CASE i # 0
    <3>1. i \in 1..n
      BY <1>3, <2>2
    <3>2. IsTable(tables[i], DataKeys(tables[i]), KeysOf(tables[i].index))
      BY <1>9, <3>1
    <3>3. /\ children[i] \in TableIters(tables[i], DataKeys(tables[i]), KeysOf(tables[i].index))
          /\ AtRest(tables[i], children[i]) /\ ~TableFailed(children[i])
      BY <1>12, <3>1, <3>2, NewTableIterIs
    <3> QED
      BY <2>2, <3>3 DEF ChildInv
  <2> QED
    BY <2>1, <2>2
<1>14. MergedOK(merged) /\ ~MergedValid(merged)
  BY <1>8, <1>11, <1>12, <1>13 DEF MergedOK, MergedValid
<1>15. ~Failed(merged)
  <2>1. DOMAIN children \ {0} \subseteq 0..n
    BY <1>12
  <2> QED
    BY <1>11, <1>13, <2>1 DEF Failed
<1>16. MergedInv
  <2>1. bounds.unread = 0
    BY <1>2
  <2> QED
    BY <1>14, <1>15, <2>1 DEF MergedInv
<1>17. DOMAIN contents \subseteq UserKeys
  <2> DEFINE S == Chain(mem, 1) \cup UNION {E(i) : i \in 1..n}
  <2>1. Chain(mem, 1) \subseteq TaggedKeys
    <3>1. LinksInv(mem) /\ 1 \in 1..MaxHeight /\ Head0 \in On(mem, 1)
      BY SkipListAssumption DEF ListInvariant, ListInv, On
    <3> QED
      BY <3>1, LinkIs
  <2>2. S \subseteq TaggedKeys
    BY <1>6, <2>1
  <2>3. contents = Visible(S, sequence)
    BY <1>2
  <2> HIDE DEF S
  <2>4. DOMAIN contents \subseteq {User(e) : e \in S}
    BY <2>3 DEF Visible
  <2>5. \A e \in S : User(e) \in UserKeys
    BY <2>2 DEF TaggedKeys
  <2> QED
    BY <2>4, <2>5
<1>18. iter = [valid |-> FALSE, forward |-> TRUE, savedKey |-> <<>>, savedValue |-> 0]
       /\ call = Idle
  BY DEF Init
<1>19. iter \in DBIters /\ iter.valid = FALSE
  <2>1. <<>> \in Seq(Nat)
    OBVIOUS
  <2> QED
    BY <1>18, <2>1 DEF DBIters
<1>20. ReaderTypes
  BY <1>17, <1>18, <1>19, CallsAre DEF ReaderTypes
<1>21. CallInv
  BY <1>18, <1>19, CallsAre DEF CallInv
<1> QED
  BY <1>10, <1>16, <1>20, <1>21

(* Whatever a reader calls, whatever is inserted in the meantime and        *)
(* whichever blocks cannot be read, every child of the MergingIterator is at *)
(* an entry that its table or the memtable holds, or at its end, and         *)
(* "current_ is the smallest child", or the largest on the way back          *)
(* (table/merger.cc:61, 87): for every content and every size of blocks.     *)
THEOREM ReadersFindTheirEntries == Spec => []ReaderInvariant
<1> DEFINE Rest == TablesInv /\ MergedInv /\ ReaderTypes /\ CallInv
<1>1. Init /\ ListInvariant => Rest
  BY InitIs
<1>2. ListInvariant /\ Rest /\ [Next]_vars => Rest'
  <2> SUFFICES ASSUME ListInvariant, Rest, [Next]_vars PROVE Rest'
    OBVIOUS
  <2>1. ASSUME NEW c \in Calls, Ask(c) PROVE Rest'
    BY <2>1, AskKeeps
  <2>2. ASSUME NEW k \in UserKeys, NEW put \in BOOLEAN, NEW height \in 1..MaxHeight,
               Insert(k, put, height)
        PROVE  Rest'
    BY <2>2, InsertKeeps
  <2>3. CASE GoOnInserting
    BY <2>3, GoOnInsertingKeeps
  <2>4. CASE Step
    BY <2>4, StepKeeps
  <2>5. CASE UNCHANGED vars
    <3>1. UNCHANGED <<tables, mem, contents, merged, iter, call, bounds>>
      BY <2>5 DEF vars
    <3>2. TablesInv'
      BY <3>1 DEF TablesInv
    <3>3. MergedInv'
      BY <3>1, NothingMoves
    <3>4. ReaderTypes' /\ CallInv'
      BY <3>1, CallStays
    <3> QED
      BY <3>2, <3>3, <3>4
  <2> QED
    BY <2>1, <2>2, <2>3, <2>4, <2>5 DEF Next
<1>3. ListInvariant /\ Rest => ReaderInvariant
  BY DEF ReaderInvariant
<1> HIDE DEF Rest
<1> QED
  BY <1>1, <1>2, <1>3, ListIsInOrder, PTL DEF Spec

\* An iterator of a block is within the block.
LEMMA BlockIterIs ==
    ASSUME NEW b, NEW K, NEW it \in BlockIters(b, K)
    PROVE  IterOK(b, it)
BY DEF BlockIters, IterStates, IterOK

(* The iterators stay within their blocks and tables, and key() is asked of  *)
(* the merged iterator only where it is at an entry (table/merger.cc:111).   *)
THEOREM IteratorsTypeCorrect == Spec => []TypeOK
<1>1. ReaderInvariant => TypeOK
  <2> SUFFICES ASSUME ReaderInvariant PROVE TypeOK
    OBVIOUS
  <2>1. TablesInv /\ MergedInv /\ ReaderTypes /\ CallInv
    BY DEF ReaderInvariant
  <2>2. MergedOK(merged) /\ DOMAIN tables = 1..Len(tables) /\ Len(tables) \in Nat
    BY <2>1 DEF MergedInv, TablesInv
  <2>3. ASSUME NEW i \in DOMAIN tables
        PROVE  LET it == merged.children[i]
               IN  /\ IterOK(tables[i].index, it.index)
                   /\ it.block \in Unread..Len(tables[i].blocks)
                   /\ it.block > 0 => IterOK(tables[i].blocks[it.block], it.data)
    <3> DEFINE t == tables[i]
               it == merged.children[i]
    <3>1. i \in 0..Len(tables) /\ i # 0
      BY <2>2
    <3>2. ChildInv(it, i)
      BY <2>2, <3>1 DEF MergedOK
    <3> HIDE DEF it
    <3>3. it \in TableIters(t, DataKeys(t), KeysOf(t.index))
      BY <3>1, <3>2 DEF ChildInv
    <3> HIDE DEF t
    <3>4. it \in LooseIters(t, DataKeys(t), KeysOf(t.index))
      BY <3>3 DEF TableIters
    <3>5. /\ it.index \in BlockIters(t.index, KeysOf(t.index)) /\ it.block \in Unread..Len(t.blocks)
          /\ it.block > 0 => it.data \in BlockIters(t.blocks[it.block], DataKeys(t)[it.block])
      BY <3>4 DEF LooseIters
    <3> QED
      BY <3>5, BlockIterIs DEF t, it
  <2>4. merged.children[0] \in Chain(mem, 1) \cup {Nowhere}
    <3>1. 0 \in 0..Len(tables)
      BY <2>2
    <3> QED
      BY <2>2, <3>1 DEF MergedOK, ChildInv
  <2>5. merged.current \in DOMAIN merged.children \cup {-1}
    BY <2>2 DEF MergedOK
  <2>6. call.pc \in {"idle", "find next", "find prev", "scan back"} \cup {c.op : c \in Calls}
    <3>1. call \in CallStates
      BY <2>1 DEF ReaderTypes
    <3>2. call.pc \in {"idle", "first", "last", "seek", "next", "prev",
                       "find next", "find prev", "scan back"}
      BY <3>1 DEF CallStates
    <3>3. \A p \in {"first", "last", "next", "prev"} : [op |-> p] \in Calls /\ [op |-> p].op = p
      BY DEF Calls
    <3>4. CASE call.pc = "seek"
      <4>1. call.asked \in Calls /\ call.asked.op = "seek"
        BY <2>1, <3>4 DEF ReaderTypes, Calls
      <4> QED
        BY <3>4, <4>1
    <3>5. CASE call.pc \in {"first", "last", "next", "prev"}
      BY <3>3, <3>5
    <3> QED
      BY <3>2, <3>4, <3>5
  <2>7. call.asked \in Calls \cup {NoCall}
    BY <2>1 DEF ReaderTypes, CallStates
  <2>8. iter.valid /\ iter.forward /\ call.pc \in {"idle", "next", "prev"} => MergedValid(merged)
    BY <2>1 DEF CallInv
  <2>9. DOMAIN contents \subseteq UserKeys
    BY <2>1 DEF ReaderTypes
  <2> QED
    BY <2>3, <2>4, <2>5, <2>6, <2>7, <2>8, <2>9 DEF TypeOK
<1> QED
  BY <1>1, ReadersFindTheirEntries, PTL

(* The key that the iterator of a block decodes is the key that was added,   *)
(* and no block that was written is taken for corrupt (table/block.cc:238).  *)
THEOREM KeysAreDecodedAlways == Spec => []KeysAreDecoded
<1>1. ReaderInvariant => KeysAreDecoded
  <2> SUFFICES ASSUME ReaderInvariant PROVE KeysAreDecoded
    OBVIOUS
  <2>1. ListInvariant /\ TablesInv /\ MergedInv
    BY DEF ReaderInvariant
  <2>2. /\ MergedOK(merged) /\ DOMAIN tables = 1..Len(tables) /\ Len(tables) \in Nat
        /\ bounds.unread = 0 => ~Failed(merged)
    BY <2>1 DEF MergedInv, TablesInv
  <2>3. ASSUME NEW i \in DOMAIN tables, TableValid(tables[i], merged.children[i])
        PROVE  LET it == merged.children[i]
               IN  User(it.data.key) \in UserKeys /\ SequenceOf(it.data.key) = it.data.value
    <3> DEFINE it == merged.children[i]
    <3>1. i \in 0..Len(tables) /\ i # 0
      BY <2>2
    <3>2. ChildInv(it, i)
      BY <2>2, <3>1 DEF MergedOK
    <3>3. ChildValid(it, i)
      BY <2>3, <3>1 DEF ChildValid
    <3> HIDE DEF it
    <3>4. it.data.key \in TaggedKeys /\ SequenceOf(it.data.key) = it.data.value
      BY <2>1, <3>1, <3>2, <3>3, ChildKeyIs
    <3> QED
      BY <3>4 DEF TaggedKeys, it
  <2> QED
    BY <2>2, <2>3 DEF KeysAreDecoded
<1> QED
  BY <1>1, ReadersFindTheirEntries, PTL

(* Every turn of the loops of DBIter moves on, to a later entry forward and   *)
(* to an earlier one back, whatever was inserted since the turn before       *)
(* (db/db_iter.cc).                                                          *)
THEOREM ReadersAdvance == Spec => []LoopsAdvance
<1>1. ReaderInvariant => LoopsAdvance
  <2> SUFFICES ASSUME ReaderInvariant, MergedValid(merged)
               PROVE  LET next == MergedNext(merged, {})
                          prev == MergedPrev(merged, {})
                      IN  /\ call.pc = "find next" /\ MergedValid(next)
                                => Less(MergedKey(merged), MergedKey(next))
                          /\ call.pc \in {"find prev", "scan back"} /\ MergedValid(prev)
                                => Less(MergedKey(prev), MergedKey(merged))
    BY DEF LoopsAdvance
  <2>1. ListInvariant /\ TablesInv /\ MergedOK(merged) /\ CallInv
    BY DEF ReaderInvariant, MergedInv
  <2>2. /\ call.pc = "find next" => merged.forward = TRUE
        /\ call.pc \in {"find prev", "scan back"} => merged.forward = FALSE
    <3>1. merged.forward \in BOOLEAN
      BY <2>1 DEF MergedOK
    <3>2. call.pc = "find next" => merged.forward
      BY <2>1 DEF CallInv
    <3>3. call.pc \in {"find prev", "scan back"} => ~merged.forward
      BY <2>1 DEF CallInv
    <3> QED
      BY <3>1, <3>2, <3>3
  <2>3. merged.forward = TRUE /\ MergedValid(MergedNext(merged, {}))
            => Less(MergedKey(merged), MergedKey(MergedNext(merged, {})))
    BY <2>1, MergedNextIs
  <2>4. merged.forward = FALSE /\ MergedValid(MergedPrev(merged, {}))
            => Less(MergedKey(MergedPrev(merged, {})), MergedKey(merged))
    BY <2>1, MergedPrevIs
  <2> QED
    BY <2>2, <2>3, <2>4
<1> QED
  BY <1>1, ReadersFindTheirEntries, PTL
=============================================================================
