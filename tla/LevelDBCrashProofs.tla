------------------------- MODULE LevelDBCrashProofs -------------------------
(***************************************************************************)
(* What a crash leaves: CrashInv is an inductive invariant of Spec, so a   *)
(* batch that was published is in a table or in a log that recovery will   *)
(* replay, and below what is synced of it if the writer asked for that.    *)
(* With it, what memtables and tables hold (EntriesInv), and the types.    *)
(***************************************************************************)
EXTENDS LevelDBProofs

-----------------------------------------------------------------------------
(* Batches joined. *)

\* The batches f[1] to f[n] joined, as GroupOps and the sequence numbers count them.
Joined(f, n) == FlattenSeq([i \in 1..n |-> f[i]])

\* Joining is what the recursive FlattenSeq says: the last batch comes after the others.
LEMMA JoinedIs ==
    ASSUME NEW f, NEW N \in Nat
    PROVE  \E g : \A n \in 1..N : /\ Joined(f, n) = g[n]
                                  /\ g[n] = IF n = 1 THEN f[1] ELSE g[n - 1] \o f[n]
<1> DEFINE Is(n, g) == g = [i \in 1..n |-> IF i = 1 THEN f[i] ELSE g[i - 1] \o f[i]]
           Bad == {n \in 0..N : ~\E g : Is(n, g)}
<1>1. Bad = {}
  <2>1. SUFFICES ASSUME Bad # {} PROVE FALSE
    OBVIOUS
  <2>2. Bad \in SUBSET Nat
    <3> HIDE DEF Is
    <3> QED
      OBVIOUS
  <2>3. PICK n \in Bad : \A m \in Bad : n <= m
    BY <2>1, <2>2, LeastNat
  <2>4. n \in 0..N /\ ~\E g : Is(n, g)
    BY <2>3
  <2>5. n # 0
    <3>1. Is(0, [i \in 1..0 |-> f[i]])
      OBVIOUS
    <3> QED
      BY <2>4, <3>1
  <2>6. n \in Nat /\ n - 1 \in 0..N /\ ~(n <= n - 1)
    BY <2>4, <2>5
  <2>7. n - 1 \notin Bad
    <3> HIDE DEF Bad
    <3> QED
      BY <2>3, <2>6
  <2>8. PICK g : Is(n - 1, g)
    BY <2>6, <2>7
  <2> DEFINE h == [i \in 1..n |-> IF i = n THEN IF i = 1 THEN f[i] ELSE g[i - 1] \o f[i]
                                  ELSE g[i]]
  <2>9. \A i \in 1..n : h[i] = IF i = 1 THEN f[i] ELSE h[i - 1] \o f[i]
    <3> TAKE i \in 1..n
    <3>1. CASE i = n
      <4>1. i # 1 => i - 1 \in 1..n /\ i - 1 # n
        BY <2>6
      <4> QED
        BY <3>1, <4>1
    <3>2. CASE i # n
      <4>1. i \in 1..n - 1 /\ h[i] = g[i] /\ (i # 1 => i - 1 \in 1..n /\ i - 1 # n)
        BY <2>6, <3>2
      <4>2. g[i] = IF i = 1 THEN f[i] ELSE g[i - 1] \o f[i]
        BY <2>8, <4>1
      <4>3. i # 1 => h[i - 1] = g[i - 1]
        BY <4>1
      <4> QED
        BY <4>1, <4>2, <4>3
    <3> QED
      BY <3>1, <3>2
  <2>10. h = [i \in 1..n |-> h[i]]
    OBVIOUS
  <2> HIDE DEF h
  <2>11. Is(n, h)
    BY <2>9, <2>10
  <2> QED
    BY <2>4, <2>11
<1>2. PICK g : Is(N, g)
  <2>1. N \in 0..N
    OBVIOUS
  <2> HIDE DEF Is
  <2> QED
    BY <1>1, <2>1
<1>3. \A n \in 1..N : g[n] = IF n = 1 THEN f[1] ELSE g[n - 1] \o f[n]
  BY <1>2
<1>4. ASSUME NEW n \in 1..N PROVE Joined(f, n) = g[n]
  <2> DEFINE q == [i \in 1..n |-> f[i]]
             Of(h) == h = [i \in 1..Len(q) |-> IF i = 1 THEN q[i] ELSE h[i - 1] \o q[i]]
             r == [i \in 1..n |-> g[i]]
  <2>1. Len(q) = n /\ n # 0 /\ \A i \in 1..n : q[i] = f[i]
    OBVIOUS
  <2>2. Joined(f, n) = (CHOOSE h : Of(h))[n]
    BY <2>1 DEF Joined, FlattenSeq
  <2>3. Of(r)
    <3>1. \A i \in 1..n : r[i] = g[i] /\ i \in 1..N /\ (i # 1 => i - 1 \in 1..n)
      OBVIOUS
    <3>2. \A i \in 1..n : r[i] = IF i = 1 THEN f[i] ELSE r[i - 1] \o f[i]
      BY <1>3, <3>1
    <3>3. r = [i \in 1..n |-> r[i]]
      OBVIOUS
    <3> HIDE DEF r
    <3> QED
      BY <2>1, <3>2, <3>3
  <2>4. ASSUME NEW h, Of(h) PROVE h[n] = g[n]
    <3> DEFINE Differ == {i \in 1..n : h[i] # g[i]}
    <3>1. \A i \in 1..n : h[i] = IF i = 1 THEN f[i] ELSE h[i - 1] \o f[i]
      BY <2>1, <2>4
    <3>2. SUFFICES ASSUME Differ # {} PROVE FALSE
      OBVIOUS
    <3>3. Differ \in SUBSET Nat
      OBVIOUS
    <3>4. PICK i \in Differ : \A j \in Differ : i <= j
      BY <3>2, <3>3, LeastNat
    <3>5. i \in 1..n /\ h[i] # g[i] /\ i \in 1..N
      BY <3>4
    <3>6. i # 1
      BY <1>3, <3>1, <3>5
    <3>7. i - 1 \in 1..n /\ ~(i <= i - 1)
      BY <3>5, <3>6
    <3>8. i - 1 \notin Differ
      <4> HIDE DEF Differ
      <4> QED
        BY <3>4, <3>7
    <3>9. h[i - 1] = g[i - 1]
      BY <3>7, <3>8
    <3> QED
      BY <1>3, <3>1, <3>5, <3>6, <3>9
  <2> HIDE DEF Of
  <2> QED
    BY <2>2, <2>3, <2>4
<1> QED
  BY <1>3, <1>4

\* Batches of operations joined are operations, and every batch that is not empty makes
\* them more.
LEMMA JoinedGrows ==
    ASSUME NEW S, NEW f, NEW N \in Nat, \A i \in 1..N : f[i] \in Seq(S) \ {<<>>}
    PROVE  /\ \A n \in 0..N : Joined(f, n) \in Seq(S)
           /\ \A n \in 1..N : \A i \in 1..n :
                  Len(Joined(f, i - 1)) < Len(Joined(f, n))
<1>1. Joined(f, 0) = <<>>
  <2>1. [i \in 1..0 |-> f[i]] = <<>>
    OBVIOUS
  <2> QED
    BY <2>1 DEF Joined, FlattenSeq
<1>2. \A n \in 1..N : Joined(f, n) = IF n = 1 THEN f[1] ELSE Joined(f, n - 1) \o f[n]
  <2>1. PICK g : \A n \in 1..N : /\ Joined(f, n) = g[n]
                                 /\ g[n] = IF n = 1 THEN f[1] ELSE g[n - 1] \o f[n]
    BY JoinedIs
  <2> TAKE n \in 1..N
  <2>2. n # 1 => n - 1 \in 1..N
    OBVIOUS
  <2> QED
    BY <2>1, <2>2
<1>3. \A n \in 1..N : Len(f[n]) \in Nat /\ Len(f[n]) > 0
  BY EmptySeq, LenProperties
<1>4. ASSUME NEW n \in 1..N, Joined(f, n - 1) \in Seq(S)
      PROVE  Joined(f, n) \in Seq(S) /\ Len(Joined(f, n)) = Len(Joined(f, n - 1)) + Len(f[n])
  <2>1. CASE n = 1
    <3>1. n - 1 = 0 /\ Joined(f, n) = f[1] /\ 1 \in 1..N
      <4>1. Joined(f, n) = f[1]
        BY <1>2, <2>1
      <4> QED
        BY <2>1, <4>1
    <3>2. Joined(f, n - 1) = <<>> /\ Len(<<>>) = 0
      BY <1>1, <3>1, EmptySeq
    <3> QED
      BY <1>3, <2>1, <3>1, <3>2
  <2>2. CASE n # 1
    <3>1. Joined(f, n) = Joined(f, n - 1) \o f[n]
      BY <1>2, <2>2
    <3> QED
      BY <1>4, <3>1, ConcatProperties
  <2> QED
    BY <2>1, <2>2
<1> HIDE DEF Joined
<1>5. \A n \in 0..N : Joined(f, n) \in Seq(S)
  <2> DEFINE Bad == {n \in 0..N : Joined(f, n) \notin Seq(S)}
  <2>1. SUFFICES ASSUME Bad # {} PROVE FALSE
    OBVIOUS
  <2>2. PICK n \in Bad : \A m \in Bad : n <= m
    <3>1. Bad \in SUBSET Nat
      OBVIOUS
    <3> HIDE DEF Bad
    <3> QED
      BY <2>1, <3>1, LeastNat
  <2>3. n \in 0..N /\ Joined(f, n) \notin Seq(S)
    BY <2>2
  <2>4. n # 0
    BY <1>1, <2>3, EmptySeq
  <2>5. n \in 1..N /\ n - 1 \in 0..N /\ ~(n <= n - 1)
    BY <2>3, <2>4
  <2>6. n - 1 \notin Bad
    <3> HIDE DEF Bad
    <3> QED
      BY <2>2, <2>5
  <2> QED
    BY <1>4, <2>3, <2>5, <2>6
<1>6. \A n \in 0..N : Len(Joined(f, n)) \in Nat
  BY <1>5, LenProperties
<1>7. ASSUME NEW n \in 1..N
      PROVE  n - 1 \in 0..N /\ Len(Joined(f, n - 1)) < Len(Joined(f, n))
  <2>1. n - 1 \in 0..N /\ n \in 0..N
    OBVIOUS
  <2>2. Len(Joined(f, n)) = Len(Joined(f, n - 1)) + Len(f[n])
    BY <1>4, <1>5, <2>1
  <2>3. Len(Joined(f, n - 1)) \in Nat /\ Len(f[n]) \in Nat /\ Len(f[n]) > 0
    BY <1>3, <1>6, <2>1
  <2> DEFINE a == Len(Joined(f, n - 1))
             b == Len(f[n])
  <2>4. a < a + b
    <3>1. a \in Nat /\ b \in Nat /\ b > 0
      BY <2>3
    <3> HIDE DEF a, b
    <3> QED
      BY <3>1
  <2> QED
    BY <2>1, <2>2, <2>4
<1>8. ASSUME NEW i \in 1..N
      PROVE  \A n \in i..N : Len(Joined(f, i - 1)) < Len(Joined(f, n))
  <2> DEFINE Bad == {n \in i..N : ~(Len(Joined(f, i - 1)) < Len(Joined(f, n)))}
  <2>1. SUFFICES ASSUME Bad # {} PROVE FALSE
    OBVIOUS
  <2>2. PICK n \in Bad : \A m \in Bad : n <= m
    <3>1. Bad \in SUBSET Nat
      OBVIOUS
    <3> HIDE DEF Bad
    <3> QED
      BY <2>1, <3>1, LeastNat
  <2>3. n \in i..N /\ ~(Len(Joined(f, i - 1)) < Len(Joined(f, n)))
    BY <2>2
  <2>4. n # i
    BY <1>7, <2>3
  <2>5. n \in 1..N /\ n - 1 \in i..N /\ ~(n <= n - 1)
    BY <2>3, <2>4
  <2>6. n - 1 \notin Bad
    <3> HIDE DEF Bad
    <3> QED
      BY <2>2, <2>5
  <2>7. Len(Joined(f, i - 1)) < Len(Joined(f, n - 1)) /\ Len(Joined(f, n - 1)) < Len(Joined(f, n))
    BY <1>7, <2>5, <2>6
  <2>8. {Len(Joined(f, i - 1)), Len(Joined(f, n - 1)), Len(Joined(f, n))} \subseteq Nat
    <3>1. {i - 1, n - 1, n} \subseteq 0..N
      BY <2>5
    <3> QED
      BY <1>6, <3>1
  <2> QED
    BY <2>3, <2>7, <2>8
<1>9. ASSUME NEW n \in 1..N, NEW i \in 1..n PROVE Len(Joined(f, i - 1)) < Len(Joined(f, n))
  <2>1. i \in 1..N /\ n \in i..N
    OBVIOUS
  <2> QED
    BY <1>8, <2>1
<1> QED
  BY <1>5, <1>9

-----------------------------------------------------------------------------
(* What a recovery finds. *)

\* What a recovery finds, batch by batch: the recursion of Recovered.
LEMMA RecoveredIs ==
    ASSUME NEW s, NEW d, Len(s) \in Nat
    PROVE  \E F : /\ Recovered(s, d) = F[Len(s)] /\ F[0] = <<>>
                  /\ \A i \in 1..Len(s) :
                         F[i] = IF Recoverable(s[i], d) THEN Append(F[i - 1], s[i]) ELSE F[i - 1]
<1> DEFINE N == Len(s)
           Is(n, g) == g = [i \in 0..n |-> IF i = 0 THEN <<>>
                                ELSE IF Recoverable(s[i], d) THEN Append(g[i - 1], s[i])
                                     ELSE g[i - 1]]
           Bad == {n \in 0..N : ~\E g : Is(n, g)}
<1>1. Bad = {}
  <2>1. SUFFICES ASSUME Bad # {} PROVE FALSE
    OBVIOUS
  <2>2. Bad \in SUBSET Nat
    <3> HIDE DEF Is
    <3> QED
      OBVIOUS
  <2>3. PICK n \in Bad : \A m \in Bad : n <= m
    BY <2>1, <2>2, LeastNat
  <2>4. n \in 0..N /\ ~\E g : Is(n, g)
    BY <2>3
  <2>5. n # 0
    <3>1. Is(0, [i \in 0..0 |-> <<>>])
      OBVIOUS
    <3> QED
      BY <2>4, <3>1
  <2> HIDE DEF N
  <2>6. n \in Nat /\ n - 1 \in 0..N /\ ~(n <= n - 1)
    BY <2>4, <2>5 DEF N
  <2>7. n - 1 \notin Bad
    <3> HIDE DEF Bad
    <3> QED
      BY <2>3, <2>6
  <2>8. PICK g : Is(n - 1, g)
    <3> HIDE DEF Is
    <3> QED
      BY <2>6, <2>7
  <2> DEFINE h == [i \in 0..n |-> IF i = n THEN IF Recoverable(s[i], d) THEN Append(g[i - 1], s[i])
                                                ELSE g[i - 1]
                                  ELSE g[i]]
  <2>9. \A i \in 0..n : h[i] = IF i = 0 THEN <<>>
                               ELSE IF Recoverable(s[i], d) THEN Append(h[i - 1], s[i])
                                    ELSE h[i - 1]
    <3> TAKE i \in 0..n
    <3>1. CASE i = n
      <4>1. i - 1 \in 0..n /\ i - 1 # n /\ i # 0
        BY <2>5, <2>6, <3>1
      <4> QED
        BY <3>1, <4>1
    <3>2. CASE i # n
      <4>1. i \in 0..n - 1 /\ h[i] = g[i] /\ (i # 0 => i - 1 \in 0..n /\ i - 1 # n)
        BY <2>6, <3>2
      <4>2. g[i] = IF i = 0 THEN <<>> ELSE IF Recoverable(s[i], d) THEN Append(g[i - 1], s[i])
                                           ELSE g[i - 1]
        BY <2>8, <4>1
      <4>3. i # 0 => h[i - 1] = g[i - 1]
        BY <4>1
      <4> QED
        BY <4>1, <4>2, <4>3
    <3> QED
      BY <3>1, <3>2
  <2>10. h = [i \in 0..n |-> h[i]]
    OBVIOUS
  <2> HIDE DEF h
  <2>11. Is(n, h)
    BY <2>9, <2>10
  <2> QED
    BY <2>4, <2>11
<1>2. \E g : Is(N, g)
  <2>1. N \in 0..N
    OBVIOUS
  <2> HIDE DEF Is
  <2> QED
    BY <1>1, <2>1
<1>3. Recovered(s, d) = (CHOOSE g : Is(N, g))[N]
  BY DEF Recovered
<1> DEFINE F == CHOOSE g : Is(N, g)
<1>4. Is(N, F)
  <2> HIDE DEF Is
  <2> QED
    BY <1>2
<1> HIDE DEF F
<1>5. F[0] = <<>>
  BY <1>4
<1>6. \A i \in 1..N : F[i] = IF Recoverable(s[i], d) THEN Append(F[i - 1], s[i]) ELSE F[i - 1]
  <2> TAKE i \in 1..N
  <2>1. i \in 0..N /\ i # 0
    OBVIOUS
  <2> QED
    BY <1>4, <2>1
<1> QED
  BY <1>3, <1>5, <1>6 DEF F

\* Of a history that is recovered whole, whatever follows it, nothing is lost or moved;
\* and what is found is what a recovery finds.
LEMMA RecoveredFinds ==
    ASSUME NEW S, NEW s \in Seq(S), NEW d, NEW n \in 0..Len(s)
    PROVE  LET r == Recovered(s, d)
           IN  /\ r \in Seq(S) /\ \A k \in DOMAIN r : Recoverable(r[k], d)
               /\ \A k \in DOMAIN s : Recoverable(s[k], d) => \E m \in DOMAIN r : r[m] = s[k]
               /\ (\A k \in 1..n : Recoverable(s[k], d)) =>
                      n <= Len(r) /\ \A k \in 1..n : r[k] = s[k]
<1> DEFINE N == Len(s)
           Whole == \A k \in 1..n : Recoverable(s[k], d)
<1>0. N \in Nat /\ n \in Nat /\ DOMAIN s = 1..N /\ \A k \in 1..N : s[k] \in S
  BY LenProperties, ElementOfSeq
<1>1. PICK F : /\ Recovered(s, d) = F[N] /\ F[0] = <<>>
               /\ \A i \in 1..N :
                      F[i] = IF Recoverable(s[i], d) THEN Append(F[i - 1], s[i]) ELSE F[i - 1]
  BY <1>0, RecoveredIs
<1> DEFINE Good(i) ==
             /\ F[i] \in Seq(S) /\ \A k \in 1..Len(F[i]) : Recoverable(F[i][k], d)
             /\ \A k \in 1..i : Recoverable(s[k], d) => \E m \in 1..Len(F[i]) : F[i][m] = s[k]
             /\ Whole => /\ i <= n => Len(F[i]) = i
                         /\ n <= i => n <= Len(F[i])
                         /\ \A k \in 1..n : k <= i => F[i][k] = s[k]
           Bad == {i \in 0..N : ~Good(i)}
<1>2. Good(0)
  <2>1. F[0] \in Seq(S) /\ Len(F[0]) = 0
    BY <1>1, EmptySeq
  <2> QED
    BY <1>0, <2>1
<1>3. ASSUME NEW i \in 1..N, Good(i - 1) PROVE Good(i)
  <2> DEFINE p == F[i - 1]
  <2>0. /\ i \in Nat /\ i > 0 /\ p \in Seq(S) /\ Len(p) \in Nat /\ s[i] \in S
    BY <1>0, <1>3, LenProperties
  <2>1. CASE Recoverable(s[i], d)
    <3>1. F[i] = Append(p, s[i])
      BY <1>1, <2>1
    <3>2. /\ F[i] \in Seq(S) /\ Len(F[i]) = Len(p) + 1 /\ F[i][Len(p) + 1] = s[i]
          /\ \A k \in 1..Len(p) : F[i][k] = p[k]
      BY <2>0, <3>1, AppendProperties
    <3>3. ASSUME NEW k \in 1..Len(F[i]) PROVE Recoverable(F[i][k], d)
      <4>1. k \in 1..Len(p) \/ k = Len(p) + 1
        BY <2>0, <3>2
      <4> QED
        BY <1>3, <2>1, <3>2, <4>1
    <3>4. ASSUME NEW k \in 1..i, Recoverable(s[k], d)
          PROVE  \E m \in 1..Len(F[i]) : F[i][m] = s[k]
      <4>1. CASE k = i
        BY <2>0, <3>2, <4>1
      <4>2. CASE k # i
        <5>1. k \in 1..i - 1
          BY <2>0, <4>2
        <5>2. PICK m \in 1..Len(p) : p[m] = s[k]
          BY <1>3, <3>4, <5>1
        <5>3. m \in 1..Len(F[i])
          BY <2>0, <3>2
        <5> QED
          BY <3>2, <5>2, <5>3
      <4> QED
        BY <4>1, <4>2
    <3>5. ASSUME Whole
          PROVE  /\ i <= n => Len(F[i]) = i
                 /\ n <= i => n <= Len(F[i])
                 /\ \A k \in 1..n : k <= i => F[i][k] = s[k]
      <4>1. i <= n => Len(p) = i - 1
        BY <1>0, <1>3, <2>0, <3>5
      <4>2. n <= i - 1 => n <= Len(p)
        BY <1>3, <3>5
      <4>3. n <= i => n <= Len(F[i])
        <5>1. CASE n <= i - 1
          BY <1>0, <2>0, <3>2, <4>2, <5>1
        <5>2. CASE n = i
          BY <2>0, <3>2, <4>1, <5>2
        <5> QED
          BY <1>0, <2>0, <5>1, <5>2
      <4>4. ASSUME NEW k \in 1..n, k <= i PROVE F[i][k] = s[k]
        <5>1. CASE k = i
          BY <1>0, <2>0, <3>2, <4>1, <4>4, <5>1
        <5>2. CASE k # i
          <6>1. k <= i - 1 /\ k \in Nat /\ k > 0
            BY <1>0, <2>0, <4>4, <5>2
          <6>2. p[k] = s[k]
            BY <1>3, <3>5, <6>1
          <6>3. k <= Len(p)
            <7>1. CASE i <= n
              BY <2>0, <4>1, <6>1, <7>1
            <7>2. CASE ~(i <= n)
              BY <1>0, <2>0, <4>2, <6>1, <7>2
            <7> QED
              BY <7>1, <7>2
          <6> QED
            BY <2>0, <3>2, <6>1, <6>2, <6>3
        <5> QED
          BY <5>1, <5>2
      <4>5. i <= n => Len(F[i]) = i
        BY <2>0, <3>2, <4>1
      <4> QED
        BY <4>3, <4>4, <4>5
    <3> QED
      BY <3>2, <3>3, <3>4, <3>5
  <2>2. CASE ~Recoverable(s[i], d)
    <3>1. F[i] = p
      BY <1>1, <2>2
    <3>2. ASSUME NEW k \in 1..i, Recoverable(s[k], d) PROVE k \in 1..i - 1
      BY <2>0, <2>2, <3>2
    <3>3. Whole => ~(i <= n)
      BY <1>0, <2>0, <2>2
    <3>4. ASSUME Whole
          PROVE  n <= Len(F[i]) /\ \A k \in 1..n : F[i][k] = s[k]
      <4>1. n <= i - 1 /\ \A k \in 1..n : k <= i - 1
        BY <1>0, <2>0, <3>3, <3>4
      <4> QED
        BY <1>3, <3>1, <3>4, <4>1
    <3> HIDE DEF Whole
    <3> QED
      BY <1>3, <3>1, <3>2, <3>3, <3>4
  <2> QED
    BY <2>1, <2>2
<1>4. Bad = {}
  <2>1. SUFFICES ASSUME Bad # {} PROVE FALSE
    OBVIOUS
  <2>2. PICK i \in Bad : \A m \in Bad : i <= m
    <3>1. Bad \in SUBSET Nat
      <4> HIDE DEF Good
      <4> QED
        OBVIOUS
    <3> HIDE DEF Bad
    <3> QED
      BY <2>1, <3>1, LeastNat
  <2> HIDE DEF Good
  <2>3. i \in 0..N /\ ~Good(i)
    BY <2>2
  <2>4. i # 0
    BY <1>2, <2>3
  <2>5. i \in 1..N /\ i - 1 \in 0..N /\ ~(i <= i - 1)
    BY <1>0, <2>3, <2>4
  <2>6. i - 1 \notin Bad
    <3> HIDE DEF Bad
    <3> QED
      BY <2>2, <2>5
  <2> QED
    BY <1>3, <2>3, <2>5, <2>6
<1>5. Good(N)
  <2> HIDE DEF Good
  <2>1. N \in 0..N
    BY <1>0
  <2> QED
    BY <1>4, <2>1
<1>6. DOMAIN F[N] = 1..Len(F[N])
  BY <1>5, LenProperties
<1>7. Whole => n <= Len(F[N]) /\ \A k \in 1..n : F[N][k] = s[k]
  BY <1>0, <1>5
<1>8. F[N] \in Seq(S) /\ \A k \in DOMAIN F[N] : Recoverable(F[N][k], d)
  BY <1>5, <1>6
<1>9. \A k \in DOMAIN s : Recoverable(s[k], d) => \E m \in DOMAIN F[N] : F[N][m] = s[k]
  BY <1>0, <1>5, <1>6
<1>10. Recovered(s, d) = F[N]
  BY <1>1
<1> QED
  BY <1>7, <1>8, <1>9, <1>10

-----------------------------------------------------------------------------
(* The start. *)

\* What else Init needs to know of the disk.
StartOK(d) ==
    /\ DOMAIN d = DOMAIN NewDisk /\ DOMAIN d.manifest = DOMAIN NewDisk.manifest
    /\ d.manifest.nextFile \in Nat /\ d.manifest.nextFile > 0
    /\ d.manifest.flushed \in Nat /\ d.manifest.log <= d.manifest.flushed
    /\ d.manifest.lastSeq \in Nat
    /\ \A n \in DOMAIN d.logs : d.logs[n] = EmptyLog

\* An earlier session leaves it so, with a manifest that passes over log 0.
LEMMA FlushedStart ==
    ASSUME NEW d, StartOK(d), NEW ops, Len(ops) \in Nat
    PROVE  StartOK(Flushed(d, ops)) /\ Flushed(d, ops).manifest.flushed > 0
<1> DEFINE m == d.manifest
           E == InsertInto(ops, m.lastSeq + 1)
           f == Meta(m.nextFile + 1, E)
           level == PickLevelForMemTableOutput(m.version, f.smallest.key, f.largest.key)
           e == Flushed(d, ops)
<1>1. e = [tables |-> With(d.tables, f.num, E), logs |-> With(<<>>, m.nextFile, EmptyLog),
         manifest |-> [m EXCEPT !.version[level] = @ \cup {f}, !.log = m.nextFile,
                          !.flushed = m.nextFile, !.nextFile = @ + 2, !.lastSeq = @ + Len(ops)]]
  BY DEF Flushed
<1>2. /\ DOMAIN m = {"version", "log", "flushed", "nextFile", "lastSeq", "pointers"}
      /\ m.nextFile \in Nat /\ m.nextFile > 0 /\ m.lastSeq \in Nat
  BY DEF StartOK, NewDisk
<1> HIDE DEF m, E, f, level, e
<1>3. /\ DOMAIN e = {"tables", "logs", "manifest"} /\ DOMAIN e.manifest = DOMAIN m
      /\ e.logs = With(<<>>, m.nextFile, EmptyLog)
  BY <1>1
<1>4. /\ e.manifest.log = m.nextFile /\ e.manifest.flushed = m.nextFile
      /\ e.manifest.nextFile = m.nextFile + 2 /\ e.manifest.lastSeq = m.lastSeq + Len(ops)
  BY <1>1, <1>2
<1>5. \A n \in DOMAIN e.logs : e.logs[n] = EmptyLog
  BY <1>3 DEF With, Overlay
<1>6. DOMAIN e = DOMAIN NewDisk /\ DOMAIN e.manifest = DOMAIN NewDisk.manifest
  BY <1>2, <1>3 DEF NewDisk
<1>7. StartOK(e) /\ e.manifest.flushed > 0
  BY <1>2, <1>4, <1>5, <1>6 DEF StartOK
<1> QED
  BY <1>7 DEF e

\* So do all of them.
LEMMA LeftByStart ==
    /\ StartOK(LeftBy[Len(Earlier)])
    /\ Len(Earlier) # 0 => LeftBy[Len(Earlier)].manifest.flushed > 0
<1> DEFINE N == Len(Earlier)
           Good(i) == StartOK(LeftBy[i]) /\ (i # 0 => LeftBy[i].manifest.flushed > 0)
           Bad == {i \in 0..N : ~Good(i)}
<1>1. N \in Nat /\ \A i \in 1..N : Len(Earlier[i]) \in Nat
  BY LevelDBAssumption
<1> HIDE DEF N
<1>2. Bad = {}
  <2>1. SUFFICES ASSUME Bad # {} PROVE FALSE
    OBVIOUS
  <2>2. Bad \in SUBSET Nat
    <3> HIDE DEF Good
    <3> QED
      BY <1>1
  <2>3. PICK n \in Bad : \A i \in Bad : n <= i
    BY <2>1, <2>2, LeastNat
  <2>4. n \in 0..N /\ ~Good(n)
    BY <2>3
  <2>5. LeftBy[n] = IF n = 0 THEN NewDisk ELSE Flushed(LeftBy[n - 1], Earlier[n])
    BY <2>4, LeftByIs DEF N
  <2>6. n # 0
    <3>1. StartOK(NewDisk)
      BY DEF StartOK, NewDisk
    <3> QED
      BY <2>4, <2>5, <3>1
  <2>7. n \in Nat /\ n \in 1..N /\ n - 1 \in 0..N /\ ~(n <= n - 1)
    BY <2>4, <2>6, <1>1
  <2>8. n - 1 \notin Bad
    <3> HIDE DEF Bad
    <3> QED
      BY <2>3, <2>7
  <2>9. StartOK(LeftBy[n - 1])
    BY <2>7, <2>8
  <2> QED
    BY <1>1, <2>4, <2>5, <2>6, <2>7, <2>9, FlushedStart
<1>3. Good(N)
  <2> HIDE DEF Good
  <2> QED
    BY <1>1, <1>2
<1> QED
  BY <1>3 DEF N

\* The part of the invariant that is about what a crash finds.
KeepsHistory == QueueOK /\ LogsOK /\ LogNumbersUsed /\ PassedOver /\ GroupIsLogged /\ HistoryIsKept

\* Before the first step the earlier batches are all in tables.
LEMMA CrashInit == Init => KeepsHistory
<1> SUFFICES ASSUME Init PROVE KeepsHistory
  OBVIOUS
<1>1. /\ disk = LeftBy[Len(Earlier)] /\ db = Closed /\ queue = <<>> /\ group = NoGroup
      /\ bg = BgIdle /\ writer = [w \in Writers |-> Idle] /\ events = 0
      /\ history = [i \in DOMAIN Earlier |->
                     [ops |-> Earlier[i], sync |-> TRUE, seq |-> 0, log |-> 0]]
  BY DEF Init
<1>2. StartOK(disk) /\ (Len(Earlier) # 0 => disk.manifest.flushed > 0)
  BY <1>1, LeftByStart
<1>3. QueueOK
  BY <1>1 DEF QueueOK, Idle
<1>4. /\ db.lastSeq = 0 /\ bg.edit.lastSeq = 0 /\ db.up = "closed"
      /\ db.replay.logs = {} /\ db.replay.pos = 0
  BY <1>1 DEF Closed, BgIdle, NoEdit, NoReplay
<1>5. LogsOK
  <2>1. /\ EmptyLog \in [records : Seq(LogRecords), synced : Nat]
        /\ EmptyLog.synced <= Len(EmptyLog.records)
    BY DEF EmptyLog
  <2> QED
    BY <1>1, <1>2, <1>4, <2>1 DEF LogsOK, StartOK
<1>6. LogNumbersUsed
  BY <1>4 DEF LogNumbersUsed
<1>7. PassedOver
  BY <1>2, <1>4 DEF PassedOver, StartOK
<1>8. GroupIsLogged
  BY <1>1 DEF GroupIsLogged, NoGroup, Idle, Busy
<1>9. HistoryIsKept
  <2>1. Len(Earlier) \in Nat /\ DOMAIN Earlier = 1..Len(Earlier)
        /\ \A i \in 1..Len(Earlier) : Earlier[i] \in Seq(Operations)
    <3>1. Earlier \in Seq(Seq(Operations) \ {<<>>})
      BY LevelDBAssumption DEF Operations
    <3> QED
      BY <3>1, LenProperties, ElementOfSeq
  <2>2. \A i \in 1..Len(Earlier) : history[i] \in HistoryBatches /\ history[i].log = 0
    BY <1>1, <2>1 DEF HistoryBatches
  <2>3. history \in Seq(HistoryBatches)
    BY <1>1, <2>1, <2>2
  <2>4. \A i \in DOMAIN history : history[i].log < disk.manifest.flushed
    BY <1>1, <1>2, <2>1, <2>2
  <2> QED
    BY <2>3, <2>4 DEF HistoryIsKept, OnDiskStill
<1> QED
  BY <1>3, <1>5, <1>6, <1>7, <1>8, <1>9 DEF KeepsHistory

-----------------------------------------------------------------------------
(* The queue of writers. *)

\* Waking changes no batch.
LEMMA WokenKeeps ==
    ASSUME Shape
    PROVE  \A w \in Writers : /\ Wake(writer)[w].ops = writer[w].ops
                              /\ Wake(writer)[w].sync = writer[w].sync
BY Fields DEF Wake, Shape

\* The queue stays right while nobody joins or leaves it and those behind the first wait.
LEMMA QueueKept ==
    ASSUME QueueOK, queue \in Seq(Writers), UNCHANGED queue,
           \A w \in Writers :
               /\ writer'[w].ops = writer[w].ops /\ writer'[w].sync = writer[w].sync
               /\ writer'[w].pc = "idle" <=> writer[w].pc = "idle"
               /\ writer[w].pc = "queued" /\ ~(queue # <<>> /\ Head(queue) = w)
                      => writer'[w].pc = "queued"
    PROVE  QueueOK'
<1>1. \A i \in DOMAIN queue : queue[i] \in Writers /\ i \in Nat /\ i > 0
  BY LenProperties, ElementOfSeq
<1>2. ASSUME NEW i \in DOMAIN queue, i > 1 PROVE writer'[queue[i]].pc = "queued"
  <2>1. queue # <<>> /\ Head(queue) = queue[1] /\ 1 \in DOMAIN queue
    BY <1>2, EmptySeq, HeadTailProperties, LenProperties
  <2>2. queue[i] # Head(queue)
    BY <1>2, <2>1 DEF QueueOK
  <2> QED
    BY <1>1, <1>2, <2>2 DEF QueueOK
<1>3. \A w \in Writers : writer'[w].pc # "idle" <=> \E i \in DOMAIN queue : queue[i] = w
  BY DEF QueueOK
<1> QED
  BY <1>1, <1>2, <1>3 DEF QueueOK

\* So does it when the first n leave it and return.
LEMMA QueueLeft ==
    ASSUME QueueOK, queue \in Seq(Writers), NEW n \in Nat,
           queue' = SubSeq(queue, n + 1, Len(queue)),
           \A v \in Writers : writer'[v] = IF \E i \in 1..n : queue[i] = v THEN Idle ELSE writer[v]
    PROVE  QueueOK'
<1> DEFINE m == Len(queue)
<1>1. m \in Nat /\ DOMAIN queue = 1..m /\ \A i \in 1..m : queue[i] \in Writers
  BY LenProperties, ElementOfSeq
<1>2. PICK q : q = queue'
  OBVIOUS
<1> HIDE DEF m
<1>3. q = [i \in 1..m - n |-> queue[n + i]]
  BY <1>1, <1>2 DEF m
<1>4. DOMAIN q = 1..m - n /\ \A i \in 1..m - n : n + i \in 1..m /\ n + i > n /\ q[i] = queue[n + i]
  BY <1>1, <1>3
<1>5. ASSUME NEW i \in 1..m - n PROVE writer'[q[i]] = writer[q[i]]
  <2>1. \A j \in 1..n : j \in 1..m /\ j # n + i
    BY <1>1, <1>4
  <2>2. n + i \in DOMAIN queue /\ q[i] = queue[n + i] /\ queue[n + i] \in Writers
    BY <1>1, <1>4
  <2>3. \A j \in 1..n : j \in DOMAIN queue /\ j # n + i
    BY <1>1, <2>1
  <2> DEFINE k == n + i
  <2> HIDE DEF k
  <2>4. k \in DOMAIN queue /\ \A j \in 1..n : j \in DOMAIN queue /\ j # k
    BY <2>2, <2>3 DEF k
  <2>5. \A j \in 1..n : queue[j] # queue[k]
    BY <2>4 DEF QueueOK
  <2>6. q[i] = queue[k] /\ queue[k] \in Writers
    BY <2>2 DEF k
  <2> QED
    BY <2>5, <2>6
<1>6. ASSUME NEW v \in Writers PROVE writer'[v].pc # "idle" <=> \E i \in DOMAIN q : q[i] = v
  <2>1. CASE \E i \in 1..m - n : q[i] = v
    <3>1. PICK i \in 1..m - n : q[i] = v
      BY <2>1
    <3>2. writer[v].pc # "idle"
      BY <1>1, <1>4, <3>1 DEF QueueOK
    <3> QED
      BY <1>4, <1>5, <2>1, <3>1, <3>2
  <2>2. CASE ~\E i \in 1..m - n : q[i] = v
    <3>1. CASE \E i \in 1..n : queue[i] = v
      BY <1>4, <2>2, <3>1 DEF Idle
    <3>2. CASE ~\E i \in 1..n : queue[i] = v
      <4>1. ASSUME NEW j \in 1..m, queue[j] = v PROVE FALSE
        <5>1. j \in Nat /\ ~(j <= n)
          BY <1>1, <3>2, <4>1
        <5>2. j - n \in 1..m - n /\ n + (j - n) = j
          BY <1>1, <5>1
        <5> QED
          BY <1>4, <2>2, <4>1, <5>2
      <4>2. writer[v].pc = "idle"
        BY <1>1, <4>1 DEF QueueOK
      <4> QED
        BY <1>4, <2>2, <3>2, <4>2
    <3> QED
      BY <3>1, <3>2
  <2> QED
    BY <2>1, <2>2
<1>7. \A i, j \in DOMAIN q : q[i] = q[j] => i = j
  <2> SUFFICES ASSUME NEW i \in 1..m - n, NEW j \in 1..m - n, q[i] = q[j] PROVE i = j
    BY <1>4
  <2>1. n + i \in DOMAIN queue /\ n + j \in DOMAIN queue /\ queue[n + i] = queue[n + j]
    BY <1>1, <1>4
  <2> DEFINE k == n + i
             l == n + j
  <2>2. k = l
    <3> HIDE DEF k, l
    <3>1. k \in DOMAIN queue /\ l \in DOMAIN queue /\ queue[k] = queue[l]
      BY <2>1 DEF k, l
    <3> QED
      BY <3>1 DEF QueueOK
  <2> QED
    BY <2>2
<1>8. \A i \in DOMAIN q : /\ i > 1 => writer'[q[i]].pc = "queued"
                          /\ writer'[q[i]].sync \in BOOLEAN
                          /\ writer'[q[i]].ops \in Seq(Operations) \ {<<>>}
  <2> SUFFICES ASSUME NEW i \in 1..m - n
               PROVE  /\ i > 1 => writer'[q[i]].pc = "queued"
                      /\ writer'[q[i]].sync \in BOOLEAN
                      /\ writer'[q[i]].ops \in Seq(Operations) \ {<<>>}
    BY <1>4
  <2>1. n + i \in DOMAIN queue /\ (i > 1 => n + i > 1) /\ writer'[q[i]] = writer[queue[n + i]]
    BY <1>1, <1>4, <1>5
  <2> QED
    BY <2>1 DEF QueueOK
<1> QED
  BY <1>2, <1>6, <1>7, <1>8 DEF QueueOK

\* A batch that a writer brings is of operations.
LEMMA BatchIsOperations ==
    ASSUME NEW b \in Batches, NEW n \in Nat
    PROVE  /\ b.sync \in BOOLEAN
           /\ [i \in DOMAIN b.ops |-> [key |-> b.ops[i].key,
                  val |-> IF b.ops[i].put THEN n ELSE Deletion]] \in Seq(Operations) \ {<<>>}
<1> DEFINE o == b.ops
           s == [i \in DOMAIN o |-> [key |-> o[i].key, val |-> IF o[i].put THEN n ELSE Deletion]]
<1>1. o \in Seq([key : Keys, put : BOOLEAN]) /\ o # <<>> /\ b.sync \in BOOLEAN
  BY LevelDBAssumption
<1> HIDE DEF o
<1>2. Len(o) \in Nat /\ Len(o) # 0 /\ DOMAIN o = 1..Len(o)
      /\ \A i \in 1..Len(o) : o[i] \in [key : Keys, put : BOOLEAN]
  BY <1>1, EmptySeq, LenProperties, ElementOfSeq
<1>3. \A i \in 1..Len(o) : s[i] \in Operations
  BY <1>2 DEF Operations, Deletion
<1>4. s \in Seq(Operations)
  <2>1. s = [i \in 1..Len(o) |-> s[i]]
    BY <1>2
  <2> HIDE DEF s
  <2> QED
    BY <1>2, <1>3, <2>1
<1>5. s # <<>>
  <2>1. 1 \in DOMAIN s
    BY <1>2
  <2> HIDE DEF s
  <2> QED
    BY <2>1
<1> QED
  BY <1>1, <1>4, <1>5 DEF o

\* The steps of the writers keep the queue right.
LEMMA QueueWriter ==
    ASSUME Shape, FirstIsBusy, QueueOK, events \in Nat,
           NEW w \in Writers, WriterStep(w) \/ \E b \in Batches : Write(w, b)
    PROVE  QueueOK'
<1>0. /\ queue \in Seq(Writers) /\ DOMAIN writer = Writers
      /\ \A v \in Writers : DOMAIN writer[v] = {"pc", "ops", "sync"}
  BY Fields DEF Shape, FirstIsBusy
<1>1. ASSUME NEW b \in Batches, Write(w, b) PROVE QueueOK'
  <2>1. events' = events + 1 /\ events' \in Nat
    BY <1>1 DEF Write, Event
  <2> DEFINE ops == [i \in DOMAIN b.ops |-> [key |-> b.ops[i].key,
                        val |-> IF b.ops[i].put THEN events' ELSE Deletion]]
  <2>2. /\ writer[w].pc = "idle" /\ queue' = Append(queue, w)
        /\ writer' = [writer EXCEPT ![w] = [pc |-> "queued", sync |-> b.sync, ops |-> ops]]
    BY <1>1 DEF Write
  <2>3. b.sync \in BOOLEAN /\ ops \in Seq(Operations) \ {<<>>}
    BY <2>1, BatchIsOperations
  <2> HIDE DEF ops
  <2>4. /\ writer'[w].pc = "queued" /\ writer'[w].sync = b.sync /\ writer'[w].ops = ops
        /\ \A v \in Writers \ {w} : writer'[v] = writer[v]
    BY <1>0, <2>2
  <2> DEFINE m == Len(queue)
  <2>5. /\ m \in Nat /\ DOMAIN queue = 1..m /\ DOMAIN queue' = 1..m + 1
        /\ queue'[m + 1] = w /\ \A i \in 1..m : queue'[i] = queue[i] /\ queue[i] \in Writers
    BY <1>0, <2>2, AppendProperties, LenProperties, ElementOfSeq
  <2> HIDE DEF m
  <2>6. \A i \in 1..m + 1 : i \in 1..m \/ i = m + 1
    BY <2>5
  <2>7. \A i \in 1..m : i \in 1..m + 1 /\ queue[i] # w
    BY <2>2, <2>5 DEF QueueOK
  <2>8. m + 1 \in 1..m + 1 /\ m + 1 \notin 1..m
    BY <2>5
  <2>9. \A v \in Writers : writer'[v].pc # "idle" <=> \E i \in 1..m + 1 : queue'[i] = v
    <3>1. writer'[w].pc # "idle" <=> \E i \in 1..m + 1 : queue'[i] = w
      BY <2>4, <2>5, <2>8
    <3>2. ASSUME NEW v \in Writers \ {w}
          PROVE  writer'[v].pc # "idle" <=> \E i \in 1..m + 1 : queue'[i] = v
      <4>1. writer[v].pc # "idle" <=> \E i \in 1..m : queue[i] = v
        BY <2>5 DEF QueueOK
      <4>2. (\E i \in 1..m + 1 : queue'[i] = v) <=> \E i \in 1..m : queue[i] = v
        BY <2>5, <2>6, <2>7
      <4> QED
        BY <2>4, <4>1, <4>2
    <3> QED
      BY <3>1, <3>2
  <2>10. \A i, j \in 1..m + 1 : queue'[i] = queue'[j] => i = j
    BY <2>5, <2>6, <2>7 DEF QueueOK
  <2>11. \A i \in 1..m + 1 : /\ i > 1 => writer'[queue'[i]].pc = "queued"
                             /\ writer'[queue'[i]].sync \in BOOLEAN
                             /\ writer'[queue'[i]].ops \in Seq(Operations) \ {<<>>}
    <3>1. \A i \in 1..m : writer'[queue'[i]] = writer[queue[i]]
      BY <2>4, <2>5, <2>7
    <3> QED
      BY <2>3, <2>4, <2>5, <2>6, <3>1 DEF QueueOK
  <2> QED
    BY <2>5, <2>9, <2>10, <2>11 DEF QueueOK
<1>2. ASSUME AtFront(w, writer[w].pc), UNCHANGED queue, writer[w].pc # "idle",
             NEW pc, pc # "idle", writer' = [writer EXCEPT ![w].pc = pc]
      PROVE  QueueOK'
  <2>1. queue # <<>> /\ Head(queue) = w
    BY <1>2 DEF AtFront
  <2>2. /\ writer'[w].pc = pc /\ writer'[w].ops = writer[w].ops /\ writer'[w].sync = writer[w].sync
        /\ \A v \in Writers \ {w} : writer'[v] = writer[v]
    BY <1>0, <1>2
  <2> QED
    BY <1>0, <1>2, <2>1, <2>2, QueueKept
<1>3. CASE WaitForRoom(w)
  BY <1>2, <1>3 DEF WaitForRoom, AtFront
<1>4. CASE NoRoom(w)
  <2>1. queue # <<>> /\ Head(queue) = w /\ queue' = Tail(queue) /\ writer' = [writer EXCEPT ![w] = Idle]
    BY <1>4 DEF NoRoom, AtFront
  <2>2. queue[1] = w /\ Tail(queue) = SubSeq(queue, 1 + 1, Len(queue))
    BY <1>0, <2>1, HeadTailProperties DEF Tail
  <2>3. \A v \in Writers : writer'[v] = IF \E i \in 1..1 : queue[i] = v THEN Idle ELSE writer[v]
    BY <1>0, <2>1, <2>2
  <2> QED
    BY <1>0, <2>1, <2>2, <2>3, QueueLeft
<1>5. CASE BeginWrite(w)
  BY <1>2, <1>5 DEF BeginWrite, AtFront
<1>6. CASE AppendToLog(w)
  BY <1>2, <1>6 DEF AppendToLog, AtFront
<1>7. CASE Sync(w)
  BY <1>2, <1>7 DEF Sync, AtFront
<1>8. CASE SyncFails(w)
  BY <1>2, <1>8 DEF SyncFails, AtFront
<1>9. CASE InsertIntoMemTable(w)
  BY <1>2, <1>9 DEF InsertIntoMemTable, AtFront
<1>10. CASE Publish(w)
  <2> DEFINE n == Len(group.batches)
  <2>1. /\ queue # <<>> /\ Head(queue) = w /\ writer[w].pc = "publish"
        /\ writer' = [v \in Writers |-> IF \E i \in 1..n : queue[i] = v THEN Idle ELSE writer[v]]
        /\ queue' = SubSeq(queue, n + 1, Len(queue))
    BY <1>10 DEF Publish, AtFront
  <2>2. n \in Nat
    BY <2>1 DEF FirstIsBusy, Busy
  <2> HIDE DEF n
  <2>3. \A v \in Writers : writer'[v] = IF \E i \in 1..n : queue[i] = v THEN Idle ELSE writer[v]
    BY <2>1
  <2> QED
    BY <1>0, <2>1, <2>2, <2>3, QueueLeft
<1> QED
  BY <1>1, <1>3, <1>4, <1>5, <1>6, <1>7, <1>8, <1>9, <1>10 DEF WriterStep

-----------------------------------------------------------------------------
(* What the background thread and the writers do to the logs. *)

\* After Resume no edit is on its way.
LEMMA ResumeEdit ==
    ASSUME Shape, NEW d, Resume(d) \/ EndBackground(d)
    PROVE  bg'.edit = NoEdit
<1>1. BgIdle.edit = NoEdit
  BY DEF BgIdle
<1>2. CASE EndBackground(d)
  BY <1>1, <1>2 DEF EndBackground
<1>3. CASE ~EndBackground(d)
  <2>1. bg' = [bg EXCEPT !.pc = "merge", !.num = 0, !.edit = NoEdit]
    BY <1>3 DEF Resume
  <2> QED
    BY <2>1, Fields DEF Shape
<1> QED
  BY <1>2, <1>3

\* The disk with an edit in the manifest.
ToManifest(e) == [disk EXCEPT !.manifest = Logged(@, e)]
\* What a step of the background thread does to the manifest, the logs and the numbers.
BackgroundEffect ==
    /\ UNCHANGED history /\ events' \in {events, events + 1}
    /\ db'.lastSeq = db.lastSeq /\ db'.replay = db.replay
    /\ bg'.edit.lastSeq \in {0, bg.edit.lastSeq, db.lastSeq}
    /\ \/ /\ disk'.manifest = disk.manifest /\ disk'.logs = disk.logs
          /\ db'.logNumber = db.logNumber
       \/ /\ bg.pc = "log" /\ disk' = ToManifest(bg.edit)
          /\ db'.logNumber \in {db.logNumber, bg.edit.log}
       \/ /\ disk'.manifest = disk.manifest /\ disk'.logs = Restrict(disk.logs, LiveLogs)
          /\ db'.logNumber = db.logNumber

\* Every step of the background thread does no more than that.
LEMMA BackgroundDoes ==
    ASSUME Shape, NothingBeforeOpen, NamesFiles, KeepsLogs, Background
    PROVE  BackgroundEffect
<1>0. /\ DOMAIN db = DOMAIN Closed /\ DOMAIN disk = {"tables", "logs", "manifest"}
      /\ DOMAIN bg = DOMAIN BgIdle /\ NoEdit.lastSeq = 0
  BY Fields DEF Shape, NoEdit
<1>1. CASE BackgroundAfterError
  <2>1. EndBackground(db) /\ UNCHANGED <<disk, history, events>>
    BY <1>1 DEF BackgroundAfterError
  <2>2. db'.lastSeq = db.lastSeq /\ db'.replay = db.replay /\ db'.logNumber = db.logNumber
    BY <1>0, <2>1, AfterResume, Fields
  <2> QED
    BY <1>0, <2>1, <2>2, ResumeEdit DEF BackgroundEffect
<1>2. CASE BeginCompactMemTable
  <2>1. /\ UNCHANGED <<disk, history, events>>
        /\ bg' = [bg EXCEPT !.pc = "build", !.kind = "flush", !.num = db.nextFile]
        /\ db' = [db EXCEPT !.nextFile = @ + 1, !.pending = @ \cup {db.nextFile}]
    BY <1>2 DEF BeginCompactMemTable
  <2>2. /\ bg'.edit = bg.edit
        /\ db'.lastSeq = db.lastSeq /\ db'.replay = db.replay /\ db'.logNumber = db.logNumber
    BY <1>0, <2>1, Fields
  <2> QED
    BY <2>1, <2>2 DEF BackgroundEffect
<1>3. CASE BuildTable
  <2>1. /\ UNCHANGED <<history, events>> /\ db' = [db EXCEPT !.pending = @ \ {bg.num}]
        /\ \E added : bg' = [bg EXCEPT !.pc = "log", !.edit = FlushEdit(added)]
    BY <1>3 DEF BuildTable
  <2>2. PICK added : bg' = [bg EXCEPT !.pc = "log", !.edit = FlushEdit(added)]
    BY <2>1
  <2>3. bg'.edit = FlushEdit(added)
    BY <1>0, <2>2, Fields
  <2>4. bg'.edit.lastSeq = db.lastSeq
    BY <2>3 DEF FlushEdit, Edit
  <2>5. db'.lastSeq = db.lastSeq /\ db'.replay = db.replay /\ db'.logNumber = db.logNumber
    BY <1>0, <2>1, Fields
  <2>6. disk'.manifest = disk.manifest /\ disk'.logs = disk.logs
    <3>1. UNCHANGED disk \/ \E tables : disk' = [disk EXCEPT !.tables = tables]
      BY <1>3 DEF BuildTable
    <3> QED
      BY <1>0, <3>1
  <2> QED
    BY <2>1, <2>4, <2>5, <2>6 DEF BackgroundEffect
<1>4. CASE BeginCompaction
  <2>1. UNCHANGED <<disk, history, events>>
    BY <1>4, Zenon DEF BeginCompaction
  <2>2. PICK c, e, todo, pointers : Begins(c, e, todo, pointers)
    BY <1>4, CompactionBegun
  <2>3. db' = [db EXCEPT !.pointers = pointers]
    BY <2>2 DEF Begins
  <2>4. db'.lastSeq = db.lastSeq /\ db'.replay = db.replay /\ db'.logNumber = db.logNumber
    BY <1>0, <2>3, Fields
  <2>5. bg'.edit = bg.edit \/ (bg'.edit = e /\ e.lastSeq = db.lastSeq)
    <3>1. CASE bg' = [bg EXCEPT !.pc = "merge", !.c = c, !.todo = todo]
      BY <1>0, <3>1, Fields
    <3>2. ASSUME bg' = [bg EXCEPT !.pc = "log", !.kind = "move", !.edit = e], NEW f,
                 e = Edit({<<c.level + 1, f>>}, {<<c.level, f.num>>}, db.logNumber, Pointer(c))
          PROVE  bg'.edit = e /\ e.lastSeq = db.lastSeq
      <4>1. bg'.edit = e
        BY <1>0, <3>2, Fields
      <4>2. e.lastSeq = db.lastSeq
        BY <3>2 DEF Edit
      <4> QED
        BY <4>1, <4>2
    <3> QED
      BY <2>2, <3>1, <3>2 DEF Begins
  <2> QED
    BY <2>1, <2>4, <2>5 DEF BackgroundEffect
<1>5. CASE WriteOutput
  <2>1. /\ UNCHANGED <<history, events>>
        /\ disk' = [disk EXCEPT !.tables = With(@, db.nextFile, Head(bg.todo))]
        /\ bg' = [bg EXCEPT !.todo = Tail(@), !.made = Append(@, Meta(db.nextFile, Head(bg.todo)))]
        /\ db' = [db EXCEPT !.nextFile = db.nextFile + 1, !.pending = @ \cup {db.nextFile}]
    BY <1>5 DEF WriteOutput
  <2>2. /\ disk'.manifest = disk.manifest /\ disk'.logs = disk.logs /\ bg'.edit = bg.edit
        /\ db'.lastSeq = db.lastSeq /\ db'.replay = db.replay /\ db'.logNumber = db.logNumber
    BY <1>0, <2>1, Fields
  <2> QED
    BY <2>1, <2>2 DEF BackgroundEffect
<1>6. CASE EndMerge
  <2>1. /\ UNCHANGED <<disk, db, history, events>>
        /\ \E added, deleted : bg' = [bg EXCEPT !.pc = "log", !.kind = "merge",
               !.edit = Edit(added, deleted, db.logNumber, Pointer(bg.c))]
    BY <1>6 DEF EndMerge
  <2>2. PICK added, deleted : bg' = [bg EXCEPT !.pc = "log", !.kind = "merge",
               !.edit = Edit(added, deleted, db.logNumber, Pointer(bg.c))]
    BY <2>1
  <2>3. bg'.edit = Edit(added, deleted, db.logNumber, Pointer(bg.c))
    BY <1>0, <2>2, Fields
  <2>4. bg'.edit.lastSeq = db.lastSeq
    BY <2>3 DEF Edit
  <2> QED
    BY <2>1, <2>4 DEF BackgroundEffect
<1>7. CASE InstallVersion
  <2> DEFINE d == [db EXCEPT !.current = Apply(@, bg.edit), !.logNumber = bg.edit.log, !.seek = {}]
  <2>1. /\ UNCHANGED <<history, events>> /\ bg.pc = "log" /\ disk' = ToManifest(bg.edit)
        /\ \/ EndBackground(d)
           \/ db' = [d EXCEPT !.imm = {}] /\ bg' = [bg EXCEPT !.pc = "cleanup"]
           \/ db' = Unpend(d) /\ bg' = [BgIdle EXCEPT !.pc = "cleanup", !.kind = "merge"]
    BY <1>7 DEF InstallVersion, ToManifest
  <2>2. /\ DOMAIN d = DOMAIN Closed
        /\ d.lastSeq = db.lastSeq /\ d.replay = db.replay /\ d.logNumber = bg.edit.log
    BY <1>0, Fields
  <2> HIDE DEF d
  <2>3. /\ db'.lastSeq = db.lastSeq /\ db'.replay = db.replay /\ db'.logNumber = bg.edit.log
        /\ bg'.edit.lastSeq \in {0, bg.edit.lastSeq}
    <3>1. CASE EndBackground(d)
      BY <1>0, <2>2, <3>1, AfterResume, ResumeEdit, Fields
    <3>2. CASE db' = [d EXCEPT !.imm = {}] /\ bg' = [bg EXCEPT !.pc = "cleanup"]
      BY <1>0, <2>2, <3>2, Fields
    <3>3. CASE db' = Unpend(d) /\ bg' = [BgIdle EXCEPT !.pc = "cleanup", !.kind = "merge"]
      BY <1>0, <2>2, <3>3, Fields DEF Unpend, BgIdle
    <3> QED
      BY <2>1, <3>1, <3>2, <3>3
  <2> QED
    BY <2>1, <2>3 DEF BackgroundEffect
<1>8. CASE BackgroundError
  <2> DEFINE d == [db EXCEPT !.bgError = TRUE, !.pending = @ \ {bg.num}]
  <2>1. /\ UNCHANGED history /\ events' = events + 1
        /\ EndBackground(Unpend(d)) \/ Resume(d)
        /\ UNCHANGED disk \/ (bg.pc = "log" /\ disk' = ToManifest(bg.edit))
    BY <1>8 DEF BackgroundError, Event, ToManifest
  <2>2. /\ DOMAIN d = DOMAIN Closed
        /\ d.lastSeq = db.lastSeq /\ d.replay = db.replay /\ d.logNumber = db.logNumber
    BY <1>0, Fields
  <2> HIDE DEF d
  <2>3. /\ DOMAIN Unpend(d) = DOMAIN Closed /\ Unpend(d).lastSeq = db.lastSeq
        /\ Unpend(d).replay = db.replay /\ Unpend(d).logNumber = db.logNumber
    BY <2>2, Fields DEF Unpend
  <2>4. /\ db'.lastSeq = db.lastSeq /\ db'.replay = db.replay /\ db'.logNumber = db.logNumber
        /\ bg'.edit.lastSeq = 0
    BY <1>0, <2>1, <2>2, <2>3, AfterResume, ResumeEdit, Fields
  <2> QED
    BY <2>1, <2>4 DEF BackgroundEffect
<1>9. CASE DeleteObsoleteFiles
  <2>1. /\ Resume(db) /\ UNCHANGED <<history, events>>
        /\ disk' = IF db.bgError THEN disk ELSE WithoutObsolete(disk)
    BY <1>9 DEF DeleteObsoleteFiles
  <2>2. db'.lastSeq = db.lastSeq /\ db'.replay = db.replay /\ db'.logNumber = db.logNumber
    BY <1>0, <2>1, AfterResume, Fields
  <2>3. CASE db.bgError
    BY <1>0, <2>1, <2>2, <2>3, ResumeEdit DEF BackgroundEffect
  <2>4. CASE ~db.bgError
    <3>1. disk'.manifest = disk.manifest /\ disk'.logs = Restrict(disk.logs, LiveLogs)
      BY <1>0, <2>1, <2>4 DEF WithoutObsolete
    <3> QED
      BY <1>0, <2>1, <2>2, <3>1, ResumeEdit DEF BackgroundEffect
  <2> QED
    BY <2>3, <2>4
<1> QED
  BY <1>1, <1>2, <1>3, <1>4, <1>5, <1>6, <1>7, <1>8, <1>9 DEF Background

\* The logs once the group is appended.
Appended == [disk.logs EXCEPT ![group.log].records = Append(@, GroupRecord)]
\* And once it is synced.
SyncedNow == [disk.logs EXCEPT ![group.log].synced = Len(disk.logs[group.log].records)]
\* What a step of a writer does to the manifest, the logs and the numbers.
WriterEffect(w) ==
    /\ UNCHANGED bg /\ events' \in {events, events + 1} /\ disk'.manifest = disk.manifest
    /\ db'.up = db.up /\ db'.replay = db.replay /\ db'.logNumber = db.logNumber
    /\ \/ disk'.logs = disk.logs /\ db'.nextFile = db.nextFile
       \/ /\ disk'.logs = With(disk.logs, db.nextFile, EmptyLog)
          /\ db.up = "open" /\ db'.nextFile = db.nextFile + 1
       \/ Busy(w) /\ disk'.logs \in {Appended, SyncedNow} /\ db'.nextFile = db.nextFile
    /\ \/ db'.lastSeq = db.lastSeq
       \/ Busy(w) /\ db'.lastSeq = db.lastSeq + Len(GroupOps)

\* Every step of a writer does no more than that.
LEMMA WriterDoes ==
    ASSUME Shape, NEW w \in Writers, WriterStep(w) \/ \E b \in Batches : Write(w, b)
    PROVE  WriterEffect(w)
<1>0. DOMAIN db = DOMAIN Closed /\ DOMAIN disk = {"tables", "logs", "manifest"}
  BY Fields DEF Shape
<1>1. ASSUME NEW b \in Batches, Write(w, b) PROVE WriterEffect(w)
  BY <1>1 DEF Write, Event, WriterEffect
<1>2. CASE WaitForRoom(w)
  BY <1>2 DEF WaitForRoom, WriterEffect
<1>3. CASE NoRoom(w)
  BY <1>3 DEF NoRoom, Event, WriterEffect
<1>4. CASE BeginWrite(w)
  <2>1. /\ db.up = "open" /\ UNCHANGED <<bg, events>>
        /\ db' = IF HasRoom THEN db ELSE SwitchMemTable(db)
        /\ disk' = [disk EXCEPT !.logs = IF HasRoom THEN @ ELSE With(@, db'.log, EmptyLog)]
    BY <1>4 DEF BeginWrite, Open
  <2>2. CASE HasRoom
    BY <1>0, <2>1, <2>2 DEF WriterEffect
  <2>3. CASE ~HasRoom
    <3> DEFINE d == [db EXCEPT !.nextFile = @ + 1, !.log = db.nextFile, !.imm = {db.log},
                               !.memtables = With(@, db.nextFile, {})]
    <3>1. /\ DOMAIN d = DOMAIN Closed /\ d.up = db.up /\ d.log = db.nextFile
          /\ d.nextFile = db.nextFile + 1 /\ d.logNumber = db.logNumber
          /\ d.replay = db.replay /\ d.lastSeq = db.lastSeq
      BY <1>0, Fields
    <3>2. db' = MaybeSchedule(d)
      BY <2>1, <2>3 DEF SwitchMemTable
    <3> HIDE DEF d
    <3>3. /\ db'.up = db.up /\ db'.log = db.nextFile /\ db'.nextFile = db.nextFile + 1
          /\ db'.logNumber = db.logNumber /\ db'.replay = db.replay /\ db'.lastSeq = db.lastSeq
      BY <3>1, <3>2, MaybeScheduleShape, Fields
    <3>4. disk'.manifest = disk.manifest /\ disk'.logs = With(disk.logs, db.nextFile, EmptyLog)
      BY <1>0, <2>1, <2>3, <3>3
    <3> QED
      BY <2>1, <3>3, <3>4 DEF WriterEffect
  <2> QED
    BY <2>2, <2>3
<1>5. CASE AppendToLog(w)
  <2>1. /\ UNCHANGED <<db, bg, events>> /\ writer[w].pc = "append"
        /\ disk' = [disk EXCEPT !.logs[group.log].records = Append(@, GroupRecord)]
    BY <1>5 DEF AppendToLog, AtFront, GroupRecord
  <2>2. disk'.manifest = disk.manifest /\ disk'.logs = Appended
    BY <1>0, <2>1 DEF Appended
  <2> QED
    BY <2>1, <2>2 DEF WriterEffect, Busy
<1>6. CASE Sync(w)
  <2>1. /\ UNCHANGED <<db, bg, events>> /\ writer[w].pc = "sync"
        /\ disk' = [disk EXCEPT !.logs[group.log].synced = Len(disk.logs[group.log].records)]
    BY <1>6 DEF Sync, AtFront
  <2>2. disk'.manifest = disk.manifest /\ disk'.logs = SyncedNow
    BY <1>0, <2>1 DEF SyncedNow
  <2> QED
    BY <2>1, <2>2 DEF WriterEffect, Busy
<1>7. CASE SyncFails(w)
  BY <1>7 DEF SyncFails, Event, WriterEffect
<1>8. CASE InsertIntoMemTable(w)
  <2>1. /\ UNCHANGED <<disk, bg, events>>
        /\ db' = [db EXCEPT !.memtables[group.log] = @ \cup InsertInto(GroupOps, group.seq)]
    BY <1>8 DEF InsertIntoMemTable
  <2>2. /\ db'.up = db.up /\ db'.replay = db.replay /\ db'.logNumber = db.logNumber
        /\ db'.nextFile = db.nextFile /\ db'.lastSeq = db.lastSeq
    BY <1>0, <2>1, Fields
  <2> QED
    BY <2>1, <2>2 DEF WriterEffect
<1>9. CASE Publish(w)
  <2>1. /\ UNCHANGED <<disk, bg, events>> /\ writer[w].pc = "publish"
        /\ db' = [db EXCEPT !.lastSeq = @ + Len(GroupOps), !.bgError = @ \/ group.failed]
    BY <1>9 DEF Publish, AtFront
  <2>2. /\ db'.up = db.up /\ db'.replay = db.replay /\ db'.logNumber = db.logNumber
        /\ db'.nextFile = db.nextFile /\ db'.lastSeq = db.lastSeq + Len(GroupOps)
    BY <1>0, <2>1, Fields
  <2> QED
    BY <2>1, <2>2 DEF WriterEffect, Busy
<1> QED
  BY <1>1, <1>2, <1>3, <1>4, <1>5, <1>6, <1>7, <1>8, <1>9 DEF WriterStep

\* Each log keeps the records it has, and what is synced of it.
LogGrows(l, k) ==
    /\ k \in [records : Seq(LogRecords), synced : Nat] /\ k.synced <= Len(k.records)
    /\ Len(l.records) <= Len(k.records) /\ l.synced <= k.synced
    /\ \A i \in 1..Len(l.records) : k.records[i] = l.records[i]
\* A log of records, of which no more is synced than there is.
GoodLog(l) == l \in [records : Seq(LogRecords), synced : Nat] /\ l.synced <= Len(l.records)

\* A log that stays as it is grows by nothing.
LEMMA SameLogGrows ==
    ASSUME NEW l, GoodLog(l)
    PROVE  LogGrows(l, l)
<1>1. Len(l.records) \in Nat /\ l.synced \in Nat
  BY LenProperties DEF GoodLog
<1> QED
  BY <1>1 DEF GoodLog, LogGrows

\* A record appended and a sync make a log grow.
LEMMA RecordGrows ==
    ASSUME NEW l, GoodLog(l), NEW r \in LogRecords
    PROVE  /\ LogGrows(l, [l EXCEPT !.records = Append(@, r)])
           /\ LogGrows(l, [l EXCEPT !.synced = Len(l.records)])
<1> DEFINE s == l.records
           t == Append(s, r)
           k == [l EXCEPT !.records = Append(@, r)]
           j == [l EXCEPT !.synced = Len(l.records)]
<1>1. /\ s \in Seq(LogRecords) /\ Len(s) \in Nat /\ l.synced \in Nat /\ l.synced <= Len(s)
      /\ DOMAIN l = {"records", "synced"}
  BY LenProperties DEF GoodLog
<1>2. /\ t \in Seq(LogRecords) /\ Len(t) = Len(s) + 1
      /\ \A i \in 1..Len(s) : t[i] = s[i]
  BY <1>1, AppendProperties
<1>3. k.records = t /\ k.synced = l.synced /\ k \in [records : Seq(LogRecords), synced : Nat]
  BY <1>1, <1>2 DEF GoodLog
<1>4. j.records = s /\ j.synced = Len(s) /\ j \in [records : Seq(LogRecords), synced : Nat]
  BY <1>1 DEF GoodLog
<1> HIDE DEF t, k, j, s
<1>5. LogGrows(l, k)
  BY <1>1, <1>2, <1>3 DEF LogGrows, s
<1>6. LogGrows(l, j)
  BY <1>1, <1>4 DEF LogGrows, s
<1> QED
  BY <1>5, <1>6 DEF k, j

\* A step of a writer adds to the logs.
LEMMA WriterGrows ==
    ASSUME Shape, NothingBeforeOpen, NamesFiles, LogsOK, LogNumbersUsed, GroupIsLogged,
           NEW w \in Writers, WriterEffect(w)
    PROVE  /\ \A n \in DOMAIN disk.logs : n \in DOMAIN disk'.logs /\ LogGrows(disk.logs[n], disk'.logs[n])
           /\ \A n \in DOMAIN disk'.logs \ DOMAIN disk.logs :
                  n = db.nextFile /\ db'.nextFile = db.nextFile + 1 /\ disk'.logs[n] = EmptyLog
<1>0. \A n \in DOMAIN disk.logs : GoodLog(disk.logs[n])
  BY DEF LogsOK, GoodLog
<1>1. CASE disk'.logs = disk.logs
  BY <1>0, <1>1, SameLogGrows
<1>2. CASE disk'.logs = With(disk.logs, db.nextFile, EmptyLog) /\ db.up = "open"
           /\ db'.nextFile = db.nextFile + 1
  <2>1. db.nextFile \in Nat /\ \A n \in DOMAIN disk.logs : n < db.nextFile /\ n \in Nat
    BY <1>2 DEF LogNumbersUsed, NamesFiles, VersionsNameFiles, ManifestNamesFiles
  <2>2. \A n \in DOMAIN disk.logs : n # db.nextFile
    BY <2>1
  <2>3. /\ DOMAIN disk'.logs = DOMAIN disk.logs \cup {db.nextFile}
        /\ disk'.logs[db.nextFile] = EmptyLog
        /\ \A n \in DOMAIN disk.logs : disk'.logs[n] = disk.logs[n]
    BY <1>2, <2>2 DEF With, Overlay
  <2> QED
    BY <1>0, <1>2, <2>3, SameLogGrows
<1>3. CASE Busy(w) /\ disk'.logs \in {Appended, SyncedNow}
  <2>1. GroupRecord \in LogRecords
    BY <1>3 DEF GroupIsLogged
  <2>2. DOMAIN disk'.logs = DOMAIN disk.logs
    BY <1>3 DEF Appended, SyncedNow
  <2>3. ASSUME NEW n \in DOMAIN disk.logs PROVE LogGrows(disk.logs[n], disk'.logs[n])
    <3>1. CASE n = group.log
      <4>1. disk'.logs[n] \in {[disk.logs[n] EXCEPT !.records = Append(@, GroupRecord)],
                               [disk.logs[n] EXCEPT !.synced = Len(disk.logs[n].records)]}
        BY <1>3, <3>1 DEF Appended, SyncedNow
      <4>2. /\ LogGrows(disk.logs[n], [disk.logs[n] EXCEPT !.records = Append(@, GroupRecord)])
            /\ LogGrows(disk.logs[n], [disk.logs[n] EXCEPT !.synced = Len(disk.logs[n].records)])
        BY <1>0, <2>1, RecordGrows
      <4> QED
        BY <4>1, <4>2
    <3>2. CASE n # group.log
      <4>1. disk'.logs[n] = disk.logs[n]
        BY <1>3, <3>2 DEF Appended, SyncedNow
      <4> QED
        BY <1>0, <4>1, SameLogGrows
    <3> QED
      BY <3>1, <3>2
  <2> QED
    BY <2>2, <2>3
<1> QED
  BY <1>1, <1>2, <1>3 DEF WriterEffect

-----------------------------------------------------------------------------
(* The logs: what is in them stays until a table has it. *)

\* The part of the invariant that is about the logs and the numbers of the manifest.
LogsPart == LogsOK /\ LogNumbersUsed /\ PassedOver
\* The logs that the manifest does not pass over are kept, and grow.
LogsKept ==
    /\ disk.manifest.flushed <= disk'.manifest.flushed
    /\ \A n \in DOMAIN disk.logs :
           n < disk'.manifest.flushed
           \/ (n \in DOMAIN disk'.logs /\ LogGrows(disk.logs[n], disk'.logs[n]))

\* LogsOK, log by log.
LEMMA LogsAreGood ==
    ASSUME LogsOK
    PROVE  \A n \in DOMAIN disk.logs : GoodLog(disk.logs[n]) /\ LogGrows(disk.logs[n], disk.logs[n])
BY SameLogGrows DEF LogsOK, GoodLog

\* A new log is one.
LEMMA EmptyIsGood == GoodLog(EmptyLog)
<1>1. EmptyLog.records = <<>> /\ EmptyLog.synced = 0 /\ <<>> \in Seq(LogRecords) /\ Len(<<>>) = 0
  BY EmptySeq DEF EmptyLog
<1> QED
  BY <1>1 DEF GoodLog, EmptyLog

\* What an edit does to the numbers of the manifest.
LEMMA LoggedFacts ==
    ASSUME NEW m, NEW e, m.flushed \in Nat, e.log \in Nat
    PROVE  /\ Logged(m, e).log = e.log /\ Logged(m, e).lastSeq = e.lastSeq
           /\ Logged(m, e).flushed \in Nat
           /\ m.flushed <= Logged(m, e).flushed /\ e.log <= Logged(m, e).flushed
<1>1. /\ Logged(m, e).log = e.log /\ Logged(m, e).lastSeq = e.lastSeq
      /\ Logged(m, e).flushed = Max({m.flushed, e.log})
  BY DEF Logged
<1>2. LET x == Max({m.flushed, e.log}) IN x \in Nat /\ x >= m.flushed /\ x >= e.log
  BY MaxOfTwo
<1> QED
  BY <1>1, <1>2

\* A step of a writer.
LEMMA LogsPartWriter ==
    ASSUME Shape, NothingBeforeOpen, NamesFiles, LogsPart, GroupIsLogged,
           NEW w \in Writers, WriterEffect(w)
    PROVE  LogsPart' /\ LogsKept
<1>1. /\ \A n \in DOMAIN disk.logs : n \in DOMAIN disk'.logs /\ LogGrows(disk.logs[n], disk'.logs[n])
      /\ \A n \in DOMAIN disk'.logs \ DOMAIN disk.logs :
             n = db.nextFile /\ db'.nextFile = db.nextFile + 1 /\ disk'.logs[n] = EmptyLog
  BY WriterGrows DEF LogsPart
<1>2. /\ bg' = bg /\ events' \in {events, events + 1} /\ disk'.manifest = disk.manifest
      /\ db'.up = db.up /\ db'.replay = db.replay /\ db'.logNumber = db.logNumber
      /\ db'.nextFile \in {db.nextFile, db.nextFile + 1}
      /\ db'.lastSeq = db.lastSeq \/ (Busy(w) /\ db'.lastSeq = db.lastSeq + Len(GroupOps))
  BY DEF WriterEffect
<1>3. /\ db.nextFile \in Nat /\ DOMAIN disk.logs \subseteq Nat
      /\ events \in Nat /\ db.lastSeq \in Nat
  BY DEF NamesFiles, VersionsNameFiles, ManifestNamesFiles, LogsPart, LogsOK
<1>4. db'.lastSeq \in Nat
  <2>1. Busy(w) => Len(GroupOps) \in Nat
    <3>1. Busy(w) => GroupOps \in Seq(Operations)
      BY DEF GroupIsLogged, GroupRecord, LogRecords
    <3> QED
      BY <3>1, LenProperties
  <2> QED
    BY <1>2, <1>3, <2>1
<1>5. \A n \in DOMAIN disk'.logs : GoodLog(disk'.logs[n])
  BY <1>1, EmptyIsGood DEF LogGrows, GoodLog
<1>6. LogsOK'
  BY <1>1, <1>2, <1>3, <1>4, <1>5 DEF LogsPart, LogsOK, GoodLog
<1>7. LogNumbersUsed'
  <2> SUFFICES ASSUME db.up # "closed"
               PROVE  /\ \A n \in DOMAIN disk'.logs : n \in db.replay.logs \/ n < db'.nextFile
                      /\ db.up # "replaying" => db.replay.logs = {}
    BY <1>2 DEF LogNumbersUsed
  <2>1. /\ \A n \in DOMAIN disk.logs : n \in db.replay.logs \/ n < db.nextFile
        /\ db.up # "replaying" => db.replay.logs = {}
    BY DEF LogsPart, LogNumbersUsed
  <2>2. ASSUME NEW n \in DOMAIN disk'.logs PROVE n \in db.replay.logs \/ n < db'.nextFile
    <3>1. CASE n \in DOMAIN disk.logs
      BY <1>2, <1>3, <2>1, <3>1
    <3>2. CASE n \notin DOMAIN disk.logs
      BY <1>1, <1>3, <3>2
    <3> QED
      BY <3>1, <3>2
  <2> QED
    BY <2>1, <2>2
<1>8. PassedOver'
  BY <1>2 DEF LogsPart, PassedOver
<1>9. LogsKept
  BY <1>1, <1>2 DEF LogsKept, LogsPart, PassedOver
<1> QED
  BY <1>6, <1>7, <1>8, <1>9 DEF LogsPart

\* A step of the background thread.
LEMMA LogsPartBackground ==
    ASSUME Shape, NothingBeforeOpen, NamesFiles, KeepsLogs, LogsPart, Background
    PROVE  LogsPart' /\ LogsKept
<1>1. BackgroundEffect
  BY BackgroundDoes
<1>2. /\ db.up = "open" /\ db'.up = "open" /\ db'.nextFile \in {db.nextFile, db.nextFile + 1}
  BY BackgroundFrame
<1>3. /\ db.nextFile \in Nat /\ DOMAIN disk.logs \subseteq Nat
      /\ events \in Nat /\ db.lastSeq \in Nat /\ bg.edit.lastSeq \in Nat
      /\ disk.manifest.flushed \in Nat /\ disk.manifest.lastSeq \in Nat
      /\ db.logNumber \in Nat /\ db.logNumber <= disk.manifest.flushed
      /\ disk.manifest.log <= disk.manifest.flushed
      /\ db.replay.logs = {} /\ db.replay.pos \in Nat
      /\ \A n \in DOMAIN disk.logs : n < db.nextFile
  <2>1. db.log \in Nat /\ db.logNumber \in 0..db.log
    BY <1>2 DEF KeepsLogs, LogsExist, Below
  <2> QED
    BY <1>2, <2>1 DEF NamesFiles, VersionsNameFiles, ManifestNamesFiles, LogsPart, LogsOK,
                      LogNumbersUsed, PassedOver
<1>4. \A n \in DOMAIN disk.logs : GoodLog(disk.logs[n]) /\ LogGrows(disk.logs[n], disk.logs[n])
  BY LogsAreGood DEF LogsPart
<1>5. /\ events' \in Nat /\ db'.lastSeq \in Nat /\ db'.replay = db.replay
      /\ bg'.edit.lastSeq \in Nat
  BY <1>1, <1>3 DEF BackgroundEffect
<1>6. /\ DOMAIN disk'.logs \subseteq DOMAIN disk.logs
      /\ \A n \in DOMAIN disk'.logs : disk'.logs[n] = disk.logs[n]
      /\ \A n \in DOMAIN disk.logs : n >= db.logNumber => n \in DOMAIN disk'.logs
  <2>1. CASE disk'.logs = disk.logs
    BY <2>1
  <2>2. CASE bg.pc = "log" /\ disk' = ToManifest(bg.edit)
    BY <2>2, Fields DEF ToManifest, Shape
  <2>3. CASE disk'.logs = Restrict(disk.logs, LiveLogs)
    <3>1. LiveLogs = {n \in DOMAIN disk.logs : n >= db.logNumber}
      BY DEF LiveLogs
    <3>2. DOMAIN disk'.logs = LiveLogs /\ \A n \in LiveLogs : disk'.logs[n] = disk.logs[n]
      BY <2>3 DEF Restrict
    <3> QED
      BY <3>1, <3>2
  <2> QED
    BY <1>1, <2>1, <2>2, <2>3 DEF BackgroundEffect
<1>7. /\ disk'.manifest.flushed \in Nat /\ disk.manifest.flushed <= disk'.manifest.flushed
      /\ disk'.manifest.log <= disk'.manifest.flushed /\ disk'.manifest.lastSeq \in Nat
      /\ db'.logNumber <= disk'.manifest.flushed
  <2>1. CASE bg.pc = "log" /\ disk' = ToManifest(bg.edit)
                           /\ db'.logNumber \in {db.logNumber, bg.edit.log}
    <3>1. bg.edit.log \in Nat
      BY <2>1 DEF KeepsLogs, EditsKeepLogs, Below
    <3>2. disk'.manifest = Logged(disk.manifest, bg.edit)
      BY <2>1, Fields DEF ToManifest, Shape
    <3>3. /\ disk'.manifest.log = bg.edit.log /\ disk'.manifest.lastSeq = bg.edit.lastSeq
          /\ disk'.manifest.flushed \in Nat
          /\ disk.manifest.flushed <= disk'.manifest.flushed
          /\ bg.edit.log <= disk'.manifest.flushed
      BY <1>3, <3>1, <3>2, LoggedFacts
    <3> QED
      BY <1>3, <2>1, <3>1, <3>3
  <2>2. CASE disk'.manifest = disk.manifest /\ db'.logNumber = db.logNumber
    BY <1>3, <2>2
  <2> QED
    BY <1>1, <2>1, <2>2 DEF BackgroundEffect
<1>8. LogsOK'
  <2>1. \A n \in DOMAIN disk'.logs : GoodLog(disk'.logs[n])
    BY <1>4, <1>6
  <2> QED
    BY <1>3, <1>5, <1>7, <2>1 DEF LogsOK, GoodLog
<1>9. LogNumbersUsed'
  BY <1>2, <1>3, <1>5, <1>6 DEF LogNumbersUsed
<1>10. PassedOver'
  BY <1>7 DEF PassedOver
<1>11. LogsKept
  <2>1. ASSUME NEW n \in DOMAIN disk.logs, ~(n < disk'.manifest.flushed)
        PROVE  n \in DOMAIN disk'.logs /\ LogGrows(disk.logs[n], disk'.logs[n])
    <3>1. n \in Nat /\ n >= db.logNumber
      BY <1>3, <1>7, <2>1
    <3> QED
      BY <1>4, <1>6, <3>1
  <2> QED
    BY <1>7, <2>1 DEF LogsKept
<1> QED
  BY <1>8, <1>9, <1>10, <1>11 DEF LogsPart

\* What a step of a reader, or with a snapshot, leaves as it is.
LEMMA ReaderDoes ==
    ASSUME Shape, \/ \E s \in Snapshots : GetSnapshot(s) \/ ReleaseSnapshot(s)
                  \/ \E r \in Readers : BeginRead(r) \/ EndRead(r)
    PROVE  /\ UNCHANGED <<disk, queue, writer, group, bg, history>>
           /\ events' \in {events, events + 1}
           /\ \A x \in DOMAIN Closed \ {"scheduled", "seek", "snapshots"} : db'[x] = db[x]
<1>0. DOMAIN db = DOMAIN Closed
  BY DEF Shape
<1> DEFINE Goal == /\ UNCHANGED <<disk, queue, writer, group, bg, history>>
                   /\ events' \in {events, events + 1}
                   /\ \A x \in DOMAIN Closed \ {"scheduled", "seek", "snapshots"} : db'[x] = db[x]
<1>1. ASSUME NEW s \in Snapshots, GetSnapshot(s) PROVE Goal
  BY <1>0, <1>1 DEF GetSnapshot, Event
<1>2. ASSUME NEW s \in Snapshots, ReleaseSnapshot(s) PROVE Goal
  BY <1>0, <1>2 DEF ReleaseSnapshot
<1>3. ASSUME NEW r \in Readers, BeginRead(r) PROVE Goal
  BY <1>3 DEF BeginRead, Event
<1>4. ASSUME NEW r \in Readers, EndRead(r) PROVE Goal
  <2>1. /\ UNCHANGED <<disk, queue, writer, group, bg, history, events>>
        /\ UNCHANGED db \/ \E S : db' = MaybeSchedule([db EXCEPT !.seek = S])
    BY <1>4, Zenon DEF EndRead
  <2>2. CASE UNCHANGED db
    BY <2>1, <2>2
  <2>3. ASSUME NEW S, db' = MaybeSchedule([db EXCEPT !.seek = S]) PROVE Goal
    <3> DEFINE d == [db EXCEPT !.seek = S]
    <3>1. DOMAIN d = DOMAIN Closed /\ \A x \in DOMAIN Closed \ {"seek"} : d[x] = db[x]
      BY <1>0
    <3>2. db' = MaybeSchedule(d)
      BY <2>3
    <3> HIDE DEF d
    <3>3. \A x \in DOMAIN Closed \ {"scheduled", "seek", "snapshots"} : db'[x] = db[x]
      BY <3>1, <3>2, MaybeScheduleShape
    <3> QED
      BY <2>1, <3>3
  <2> QED
    BY <2>1, <2>2, <2>3
<1> QED
  BY <1>1, <1>2, <1>3, <1>4

\* So the logs stay as they are.
LEMMA LogsPartReader ==
    ASSUME Shape, LogsPart,
           \/ \E s \in Snapshots : GetSnapshot(s) \/ ReleaseSnapshot(s)
           \/ \E r \in Readers : BeginRead(r) \/ EndRead(r)
    PROVE  LogsPart' /\ LogsKept
<1>1. /\ UNCHANGED <<disk, bg>> /\ events' \in {events, events + 1}
      /\ \A x \in DOMAIN Closed \ {"scheduled", "seek", "snapshots"} : db'[x] = db[x]
  BY ReaderDoes
<1>2. /\ db'.up = db.up /\ db'.lastSeq = db.lastSeq /\ db'.replay = db.replay
      /\ db'.nextFile = db.nextFile /\ db'.logNumber = db.logNumber
  BY <1>1, Fields
<1>3. LogsOK'
  BY <1>1, <1>2 DEF LogsPart, LogsOK
<1>4. LogNumbersUsed' /\ PassedOver'
  BY <1>1, <1>2 DEF LogsPart, LogNumbersUsed, PassedOver
<1>5. LogsKept
  BY <1>1, LogsAreGood DEF LogsPart, PassedOver, LogsKept
<1> QED
  BY <1>3, <1>4, <1>5 DEF LogsPart

\* The log that is replayed is there.
LEMMA OldestIsLog ==
    ASSUME NamesFiles, LogsOK, db.replay.logs # {}
    PROVE  OldestLog \in db.replay.logs /\ OldestLog \in DOMAIN disk.logs /\ OldestLog \in Nat
<1>1. db.replay.logs \in SUBSET Nat /\ db.replay.logs \subseteq DOMAIN disk.logs
  BY DEF NamesFiles, VersionsNameFiles, LogsOK
<1>2. \E n \in db.replay.logs : \A m \in db.replay.logs : n <= m
  BY <1>1, LeastNat
<1>3. OldestLog \in db.replay.logs
  BY <1>2 DEF OldestLog, Min
<1> QED
  BY <1>1, <1>3

\* A step of RecoverLogFile takes the sequence number past the record, or the number of
\* the next file past the log.
LEMMA ReplayCounts ==
    ASSUME Shape, NamesFiles, LogsOK, ReplayRecord \/ EndOfLog
    PROVE  /\ db'.lastSeq \in Nat /\ db'.replay.pos \in Nat
           /\ db'.nextFile \in Nat /\ db.nextFile <= db'.nextFile
           /\ \A n \in db.replay.logs \ db'.replay.logs : n < db'.nextFile
<1>0. /\ DOMAIN db = DOMAIN Closed /\ DOMAIN db.replay = DOMAIN NoReplay
      /\ db.replay.pos \in Nat /\ db.lastSeq \in Nat /\ db.nextFile \in Nat
  BY DEF Shape, LogsOK, NamesFiles, VersionsNameFiles
<1>1. ASSUME NEW d, DOMAIN d = DOMAIN Closed, DOMAIN d.replay = DOMAIN NoReplay, NEW mem,
             d.nextFile \in Nat, WriteReplayed(mem, d)
      PROVE  /\ db'.lastSeq = d.lastSeq /\ db'.replay.pos = d.replay.pos
             /\ db'.replay.logs = d.replay.logs
             /\ db'.nextFile \in Nat /\ d.nextFile <= db'.nextFile
  <2>1. db' = [d EXCEPT !.nextFile = Max({@, db.nextFile + 1}),
                        !.pending = @ \cup {db.nextFile}, !.replay.mem = {}]
    BY <1>1 DEF WriteReplayed
  <2>2. db'.nextFile = Max({d.nextFile, db.nextFile + 1})
    BY <1>1, <2>1, Fields
  <2>3. Max({d.nextFile, db.nextFile + 1}) \in Nat /\ Max({d.nextFile, db.nextFile + 1}) >= d.nextFile
    <3>1. db.nextFile + 1 \in Nat
      BY <1>0
    <3> QED
      BY <1>1, <3>1, MaxOfTwo
  <2>4. db'.lastSeq = d.lastSeq
    BY <1>1, <2>1, Fields
  <2>5. db'.replay.pos = d.replay.pos /\ db'.replay.logs = d.replay.logs
    BY <1>1, <2>1, Fields
  <2> QED
    BY <1>1, <2>2, <2>3, <2>4, <2>5
<1>2. CASE ReplayRecord
  <2> DEFINE l == disk.logs[OldestLog]
             r == disk.logs[OldestLog].records[db.replay.pos + 1]
             mem == db.replay.mem \cup InsertInto(r.ops, r.seq)
             s == Max({db.lastSeq, r.seq + Len(r.ops) - 1})
             d == [db EXCEPT !.lastSeq = Max({@, r.seq + Len(r.ops) - 1}), !.replay.pos = @ + 1]
             e == [d EXCEPT !.replay.mem = mem]
  <2>1. /\ db.replay.logs # {} /\ db.replay.pos < Len(l.records)
        /\ WriteReplayed(mem, d) \/ db' = e
    BY <1>2 DEF ReplayRecord, Replaying
  <2>2. OldestLog \in DOMAIN disk.logs
    BY <2>1, OldestIsLog
  <2>3. l.records \in Seq(LogRecords)
    BY <2>2 DEF LogsOK
  <2>4. r \in LogRecords
    <3>1. db.replay.pos + 1 \in 1..Len(l.records)
      <4> DEFINE p == db.replay.pos
                 k == Len(l.records)
      <4>1. k \in Nat
        BY <2>3, LenProperties
      <4>2. p \in Nat /\ p < k
        BY <1>0, <2>1
      <4> HIDE DEF p, k, l
      <4>3. p + 1 \in 1..k
        BY <4>1, <4>2
      <4> QED
        BY <4>3 DEF p, k
    <3> QED
      BY <2>3, <3>1, ElementOfSeq
  <2>5. r.seq + Len(r.ops) - 1 \in Nat
    <3>1. r.seq \in Nat \ {0} /\ r.ops \in Seq(Operations)
      BY <2>4 DEF LogRecords
    <3>2. Len(r.ops) \in Nat
      BY <3>1, LenProperties
    <3> HIDE DEF r
    <3> QED
      BY <3>1, <3>2
  <2>6. s \in Nat
    <3> HIDE DEF r
    <3> QED
      BY <1>0, <2>5, MaxOfTwo
  <2>7. /\ DOMAIN d = DOMAIN Closed /\ DOMAIN d.replay = DOMAIN NoReplay
        /\ d.lastSeq = s /\ d.replay.pos = db.replay.pos + 1 /\ d.nextFile = db.nextFile
        /\ d.replay.logs = db.replay.logs
    <3> HIDE DEF r
    <3> QED
      BY <1>0, Fields
  <2> HIDE DEF mem, d, s
  <2>8. /\ DOMAIN e = DOMAIN Closed
        /\ e.lastSeq = s /\ e.replay.pos = db.replay.pos + 1 /\ e.nextFile = db.nextFile
        /\ e.replay.logs = db.replay.logs
    BY <2>7, Fields
  <2> HIDE DEF e
  <2>9. CASE db' = e
    BY <1>0, <2>6, <2>8, <2>9
  <2>10. CASE WriteReplayed(mem, d)
    BY <1>0, <1>1, <2>6, <2>7, <2>10
  <2> QED
    BY <2>1, <2>9, <2>10
<1>3. CASE EndOfLog
  <2> DEFINE n == OldestLog
             d == [db EXCEPT !.nextFile = Max({@, n + 1}),
                             !.replay.logs = @ \ {n}, !.replay.pos = 0]
  <2>1. db.replay.logs # {} /\ (WriteReplayed(db.replay.mem, d) \/ db' = d)
    BY <1>3 DEF EndOfLog, Replaying
  <2>2. n \in Nat
    BY <2>1, OldestIsLog
  <2> HIDE DEF n
  <2>3. LET x == Max({db.nextFile, n + 1}) IN x \in Nat /\ x >= db.nextFile /\ x >= n + 1
    <3>1. n + 1 \in Nat
      BY <2>2
    <3> QED
      BY <1>0, <3>1, MaxOfTwo
  <2>4. /\ DOMAIN d = DOMAIN Closed /\ DOMAIN d.replay = DOMAIN NoReplay
        /\ d.lastSeq = db.lastSeq /\ d.replay.pos = 0 /\ d.nextFile = Max({db.nextFile, n + 1})
        /\ d.replay.logs = db.replay.logs \ {n}
    BY <1>0, Fields
  <2> HIDE DEF d
  <2>5. d.nextFile \in Nat /\ db.nextFile <= d.nextFile /\ n < d.nextFile
    BY <1>0, <2>2, <2>3, <2>4
  <2>6. /\ db'.lastSeq = d.lastSeq /\ db'.replay.pos = d.replay.pos
        /\ db'.replay.logs = d.replay.logs
        /\ db'.nextFile \in Nat /\ d.nextFile <= db'.nextFile
    BY <1>1, <2>1, <2>4, <2>5
  <2>7. \A m \in db.replay.logs \ db'.replay.logs : m = n
    BY <2>4, <2>6
  <2> QED
    BY <1>0, <2>2, <2>4, <2>5, <2>6, <2>7
<1> QED
  BY <1>2, <1>3

\* A step of DB::Open.
LEMMA LogsPartOpening ==
    ASSUME Shape, NothingBeforeOpen, NamesFiles, LogsExist, LogsPart, Opening
    PROVE  /\ LogsPart' /\ LogsKept /\ db.up # "open"
           /\ UNCHANGED <<queue, writer, group, bg, history, events>>
<1>0. /\ DOMAIN db = DOMAIN Closed /\ DOMAIN disk = {"tables", "logs", "manifest"}
      /\ DOMAIN db.replay = DOMAIN NoReplay
      /\ disk.manifest.log \in Nat /\ disk.manifest.log < disk.manifest.nextFile
      /\ disk.manifest.nextFile \in Nat /\ db.nextFile \in Nat /\ DOMAIN disk.logs \subseteq Nat
      /\ disk.manifest.flushed \in Nat /\ disk.manifest.lastSeq \in Nat
      /\ disk.manifest.log <= disk.manifest.flushed
      /\ db.lastSeq \in Nat /\ events \in Nat /\ bg.edit.lastSeq \in Nat
      /\ db.replay.pos \in Nat /\ db.replay.logs \subseteq DOMAIN disk.logs
  BY Fields DEF Shape, LogsExist, NamesFiles, ManifestNamesFiles, VersionsNameFiles,
                LogsPart, LogsOK, PassedOver
<1>1. \A n \in DOMAIN disk.logs : GoodLog(disk.logs[n]) /\ LogGrows(disk.logs[n], disk.logs[n])
  BY LogsAreGood DEF LogsPart
<1>2. /\ db.up # "closed" =>
             /\ \A n \in DOMAIN disk.logs : n \in db.replay.logs \/ n < db.nextFile
             /\ db.up # "replaying" => db.replay.logs = {}
             /\ db.logNumber <= disk.manifest.flushed
  BY DEF LogsPart, LogNumbersUsed, PassedOver
<1> DEFINE Goal == /\ LogsPart' /\ LogsKept /\ db.up # "open"
                   /\ UNCHANGED <<queue, writer, group, bg, history, events>>
<1>3. CASE Recover
  <2>1. /\ db.up = "closed" /\ UNCHANGED <<disk, queue, writer, group, bg, history, events>>
    BY <1>3 DEF Recover
  <2>2. /\ db'.up = "replaying" /\ db'.lastSeq = disk.manifest.lastSeq
        /\ db'.nextFile = disk.manifest.nextFile + 1 /\ db'.logNumber = disk.manifest.log
        /\ db'.replay.logs = LogsToReplay(disk.manifest) /\ db'.replay.pos = 0
    BY <1>3 DEF Recover, Closed, NoReplay
  <2>3. LogsToReplay(disk.manifest) = {n \in DOMAIN disk.logs : n >= disk.manifest.log}
    BY DEF LogsToReplay
  <2>4. LogsOK'
    BY <1>0, <1>1, <2>1, <2>2, <2>3 DEF LogsOK, GoodLog
  <2>5. LogNumbersUsed'
    <3>1. \A n \in DOMAIN disk.logs : n \in db'.replay.logs \/ n < db'.nextFile
      BY <1>0, <2>2, <2>3
    <3> QED
      BY <2>1, <2>2, <3>1 DEF LogNumbersUsed
  <2>6. PassedOver'
    BY <1>0, <2>1, <2>2 DEF PassedOver
  <2>7. LogsKept
    BY <1>0, <1>1, <2>1 DEF LogsKept
  <2> QED
    BY <2>1, <2>4, <2>5, <2>6, <2>7 DEF LogsPart
<1>4. CASE ReplayRecord \/ EndOfLog
  <2>1. /\ db.up = "replaying" /\ UNCHANGED <<queue, writer, group, bg, history, events>>
        /\ \A x \in DOMAIN Closed \ {"replay", "lastSeq", "nextFile", "pending"} : db'[x] = db[x]
        /\ db'.replay.logs \in {db.replay.logs, db.replay.logs \ {OldestLog}}
        /\ \/ UNCHANGED disk
           \/ \E mem : disk' = [disk EXCEPT !.tables = With(@, db.nextFile, mem)]
    BY <1>4, ReplayDoes
  <2>2. /\ db'.lastSeq \in Nat /\ db'.replay.pos \in Nat
        /\ db'.nextFile \in Nat /\ db.nextFile <= db'.nextFile
        /\ \A n \in db.replay.logs \ db'.replay.logs : n < db'.nextFile
    BY <1>4, ReplayCounts DEF LogsPart
  <2>3. db'.up = "replaying" /\ db'.logNumber = db.logNumber
    BY <2>1, Fields
  <2>4. disk'.manifest = disk.manifest /\ disk'.logs = disk.logs
    BY <1>0, <2>1
  <2>5. db'.replay.logs \subseteq db.replay.logs
    BY <2>1
  <2>6. LogsOK'
    BY <1>0, <1>1, <2>1, <2>2, <2>4, <2>5 DEF LogsOK, GoodLog
  <2>7. LogNumbersUsed'
    <3>1. ASSUME NEW n \in DOMAIN disk.logs PROVE n \in db'.replay.logs \/ n < db'.nextFile
      <4>1. n \in db.replay.logs \/ n < db.nextFile
        BY <1>2, <2>1
      <4> QED
        BY <1>0, <2>2, <4>1
    <3> QED
      BY <2>3, <2>4, <3>1 DEF LogNumbersUsed
  <2>8. PassedOver'
    BY <1>0, <1>2, <2>1, <2>3, <2>4 DEF PassedOver
  <2>9. LogsKept
    BY <1>0, <1>1, <2>4 DEF LogsKept
  <2> QED
    BY <2>1, <2>6, <2>7, <2>8, <2>9 DEF LogsPart
<1>5. CASE BeginLog
  <2>1. /\ db.up = "replaying" /\ db.replay.logs = {}
        /\ UNCHANGED <<queue, writer, group, bg, history, events>>
        /\ disk' = [disk EXCEPT !.logs = With(@, db.nextFile, EmptyLog)]
        /\ db' = [db EXCEPT !.up = "replayed", !.nextFile = @ + 1, !.log = db.nextFile,
                            !.memtables = With(<<>>, db.nextFile, {})]
    BY <1>5 DEF BeginLog
  <2>2. /\ disk'.manifest = disk.manifest /\ disk'.logs = With(disk.logs, db.nextFile, EmptyLog)
        /\ db'.up = "replayed" /\ db'.nextFile = db.nextFile + 1 /\ db'.replay = db.replay
        /\ db'.logNumber = db.logNumber /\ db'.lastSeq = db.lastSeq
    BY <1>0, <2>1, Fields
  <2>3. \A n \in DOMAIN disk.logs : n < db.nextFile /\ n # db.nextFile /\ n < db.nextFile + 1
    BY <1>0, <1>2, <2>1
  <2>4. /\ DOMAIN disk'.logs = DOMAIN disk.logs \cup {db.nextFile}
        /\ disk'.logs[db.nextFile] = EmptyLog
        /\ \A n \in DOMAIN disk.logs : disk'.logs[n] = disk.logs[n]
    BY <2>2, <2>3 DEF With, Overlay
  <2>5. \A n \in DOMAIN disk'.logs : GoodLog(disk'.logs[n])
    BY <1>1, <2>4, EmptyIsGood
  <2>6. LogsOK'
    BY <1>0, <2>1, <2>2, <2>4, <2>5 DEF LogsOK, GoodLog
  <2>7. LogNumbersUsed'
    BY <1>0, <2>1, <2>2, <2>3, <2>4 DEF LogNumbersUsed
  <2>8. PassedOver'
    BY <1>0, <1>2, <2>1, <2>2 DEF PassedOver
  <2>9. LogsKept
    BY <1>0, <1>1, <2>2, <2>4 DEF LogsKept
  <2> QED
    BY <2>1, <2>6, <2>7, <2>8, <2>9 DEF LogsPart
<1>6. CASE InstallRecovered
  <2> DEFINE e == Edit({<<0, Meta(n, disk.tables[n])>> : n \in db.pending}, {}, db.log, <<>>)
  <2>1. /\ db.up = "replayed" /\ UNCHANGED <<queue, writer, group, bg, history, events>>
        /\ disk' = [disk EXCEPT !.manifest = Logged(@, e)]
        /\ db' = [db EXCEPT !.up = "installed", !.current = Apply(@, e),
                            !.logNumber = db.log, !.pending = {}]
    BY <1>6 DEF InstallRecovered
  <2>2. e.log = db.log /\ e.lastSeq = db.lastSeq
    BY DEF Edit
  <2> HIDE DEF e
  <2>3. disk'.logs = disk.logs /\ disk'.manifest = Logged(disk.manifest, e)
    BY <1>0, <2>1
  <2>4. /\ db'.up = "installed" /\ db'.nextFile = db.nextFile /\ db'.replay = db.replay
        /\ db'.logNumber = db.log /\ db'.lastSeq = db.lastSeq
    BY <1>0, <2>1, Fields
  <2>5. db.log \in Nat
    BY <2>1 DEF LogsExist, Below
  <2>6. /\ disk'.manifest.log = db.log /\ disk'.manifest.lastSeq = db.lastSeq
        /\ disk'.manifest.flushed \in Nat
        /\ disk.manifest.flushed <= disk'.manifest.flushed
        /\ db.log <= disk'.manifest.flushed
    BY <1>0, <2>2, <2>3, <2>5, LoggedFacts
  <2>7. LogsOK'
    BY <1>0, <1>1, <2>1, <2>3, <2>4, <2>6 DEF LogsOK, GoodLog
  <2>8. LogNumbersUsed'
    BY <1>2, <2>1, <2>3, <2>4 DEF LogNumbersUsed
  <2>9. PassedOver'
    BY <2>4, <2>6 DEF PassedOver
  <2>10. LogsKept
    BY <1>1, <2>3, <2>6 DEF LogsKept
  <2> QED
    BY <2>1, <2>7, <2>8, <2>9, <2>10 DEF LogsPart
<1>7. CASE FinishOpen
  <2>1. /\ db.up = "installed" /\ UNCHANGED <<queue, writer, group, bg, history, events>>
        /\ disk' = WithoutObsolete(disk) /\ db' = MaybeSchedule([db EXCEPT !.up = "open"])
    BY <1>7 DEF FinishOpen
  <2>2. disk'.manifest = disk.manifest /\ disk'.logs = Restrict(disk.logs, LiveLogs)
    BY <1>0, <2>1 DEF WithoutObsolete
  <2> DEFINE d == [db EXCEPT !.up = "open"]
  <2>3. DOMAIN d = DOMAIN Closed /\ d.up = "open" /\ \A x \in DOMAIN Closed \ {"up"} : d[x] = db[x]
    BY <1>0, Fields
  <2>4. db' = MaybeSchedule(d)
    BY <2>1
  <2> HIDE DEF d
  <2>5. /\ db'.up = "open" /\ db'.nextFile = db.nextFile /\ db'.replay = db.replay
        /\ db'.logNumber = db.logNumber /\ db'.lastSeq = db.lastSeq
    BY <2>3, <2>4, MaybeScheduleShape, Fields
  <2>6. LiveLogs = {n \in DOMAIN disk.logs : n >= db.logNumber}
    BY DEF LiveLogs
  <2>7. DOMAIN disk'.logs = LiveLogs /\ \A n \in LiveLogs : disk'.logs[n] = disk.logs[n]
    BY <2>2 DEF Restrict
  <2>8. db.logNumber \in Nat
    <3>1. db.log \in Nat /\ db.logNumber \in 0..db.log
      BY <2>1 DEF LogsExist, Below
    <3> QED
      BY <3>1
  <2>9. LogsOK'
    <3>1. \A n \in DOMAIN disk'.logs : GoodLog(disk'.logs[n])
      BY <1>1, <2>6, <2>7
    <3>2. db'.replay.logs = {}
      BY <1>2, <2>1, <2>5
    <3> QED
      BY <1>0, <2>1, <2>2, <2>5, <3>1, <3>2 DEF LogsOK, GoodLog
  <2>10. LogNumbersUsed'
    BY <1>2, <2>1, <2>5, <2>6, <2>7 DEF LogNumbersUsed
  <2>11. PassedOver'
    BY <1>0, <1>2, <2>1, <2>2, <2>5 DEF PassedOver
  <2>12. LogsKept
    <3>1. ASSUME NEW n \in DOMAIN disk.logs, ~(n < disk'.manifest.flushed)
          PROVE  n \in DOMAIN disk'.logs /\ LogGrows(disk.logs[n], disk'.logs[n])
      <4>1. n \in LiveLogs
        BY <1>0, <1>2, <2>1, <2>2, <2>6, <2>8, <3>1
      <4> QED
        BY <1>1, <2>7, <4>1
    <3> QED
      BY <1>0, <2>2, <3>1 DEF LogsKept
  <2> QED
    BY <2>1, <2>9, <2>10, <2>11, <2>12 DEF LogsPart
<1> QED
  BY <1>3, <1>4, <1>5, <1>6, <1>7 DEF Opening

\* What a crash leaves of a log: what was synced, and some of what follows it.
LogIsCut(l, k) ==
    /\ GoodLog(k) /\ l.synced <= k.synced /\ Len(k.records) <= Len(l.records)
    /\ \A i \in 1..Len(k.records) : k.records[i] = l.records[i]

\* What is left of a log that is not cut below what is synced.
LEMMA CutLog ==
    ASSUME NEW l, GoodLog(l), NEW n \in l.synced..Len(l.records)
    PROVE  LogIsCut(l, [records |-> SubSeq(l.records, 1, n), synced |-> n])
<1> DEFINE s == l.records
           t == SubSeq(s, 1, n)
           k == [records |-> t, synced |-> n]
<1>1. s \in Seq(LogRecords) /\ Len(s) \in Nat /\ l.synced \in Nat /\ n \in Nat /\ n <= Len(s)
      /\ l.synced <= n
  <2>1. s \in Seq(LogRecords) /\ l.synced \in Nat
    BY DEF GoodLog
  <2>2. Len(s) \in Nat
    BY <2>1, LenProperties
  <2> QED
    BY <2>1, <2>2
<1> HIDE DEF s
<1>2. \A i \in 1..Len(s) : s[i] \in LogRecords
  BY <1>1, ElementOfSeq
<1>3. t = [i \in 1..n |-> s[i]]
  BY <1>1
<1>4. t \in Seq(LogRecords) /\ Len(t) = n /\ \A i \in 1..n : t[i] = s[i]
  <2>1. \A i \in 1..n : s[i] \in LogRecords
    BY <1>1, <1>2
  <2> QED
    BY <1>1, <1>3, <2>1
<1> HIDE DEF t
<1>5. GoodLog(k)
  BY <1>1, <1>4 DEF GoodLog
<1>6. k.records = t /\ k.synced = n
  OBVIOUS
<1> HIDE DEF k
<1>7. LogIsCut(l, k)
  BY <1>1, <1>4, <1>5, <1>6 DEF LogIsCut, s
<1> QED
  BY <1>7 DEF k, t, s

\* A crash cuts logs, and changes nothing else on the disk.
LEMMA CrashCuts ==
    ASSUME Shape, LogsOK, Crash
    PROVE  /\ disk'.manifest = disk.manifest /\ DOMAIN disk'.logs = DOMAIN disk.logs
           /\ \A n \in DOMAIN disk.logs : LogIsCut(disk.logs[n], disk'.logs[n])
<1>0. DOMAIN disk = {"tables", "logs", "manifest"}
  BY Fields DEF Shape
<1>1. \A n \in DOMAIN disk.logs : GoodLog(disk.logs[n])
  BY LogsAreGood
<1>2. \A n \in DOMAIN disk.logs : LogIsCut(disk.logs[n], disk.logs[n])
  <2> TAKE n \in DOMAIN disk.logs
  <2> DEFINE l == disk.logs[n]
  <2>1. GoodLog(l)
    BY <1>1
  <2> HIDE DEF l
  <2>2. l.records \in Seq(LogRecords) /\ l.synced \in Nat
    BY <2>1 DEF GoodLog
  <2>3. Len(l.records) \in Nat
    BY <2>2, LenProperties
  <2>4. LogIsCut(l, l)
    BY <2>1, <2>2, <2>3 DEF LogIsCut
  <2> QED
    BY <2>4 DEF l
<1>3. CASE UNCHANGED disk
  BY <1>2, <1>3
<1>4. ASSUME NEW left \in [Unsynced -> 0..MaxEvents],
             \A n \in Unsynced : left[n] \in disk.logs[n].synced..Len(disk.logs[n].records),
             disk' = [disk EXCEPT !.logs =
                    Overlay(@, [n \in Unsynced |->
                        [records |-> SubSeq(disk.logs[n].records, 1, left[n]),
                         synced |-> left[n]]])]
      PROVE  /\ disk'.manifest = disk.manifest /\ DOMAIN disk'.logs = DOMAIN disk.logs
             /\ \A n \in DOMAIN disk.logs : LogIsCut(disk.logs[n], disk'.logs[n])
  <2> DEFINE cut == [n \in Unsynced |-> [records |-> SubSeq(disk.logs[n].records, 1, left[n]),
                                         synced |-> left[n]]]
  <2>1. Unsynced \subseteq DOMAIN disk.logs
    BY DEF Unsynced
  <2>2. \A n \in Unsynced : LogIsCut(disk.logs[n], cut[n])
    <3> TAKE n \in Unsynced
    <3>1. GoodLog(disk.logs[n]) /\ left[n] \in disk.logs[n].synced..Len(disk.logs[n].records)
      BY <1>1, <1>4, <2>1
    <3>2. LogIsCut(disk.logs[n], [records |-> SubSeq(disk.logs[n].records, 1, left[n]),
                                  synced |-> left[n]])
      BY <3>1, CutLog
    <3> QED
      BY <3>2
  <2>3. DOMAIN cut = Unsynced /\ disk'.logs = Overlay(disk.logs, cut)
        /\ disk'.manifest = disk.manifest
    BY <1>0, <1>4
  <2> HIDE DEF cut
  <2>4. /\ DOMAIN disk'.logs = DOMAIN disk.logs
        /\ \A n \in DOMAIN disk.logs : disk'.logs[n] = IF n \in Unsynced THEN cut[n] ELSE disk.logs[n]
    BY <2>1, <2>3 DEF Overlay
  <2> QED
    BY <1>2, <2>2, <2>3, <2>4
<1> QED
  BY <1>3, <1>4 DEF Crash

\* Afterwards they are as they should be.
LEMMA LogsPartCrash ==
    ASSUME Shape, LogsPart, Crash
    PROVE  LogsPart'
<1>1. /\ disk'.manifest = disk.manifest /\ DOMAIN disk'.logs = DOMAIN disk.logs
      /\ \A n \in DOMAIN disk.logs : LogIsCut(disk.logs[n], disk'.logs[n])
  BY CrashCuts DEF LogsPart
<1>2. /\ db'.up = "closed" /\ db'.lastSeq = 0 /\ db'.replay.logs = {} /\ db'.replay.pos = 0
      /\ bg'.edit.lastSeq = 0 /\ events' = events + 1
  BY DEF Crash, Closed, NoReplay, BgIdle, NoEdit, Event
<1>3. events \in Nat /\ disk.manifest.lastSeq \in Nat
  BY DEF LogsPart, LogsOK
<1>4. LogsOK'
  <2>1. \A n \in DOMAIN disk'.logs : GoodLog(disk'.logs[n])
    BY <1>1 DEF LogIsCut
  <2> QED
    BY <1>1, <1>2, <1>3, <2>1 DEF LogsOK, GoodLog
<1>5. LogNumbersUsed' /\ PassedOver'
  BY <1>1, <1>2 DEF LogsPart, LogNumbersUsed, PassedOver
<1> QED
  BY <1>4, <1>5 DEF LogsPart

-----------------------------------------------------------------------------
(* The group of the first writer is in the log. *)

\* A record that is in a log stays in it, at its place.
LEMMA RecordStays ==
    ASSUME NEW l, NEW k, GoodLog(l), LogGrows(l, k), NEW r
    PROVE  /\ HasRecord(l, Len(l.records), r) => HasRecord(k, Len(k.records), r)
           /\ HasRecord(l, l.synced, r) => HasRecord(k, k.synced, r)
<1>1. /\ Len(l.records) \in Nat /\ Len(k.records) \in Nat /\ l.synced \in Nat /\ k.synced \in Nat
      /\ Len(l.records) <= Len(k.records) /\ l.synced <= k.synced /\ l.synced <= Len(l.records)
      /\ \A i \in 1..Len(l.records) : k.records[i] = l.records[i]
  BY LenProperties DEF GoodLog, LogGrows
<1>2. ASSUME HasRecord(l, Len(l.records), r) PROVE HasRecord(k, Len(k.records), r)
  <2>1. PICK i \in 1..Len(l.records) : l.records[i] = r
    BY <1>2 DEF HasRecord
  <2>2. i \in 1..Len(k.records) /\ k.records[i] = r
    BY <1>1, <2>1
  <2> QED
    BY <2>2 DEF HasRecord
<1>3. ASSUME HasRecord(l, l.synced, r) PROVE HasRecord(k, k.synced, r)
  <2>1. PICK i \in 1..l.synced : l.records[i] = r
    BY <1>3 DEF HasRecord
  <2>2. i \in 1..k.synced /\ k.records[i] = r
    BY <1>1, <2>1
  <2> QED
    BY <2>2 DEF HasRecord
<1> QED
  BY <1>2, <1>3

\* A group that is there stays as it is while no writer begins with it or goes on.
LEMMA GroupStays ==
    ASSUME FirstIsBusy, LogsOK, GroupIsLogged, UNCHANGED group, db'.log = db.log,
           \A w \in Writers : Busy(w)' => /\ Busy(w) /\ writer'[w].pc = writer[w].pc
                                          /\ writer'[w].sync = writer[w].sync,
           \A w \in Writers : Busy(w)' =>
               /\ db.log \in DOMAIN disk.logs
               /\ LogGrows(disk.logs[db.log], disk'.logs[db.log])
    PROVE  GroupIsLogged'
<1>1. group.batches \in Seq(HistoryBatches)
  BY DEF GroupIsLogged
<1>2. ASSUME NEW w \in Writers, Busy(w)', writer[w].pc # "append"
      PROVE  LET l == disk'.logs[group.log]
             IN  HasRecord(l, IF writer[w].sync /\ writer[w].pc # "sync" /\ ~group.failed
                              THEN l.synced ELSE Len(l.records), GroupRecord)
  <2>1. Busy(w) /\ group.log = db.log /\ db.log \in DOMAIN disk.logs
        /\ LogGrows(disk.logs[db.log], disk'.logs[db.log])
    BY <1>2 DEF GroupIsLogged
  <2> DEFINE l == disk.logs[group.log]
             k == disk'.logs[group.log]
             c == writer[w].sync /\ writer[w].pc # "sync" /\ ~group.failed
  <2>2. GoodLog(l) /\ LogGrows(l, k)
    BY <2>1, LogsAreGood
  <2>3. HasRecord(l, IF c THEN l.synced ELSE Len(l.records), GroupRecord)
    BY <1>2, <2>1 DEF GroupIsLogged
  <2>4. /\ HasRecord(l, Len(l.records), GroupRecord) => HasRecord(k, Len(k.records), GroupRecord)
        /\ HasRecord(l, l.synced, GroupRecord) => HasRecord(k, k.synced, GroupRecord)
    BY <2>2, RecordStays
  <2> HIDE DEF l, k
  <2>5. HasRecord(k, IF c THEN k.synced ELSE Len(k.records), GroupRecord)
    BY <2>3, <2>4
  <2> QED
    BY <2>5 DEF k
<1>3. ASSUME NEW w \in Writers, Busy(w)'
      PROVE  /\ group.log = db.log /\ GroupRecord \in LogRecords
             /\ \A i \in DOMAIN group.batches :
                  /\ group.batches[i].log = group.log
                  /\ group.batches[i].seq \in group.seq..group.seq + Len(GroupOps) - 1
                  /\ group.batches[i].sync => writer'[w].sync
  BY <1>3 DEF GroupIsLogged
<1>4. GroupOps' = GroupOps /\ GroupRecord' = GroupRecord
  BY DEF GroupOps, GroupRecord
<1>5. ASSUME NEW w \in Writers, Busy(w)', writer'[w].pc # "append"
      PROVE  LET l == disk'.logs[group.log]
             IN  HasRecord(l, IF writer'[w].sync /\ writer'[w].pc # "sync" /\ ~group.failed
                              THEN l.synced ELSE Len(l.records), GroupRecord)
  BY <1>2, <1>5
<1> QED
  BY <1>1, <1>3, <1>4, <1>5 DEF GroupIsLogged, HasRecord

\* The first writer goes on with its group, whose record is then in the log.
LEMMA GroupGoesOn ==
    ASSUME FirstIsBusy, GroupIsLogged, NEW w \in Writers, queue # <<>>, Head(queue) = w, Busy(w),
           group'.batches = group.batches, group'.log = group.log, group'.seq = group.seq,
           db'.log = db.log, writer'[w].sync = writer[w].sync,
           \A v \in Writers \ {w} : writer'[v] = writer[v],
           LET l == disk'.logs[group.log]
           IN  HasRecord(l, IF writer[w].sync /\ writer'[w].pc # "sync" /\ ~group'.failed
                            THEN l.synced ELSE Len(l.records), GroupRecord)
    PROVE  GroupIsLogged'
<1>1. \A v \in Writers : Busy(v)' => v = w
  BY OnlyFirstIsBusy DEF Busy
<1>2. GroupOps' = GroupOps /\ GroupRecord' = GroupRecord
  BY DEF GroupOps, GroupRecord
<1>3. /\ group.batches \in Seq(HistoryBatches)
      /\ group.log = db.log /\ GroupRecord \in LogRecords
      /\ \A i \in DOMAIN group.batches :
             /\ group.batches[i].log = group.log
             /\ group.batches[i].seq \in group.seq..group.seq + Len(GroupOps) - 1
             /\ group.batches[i].sync => writer[w].sync
  BY DEF GroupIsLogged
<1>4. HasRecord(disk.logs[group.log], IF writer[w].sync /\ writer[w].pc # "sync" /\ ~group.failed
                   THEN disk.logs[group.log].synced ELSE Len(disk.logs[group.log].records), GroupRecord)'
      <=> HasRecord(disk'.logs[group.log],
                    IF writer[w].sync /\ writer'[w].pc # "sync" /\ ~group'.failed
                    THEN disk'.logs[group.log].synced ELSE Len(disk'.logs[group.log].records),
                    GroupRecord)
  BY <1>2 DEF HasRecord
<1> QED
  BY <1>1, <1>2, <1>3, <1>4 DEF GroupIsLogged

\* Where no writer is busy, the group may be any that was.
LEMMA NoGroupIsLogged ==
    ASSUME group'.batches \in Seq(HistoryBatches), \A w \in Writers : ~Busy(w)'
    PROVE  GroupIsLogged'
BY DEF GroupIsLogged

\* A batch of the group that asks for sync is one for which the first writer asks, too.
LEMMA GroupAsks ==
    ASSUME queue \in Seq(Writers), queue # <<>>, NEW i \in 1..GroupLength,
           writer[queue[i]].sync
    PROVE  writer[queue[1]].sync
<1> DEFINE Size(n) == Len(FlattenSeq([j \in 1..n |-> writer[queue[j]].ops]))
           T == {n \in 1..Len(queue) : \A j \in 2..n :
                     Size(j) <= MaxGroupSize /\ (writer[queue[j]].sync => writer[queue[1]].sync)}
<1>1. GroupLength = Max(T)
  BY DEF GroupLength
<1>2. Len(queue) \in Nat /\ Len(queue) >= 1
  BY EmptySeq, LenProperties
<1> HIDE DEF Size
<1>3. 1 \in T
  BY <1>2
<1>4. T \in SUBSET Nat /\ \A n \in T : n <= Len(queue)
  BY <1>2
<1>5. \A n \in T : n \in Nat /\ \A j \in 2..n : writer[queue[j]].sync => writer[queue[1]].sync
  BY <1>2
<1> HIDE DEF T
<1>6. Max(T) \in T
  BY <1>2, <1>3, <1>4, MaxIsGreatest
<1>7. GroupLength \in Nat
      /\ \A j \in 2..GroupLength : writer[queue[j]].sync => writer[queue[1]].sync
  BY <1>1, <1>5, <1>6
<1>8. i = 1 \/ i \in 2..GroupLength
  BY <1>7
<1> QED
  BY <1>7, <1>8

\* A new group: its batches are numbered one after the other, from the next sequence
\* number on, and each begins within the record.
LEMMA GroupBegins ==
    ASSUME Shape, NothingBeforeOpen, FirstIsBusy, QueueOK, LogsOK, LogsExist', NEW w \in Writers,
           BeginWrite(w)
    PROVE  GroupIsLogged'
<1>0. /\ queue \in Seq(Writers) /\ DOMAIN writer = Writers /\ db.lastSeq \in Nat
      /\ \A v \in Writers : DOMAIN writer[v] = {"pc", "ops", "sync"}
  BY Fields DEF Shape, FirstIsBusy, LogsOK
<1> DEFINE n == GroupLength
           seqs == [i \in 1..n |-> db.lastSeq + 1
                    + Len(FlattenSeq([j \in 1..i - 1 |-> writer[queue[j]].ops]))]
           f == [i \in 1..Len(queue) |-> writer[queue[i]].ops]
<1>1. /\ queue # <<>> /\ Head(queue) = w /\ db.up = "open" /\ writer[w].pc = "queued"
      /\ writer' = [writer EXCEPT ![w].pc = "append"]
  BY DEF BeginWrite, AtFront, Open
<1>2. PICK g : g = group'
  OBVIOUS
<1>3. PICK d : d = db'
  OBVIOUS
<1>4. g = [batches |-> [i \in 1..n |-> [ops |-> writer[queue[i]].ops,
               sync |-> writer[queue[i]].sync, seq |-> seqs[i], log |-> d.log]],
           seq |-> db.lastSeq + 1, log |-> d.log, failed |-> FALSE]
  BY <1>2, <1>3 DEF BeginWrite
<1>5. d.up = "open" /\ d.log \in Nat
  <2>1. WriterEffect(w)
    BY WriterDoes DEF WriterStep
  <2>2. d.up = "open"
    BY <1>1, <1>3, <2>1 DEF WriterEffect
  <2>3. d.log \in Below(d.nextFile)
    BY <1>3, <2>2 DEF LogsExist
  <2> QED
    BY <2>2, <2>3 DEF Below
<1>6. /\ n \in 1..Len(queue) /\ Len(queue) \in Nat /\ queue[1] = w /\ n \in Nat
  BY <1>0, <1>1, GroupHasFirst, QueueSteps, LenProperties
<1>7. \A i \in 1..Len(queue) : /\ f[i] = writer[queue[i]].ops /\ f[i] \in Seq(Operations) \ {<<>>}
                               /\ writer[queue[i]].sync \in BOOLEAN
  BY <1>0, LenProperties DEF QueueOK
<1> HIDE DEF n, f
<1>8. /\ \A i \in 0..Len(queue) : Joined(f, i) \in Seq(Operations)
      /\ \A k \in 1..Len(queue) : \A i \in 1..k : Len(Joined(f, i - 1)) < Len(Joined(f, k))
  BY <1>6, <1>7, JoinedGrows
<1>9. \A i \in 1..n : i \in 1..Len(queue) /\ i - 1 \in 0..Len(queue)
  BY <1>6
<1>10. \A i \in 1..n : seqs[i] = db.lastSeq + 1 + Len(Joined(f, i - 1))
  <2> TAKE i \in 1..n
  <2>1. \A j \in 1..i - 1 : j \in 1..Len(queue)
    BY <1>6, <1>9
  <2>2. [j \in 1..i - 1 |-> writer[queue[j]].ops] = [j \in 1..i - 1 |-> f[j]]
    BY <1>7, <2>1
  <2> QED
    BY <2>2 DEF Joined
<1>11. \A i \in 1..n : /\ Len(Joined(f, i - 1)) \in Nat /\ Len(Joined(f, n)) \in Nat
                       /\ Len(Joined(f, i - 1)) < Len(Joined(f, n))
  <2> TAKE i \in 1..n
  <2>1. Joined(f, i - 1) \in Seq(Operations) /\ Joined(f, n) \in Seq(Operations)
    BY <1>6, <1>8, <1>9
  <2> QED
    BY <1>6, <1>8, <2>1, LenProperties
<1> HIDE DEF seqs
<1>12. /\ DOMAIN g.batches = 1..n /\ g.seq = db.lastSeq + 1 /\ g.log = d.log
       /\ \A i \in 1..n :
              /\ g.batches[i] = [ops |-> f[i], sync |-> writer[queue[i]].sync,
                                 seq |-> seqs[i], log |-> d.log]
              /\ g.batches[i].ops = f[i] /\ g.batches[i].sync = writer[queue[i]].sync
              /\ g.batches[i].seq = seqs[i] /\ g.batches[i].log = d.log
  <2>1. \A i \in 1..n : f[i] = writer[queue[i]].ops
    BY <1>7, <1>9
  <2>2. DOMAIN g.batches = 1..n /\ g.seq = db.lastSeq + 1 /\ g.log = d.log
    BY <1>4
  <2>3. ASSUME NEW i \in 1..n
        PROVE  /\ g.batches[i] = [ops |-> f[i], sync |-> writer[queue[i]].sync,
                                 seq |-> seqs[i], log |-> d.log]
               /\ g.batches[i].ops = f[i] /\ g.batches[i].sync = writer[queue[i]].sync
               /\ g.batches[i].seq = seqs[i] /\ g.batches[i].log = d.log
    <3>1. g.batches[i] = [ops |-> writer[queue[i]].ops, sync |-> writer[queue[i]].sync,
                          seq |-> seqs[i], log |-> d.log]
      BY <1>4
    <3> QED
      BY <2>1, <3>1
  <2> QED
    BY <2>2, <2>3
<1>13. ASSUME NEW i \in 1..n
       PROVE  seqs[i] \in Nat /\ seqs[i] \in db.lastSeq + 1..db.lastSeq + 1 + Len(Joined(f, n)) - 1
  <2> DEFINE a == Len(Joined(f, i - 1))
             b == Len(Joined(f, n))
  <2>1. a \in Nat /\ b \in Nat /\ a < b /\ seqs[i] = db.lastSeq + 1 + a
    BY <1>10, <1>11
  <2> HIDE DEF a, b
  <2>2. seqs[i] \in Nat /\ seqs[i] \in db.lastSeq + 1..db.lastSeq + 1 + b - 1
    BY <1>0, <2>1
  <2> QED
    BY <2>2 DEF b
<1>14. g.batches \in Seq(HistoryBatches)
  <2>1. ASSUME NEW i \in 1..n PROVE g.batches[i] \in HistoryBatches
    <3>1. /\ f[i] \in Seq(Operations) /\ writer[queue[i]].sync \in BOOLEAN /\ seqs[i] \in Nat
      BY <1>7, <1>9, <1>13
    <3>2. g.batches[i] = [ops |-> f[i], sync |-> writer[queue[i]].sync,
                          seq |-> seqs[i], log |-> d.log]
      BY <1>12
    <3> QED
      BY <1>5, <3>1, <3>2 DEF HistoryBatches
  <2>2. g.batches = [i \in 1..n |-> g.batches[i]]
    BY <1>4
  <2> QED
    BY <1>6, <2>1, <2>2
<1>15. GroupOps' = Joined(f, n)
  <2>1. [i \in DOMAIN g.batches |-> g.batches[i].ops] = [i \in 1..n |-> f[i]]
    BY <1>12
  <2>2. GroupOps' = FlattenSeq([i \in DOMAIN g.batches |-> g.batches[i].ops])
    BY <1>2 DEF GroupOps
  <2> QED
    BY <2>1, <2>2 DEF Joined
<1>16. GroupRecord' \in LogRecords
  <2>1. Joined(f, n) \in Seq(Operations)
    BY <1>6, <1>8
  <2>2. GroupRecord' = [seq |-> g.seq, ops |-> Joined(f, n)]
    BY <1>2, <1>15 DEF GroupRecord
  <2> QED
    BY <1>0, <1>12, <2>1, <2>2 DEF LogRecords
<1>17. /\ \A v \in Writers : Busy(v)' => v = w
       /\ writer'[w].pc = "append" /\ writer'[w].sync = writer[w].sync
  <2>1. /\ writer'[w].pc = "append" /\ writer'[w].sync = writer[w].sync
        /\ \A v \in Writers \ {w} : writer'[v] = writer[v]
    BY <1>0, <1>1
  <2>2. \A v \in Writers \ {w} : ~Busy(v)
    BY <1>1, OnlyFirstIsBusy
  <2> QED
    BY <2>1, <2>2 DEF Busy
<1>18. \A i \in 1..n : writer[queue[i]].sync => writer[w].sync
  BY <1>0, <1>1, <1>6, GroupAsks DEF n
<1>19. \A i \in DOMAIN group'.batches :
           /\ group'.batches[i].log = group'.log
           /\ group'.batches[i].seq \in group'.seq..group'.seq + Len(GroupOps') - 1
           /\ group'.batches[i].sync => writer'[w].sync
  <2>1. \A i \in DOMAIN g.batches :
           /\ g.batches[i].log = g.log
           /\ g.batches[i].seq \in g.seq..g.seq + Len(Joined(f, n)) - 1
           /\ g.batches[i].sync => writer[w].sync
    <3> SUFFICES ASSUME NEW i \in 1..n
                 PROVE  /\ g.batches[i].log = g.log
                        /\ g.batches[i].seq \in g.seq..g.seq + Len(Joined(f, n)) - 1
                        /\ g.batches[i].sync => writer[w].sync
      BY <1>12
    <3>1. seqs[i] \in db.lastSeq + 1..db.lastSeq + 1 + Len(Joined(f, n)) - 1
      BY <1>13
    <3> QED
      BY <1>12, <1>18, <3>1
  <2> QED
    BY <1>2, <1>15, <1>17, <2>1
<1>20. group'.batches \in Seq(HistoryBatches) /\ group'.log = db'.log
  BY <1>2, <1>3, <1>12, <1>14
<1> QED
  BY <1>16, <1>17, <1>19, <1>20 DEF GroupIsLogged

\* The steps of the writers: the record of the group comes into the log before the
\* group is published, and is synced if one of its writers asked for it.
LEMMA GroupWriter ==
    ASSUME Shape, NothingBeforeOpen, NamesFiles, FirstIsBusy, LogsExist, LogsExist', QueueOK,
           LogsPart, GroupIsLogged,
           NEW w \in Writers, WriterStep(w) \/ \E b \in Batches : Write(w, b)
    PROVE  GroupIsLogged'
<1>0. /\ DOMAIN writer = Writers /\ \A v \in Writers : DOMAIN writer[v] = {"pc", "ops", "sync"}
      /\ DOMAIN disk = {"tables", "logs", "manifest"} /\ DOMAIN db = DOMAIN Closed
      /\ DOMAIN group = {"batches", "seq", "log", "failed"}
      /\ group.batches \in Seq(HistoryBatches) /\ queue \in Seq(Writers)
  BY Fields DEF Shape, GroupIsLogged, FirstIsBusy, NoGroup
<1>1. ASSUME UNCHANGED <<disk, db, group>>, \A v \in Writers \ {w} : writer'[v] = writer[v], ~Busy(w)'
      PROVE  GroupIsLogged'
  <2>1. \A v \in Writers : Busy(v)' => /\ Busy(v) /\ writer'[v].pc = writer[v].pc
                                       /\ writer'[v].sync = writer[v].sync
    BY <1>1 DEF Busy
  <2>2. \A v \in Writers : Busy(v)' => /\ db.log \in DOMAIN disk.logs
                                       /\ LogGrows(disk.logs[db.log], disk'.logs[db.log])
    <3>1. \A v \in Writers : Busy(v) => db.up = "open"
      BY DEF NothingBeforeOpen, Busy
    <3>2. db.up = "open" => db.log \in DOMAIN disk.logs
      BY DEF LogsExist
    <3> QED
      BY <1>1, <2>1, <3>1, <3>2, LogsAreGood DEF LogsPart
  <2> QED
    BY <1>1, <2>1, <2>2, GroupStays DEF LogsPart
<1>2. ASSUME NEW b \in Batches, Write(w, b) PROVE GroupIsLogged'
  <2>1. /\ UNCHANGED <<disk, db, group>> /\ writer'[w].pc = "queued"
        /\ \A v \in Writers \ {w} : writer'[v] = writer[v]
    BY <1>0, <1>2 DEF Write
  <2> QED
    BY <1>1, <2>1 DEF Busy
<1>3. CASE WaitForRoom(w)
  <2>1. /\ UNCHANGED <<disk, db, group>> /\ writer'[w].pc = "waiting"
        /\ \A v \in Writers \ {w} : writer'[v] = writer[v]
    BY <1>0, <1>3 DEF WaitForRoom
  <2> QED
    BY <1>1, <2>1 DEF Busy
<1>4. CASE NoRoom(w)
  <2>1. /\ UNCHANGED <<disk, db, group>> /\ writer'[w].pc = "idle"
        /\ \A v \in Writers \ {w} : writer'[v] = writer[v]
    BY <1>0, <1>4 DEF NoRoom, Idle
  <2> QED
    BY <1>1, <2>1 DEF Busy
<1>5. CASE BeginWrite(w)
  BY <1>5, GroupBegins DEF LogsPart
<1>6. ASSUME queue # <<>>, Head(queue) = w, Busy(w)
      PROVE  /\ db.log \in DOMAIN disk.logs /\ group.log = db.log
             /\ GoodLog(disk.logs[group.log]) /\ GroupRecord \in LogRecords
  <2>1. db.up = "open"
    BY <1>6 DEF NothingBeforeOpen, Busy
  <2>2. db.log \in DOMAIN disk.logs
    BY <2>1 DEF LogsExist
  <2> QED
    BY <1>6, <2>2, LogsAreGood DEF LogsPart, GroupIsLogged
<1>7. CASE AppendToLog(w)
  <2>1. /\ queue # <<>> /\ Head(queue) = w /\ UNCHANGED <<db, group>> /\ writer[w].pc = "append"
        /\ disk' = [disk EXCEPT !.logs[group.log].records = Append(@, GroupRecord)]
        /\ writer' = [writer EXCEPT ![w].pc = IF writer[w].sync THEN "sync" ELSE "insert"]
    BY <1>7 DEF AppendToLog, AtFront, GroupRecord
  <2>2. Busy(w)
    BY <2>1 DEF Busy
  <2>3. db.log \in DOMAIN disk.logs /\ group.log = db.log /\ GoodLog(disk.logs[group.log])
        /\ GroupRecord \in LogRecords
    BY <1>6, <2>1, <2>2
  <2> DEFINE l == disk.logs[group.log]
             k == disk'.logs[group.log]
  <2>4. k.records = Append(l.records, GroupRecord)
    <3>1. DOMAIN l = {"records", "synced"}
      BY <2>3 DEF GoodLog
    <3>2. k = [l EXCEPT !.records = Append(@, GroupRecord)]
      BY <1>0, <2>1, <2>3
    <3> HIDE DEF l, k
    <3> QED
      BY <3>1, <3>2
  <2>5. l.records \in Seq(LogRecords)
    BY <2>3 DEF GoodLog
  <2> HIDE DEF l, k
  <2>6. HasRecord(k, Len(k.records), GroupRecord)
    <3>1. Len(k.records) = Len(l.records) + 1 /\ k.records[Len(l.records) + 1] = GroupRecord
          /\ Len(l.records) \in Nat
      BY <2>3, <2>4, <2>5, AppendProperties, LenProperties
    <3>2. Len(k.records) \in 1..Len(k.records)
      BY <3>1
    <3> QED
      BY <3>1, <3>2 DEF HasRecord
  <2>7. /\ writer'[w].sync = writer[w].sync /\ \A v \in Writers \ {w} : writer'[v] = writer[v]
        /\ writer'[w].pc = IF writer[w].sync THEN "sync" ELSE "insert"
    BY <1>0, <2>1
  <2>8. HasRecord(k, IF writer[w].sync /\ writer'[w].pc # "sync" /\ ~group'.failed
                     THEN k.synced ELSE Len(k.records), GroupRecord)
    BY <2>6, <2>7
  <2> QED
    BY <2>1, <2>2, <2>7, <2>8, GroupGoesOn DEF k
<1>8. CASE Sync(w)
  <2>1. /\ queue # <<>> /\ Head(queue) = w /\ UNCHANGED <<db, group>> /\ writer[w].pc = "sync"
        /\ disk' = [disk EXCEPT !.logs[group.log].synced = Len(disk.logs[group.log].records)]
        /\ writer' = [writer EXCEPT ![w].pc = "insert"]
    BY <1>8 DEF Sync, AtFront
  <2>2. Busy(w) /\ writer[w].pc # "append"
    BY <2>1 DEF Busy
  <2>3. db.log \in DOMAIN disk.logs /\ group.log = db.log /\ GoodLog(disk.logs[group.log])
    BY <1>6, <2>1, <2>2
  <2> DEFINE l == disk.logs[group.log]
             k == disk'.logs[group.log]
  <2>4. HasRecord(l, Len(l.records), GroupRecord)
    BY <2>1, <2>2 DEF GroupIsLogged
  <2>5. k.records = l.records /\ k.synced = Len(l.records)
    <3>1. DOMAIN l = {"records", "synced"}
      BY <2>3 DEF GoodLog
    <3>2. k = [l EXCEPT !.synced = Len(l.records)]
      BY <1>0, <2>1, <2>3
    <3> HIDE DEF l, k
    <3> QED
      BY <3>1, <3>2
  <2> HIDE DEF l, k
  <2>6. HasRecord(k, IF writer[w].sync /\ writer'[w].pc # "sync" /\ ~group'.failed
                     THEN k.synced ELSE Len(k.records), GroupRecord)
    BY <2>4, <2>5 DEF HasRecord
  <2>7. writer'[w].sync = writer[w].sync /\ \A v \in Writers \ {w} : writer'[v] = writer[v]
    BY <1>0, <2>1
  <2> QED
    BY <2>1, <2>2, <2>6, <2>7, GroupGoesOn DEF k
<1>9. ASSUME queue # <<>>, Head(queue) = w, Busy(w), writer[w].pc # "append", UNCHANGED disk,
             db'.log = db.log, writer' = [writer EXCEPT ![w].pc = "publish"],
             group' \in {group, [group EXCEPT !.failed = TRUE]},
             writer[w].pc = "sync" => group'.failed
      PROVE  GroupIsLogged'
  <2>1. /\ group'.batches = group.batches /\ group'.log = group.log /\ group'.seq = group.seq
        /\ group'.failed = group.failed \/ group'.failed = TRUE
    BY <1>0, <1>9
  <2>2. /\ writer'[w].sync = writer[w].sync /\ \A v \in Writers \ {w} : writer'[v] = writer[v]
        /\ writer'[w].pc = "publish"
    BY <1>0, <1>9
  <2> DEFINE l == disk.logs[group.log]
  <2>3. HasRecord(l, IF writer[w].sync /\ writer[w].pc # "sync" /\ ~group.failed
                     THEN l.synced ELSE Len(l.records), GroupRecord)
    BY <1>9 DEF GroupIsLogged
  <2>4. GoodLog(l)
    BY <1>6, <1>9
  <2> HIDE DEF l
  <2>5. HasRecord(l, l.synced, GroupRecord) => HasRecord(l, Len(l.records), GroupRecord)
    <3>1. l.synced \in Nat /\ l.records \in Seq(LogRecords) /\ l.synced <= Len(l.records)
      BY <2>4 DEF GoodLog
    <3>2. Len(l.records) \in Nat
      BY <3>1, LenProperties
    <3>3. \A i \in 1..l.synced : i \in 1..Len(l.records)
      BY <3>1, <3>2
    <3> QED
      BY <3>3 DEF HasRecord
  <2>6. HasRecord(l, IF writer[w].sync /\ writer'[w].pc # "sync" /\ ~group'.failed
                     THEN l.synced ELSE Len(l.records), GroupRecord)
    <3>1. writer[w].sync /\ writer'[w].pc # "sync" /\ ~group'.failed
              => writer[w].sync /\ writer[w].pc # "sync" /\ ~group.failed
      BY <1>9, <2>1
    <3> QED
      BY <2>3, <2>5, <3>1
  <2>7. l = disk'.logs[group.log]
    BY <1>9 DEF l
  <2> QED
    BY <1>9, <2>1, <2>2, <2>6, <2>7, GroupGoesOn
<1>10. CASE SyncFails(w)
  <2>1. /\ queue # <<>> /\ Head(queue) = w /\ writer[w].pc = "sync" /\ UNCHANGED <<disk, db>>
        /\ group' = [group EXCEPT !.failed = TRUE] /\ writer' = [writer EXCEPT ![w].pc = "publish"]
    BY <1>10 DEF SyncFails, AtFront
  <2>2. group'.failed
    BY <1>0, <2>1
  <2> QED
    BY <1>9, <2>1, <2>2 DEF Busy
<1>11. CASE InsertIntoMemTable(w)
  <2>1. /\ queue # <<>> /\ Head(queue) = w /\ writer[w].pc = "insert" /\ UNCHANGED <<disk, group>>
        /\ writer' = [writer EXCEPT ![w].pc = "publish"]
        /\ db' = [db EXCEPT !.memtables[group.log] = @ \cup InsertInto(GroupOps, group.seq)]
    BY <1>11 DEF InsertIntoMemTable, AtFront
  <2>2. db'.log = db.log
    BY <1>0, <2>1, Fields
  <2> QED
    BY <1>9, <2>1, <2>2 DEF Busy
<1>12. CASE Publish(w)
  <2> DEFINE n == Len(group.batches)
  <2>1. /\ queue # <<>> /\ Head(queue) = w /\ writer[w].pc = "publish"
        /\ writer' = [v \in Writers |-> IF \E i \in 1..n : queue[i] = v THEN Idle ELSE writer[v]]
        /\ group' \in {group, NoGroup}
    BY <1>12 DEF Publish, AtFront
  <2>2. n \in Nat \ {0}
    BY <2>1 DEF FirstIsBusy, Busy
  <2>3. 1 \in 1..n /\ queue[1] = w
    BY <1>0, <2>1, <2>2, QueueSteps
  <2> HIDE DEF n
  <2>4. writer'[w].pc = "idle" /\ \A v \in Writers : writer'[v].pc \in {"idle", writer[v].pc}
    BY <2>1, <2>3 DEF Idle
  <2>5. \A v \in Writers : ~Busy(v)'
    BY <2>1, <2>4, OnlyFirstIsBusy DEF Busy
  <2>6. group'.batches \in Seq(HistoryBatches)
    <3>1. CASE group' = group
      BY <3>1 DEF GroupIsLogged
    <3>2. CASE group' = NoGroup
      <4>1. NoGroup.batches = <<>> /\ <<>> \in Seq(HistoryBatches)
        BY EmptySeq DEF NoGroup
      <4> QED
        BY <3>2, <4>1
    <3> QED
      BY <2>1, <3>1, <3>2
  <2> QED
    BY <2>5, <2>6, NoGroupIsLogged
<1> QED
  BY <1>2, <1>3, <1>4, <1>5, <1>7, <1>8, <1>10, <1>11, <1>12 DEF WriterStep

\* Readers and the background thread leave the queue and the group as they are.
LEMMA OthersKeepGroup ==
    ASSUME Shape, NothingBeforeOpen, NamesFiles, FirstIsBusy, KeepsLogs, QueueOK, LogsPart,
           GroupIsLogged,
           \/ \E s \in Snapshots : GetSnapshot(s) \/ ReleaseSnapshot(s)
           \/ \E r \in Readers : BeginRead(r) \/ EndRead(r)
           \/ Background
    PROVE  QueueOK' /\ GroupIsLogged'
<1>0. LogsOK /\ LogsExist /\ DOMAIN disk = DOMAIN NewDisk
      /\ \A w \in Writers : DOMAIN writer[w] = DOMAIN Idle
  BY DEF LogsPart, KeepsLogs, Shape
<1>1. UNCHANGED <<queue, group>> /\ db'.log = db.log /\ (writer' = writer \/ writer' = Wake(writer))
  <2>1. CASE Background
    BY <2>1, BackgroundFrame
  <2>2. CASE ~Background
    <3>1. UNCHANGED <<queue, group, writer>> /\ \A x \in DOMAIN Closed \ {"scheduled", "seek", "snapshots"} : db'[x] = db[x]
      BY <2>2, ReaderDoes
    <3>2. "log" \in DOMAIN Closed \ {"scheduled", "seek", "snapshots"}
      BY DEF Closed
    <3> QED
      BY <3>1, <3>2
  <2> QED
    BY <2>1, <2>2
<1>2. ASSUME NEW w \in Writers
      PROVE  /\ writer'[w].ops = writer[w].ops /\ writer'[w].sync = writer[w].sync
             /\ writer'[w].pc = "idle" <=> writer[w].pc = "idle"
             /\ writer[w].pc = "queued" => writer'[w].pc = "queued"
             /\ Busy(w)' => writer'[w].pc = writer[w].pc
  <2>1. CASE writer' = writer
    BY <2>1
  <2>2. CASE writer' = Wake(writer)
    <3>1. writer'[w].ops = writer[w].ops /\ writer'[w].sync = writer[w].sync
      BY <2>2, WokenKeeps
    <3>2. writer'[w] = IF writer[w].pc = "waiting" THEN [writer[w] EXCEPT !.pc = "queued"]
                       ELSE writer[w]
      BY <2>2 DEF Wake
    <3>3. "pc" \in DOMAIN writer[w]
      BY <1>0 DEF Idle
    <3>4. writer'[w].pc = IF writer[w].pc = "waiting" THEN "queued" ELSE writer[w].pc
      BY <3>2, <3>3
    <3> QED
      BY <3>1, <3>4 DEF Busy
  <2> QED
    BY <1>1, <2>1, <2>2
<1>3. queue \in Seq(Writers)
  BY DEF FirstIsBusy
<1>4. QueueOK'
  BY <1>1, <1>2, <1>3, QueueKept
<1>5. ASSUME NEW w \in Writers, Busy(w)'
      PROVE  db.log \in DOMAIN disk.logs /\ LogGrows(disk.logs[db.log], disk'.logs[db.log])
  <2>1. writer[w].pc # "idle"
    BY <1>2, <1>5 DEF Busy
  <2>2. db.up = "open"
    BY <2>1 DEF NothingBeforeOpen
  <2>3. db.log \in DOMAIN disk.logs /\ db.logNumber \in 0..db.log
    BY <1>0, <2>2 DEF LogsExist
  <2>4. db.log \in LiveLogs
    BY <2>3 DEF LiveLogs
  <2>5. disk'.logs = disk.logs \/ disk'.logs = Restrict(disk.logs, LiveLogs)
    <3>1. CASE Background
      <4>1. BackgroundEffect
        BY <3>1, BackgroundDoes
      <4>2. disk' = ToManifest(bg.edit) => disk'.logs = disk.logs
        BY <1>0 DEF ToManifest, NewDisk
      <4> QED
        BY <4>1, <4>2 DEF BackgroundEffect
    <3>2. CASE ~Background
      BY <3>2, ReaderDoes
    <3> QED
      BY <3>1, <3>2
  <2>6. disk'.logs[db.log] = disk.logs[db.log]
    <3>1. Restrict(disk.logs, LiveLogs)[db.log] = disk.logs[db.log]
      BY <2>4 DEF Restrict
    <3> QED
      BY <2>5, <3>1
  <2> QED
    BY <1>0, <2>3, <2>6, LogsAreGood
<1>6. \A w \in Writers : Busy(w)' => Busy(w) /\ writer'[w].pc = writer[w].pc
                                     /\ writer'[w].sync = writer[w].sync
  BY <1>2 DEF Busy
<1>7. GroupIsLogged'
  BY <1>0, <1>1, <1>5, <1>6, GroupStays
<1> QED
  BY <1>4, <1>7

\* Before the database is open, and after a crash, nobody writes.
LEMMA OpeningKeepsGroup ==
    ASSUME Shape, NothingBeforeOpen, NamesFiles, LogsExist, QueueOK, LogsPart, GroupIsLogged,
           Opening
    PROVE  QueueOK' /\ GroupIsLogged'
<1>1. db.up # "open" /\ UNCHANGED <<queue, writer, group>>
  BY LogsPartOpening
<1>2. QueueOK'
  BY <1>1 DEF QueueOK
<1>3. \A w \in Writers : ~Busy(w)'
  BY <1>1 DEF Busy, NothingBeforeOpen
<1>4. group'.batches \in Seq(HistoryBatches)
  BY <1>1 DEF GroupIsLogged
<1> QED
  BY <1>2, <1>3, <1>4, NoGroupIsLogged

\* After a crash there is no group and nobody in the queue.
LEMMA CrashEndsGroup ==
    ASSUME Crash
    PROVE  QueueOK' /\ GroupIsLogged'
<1>1. queue' = <<>> /\ writer' = [w \in Writers |-> Idle] /\ group' = NoGroup
  BY DEF Crash
<1>2. \A w \in Writers : writer'[w].pc = "idle"
  BY <1>1 DEF Idle
<1>3. QueueOK'
  BY <1>1, <1>2 DEF QueueOK
<1>4. NoGroup.batches = <<>> /\ <<>> \in Seq(HistoryBatches)
  BY EmptySeq DEF NoGroup
<1>5. group'.batches \in Seq(HistoryBatches) /\ \A w \in Writers : ~Busy(w)'
  BY <1>1, <1>2, <1>4 DEF Busy
<1> QED
  BY <1>3, <1>5, NoGroupIsLogged

-----------------------------------------------------------------------------
(* The history is on the disk. *)

\* A batch stays in a log that grows.
LEMMA InLogStays ==
    ASSUME NEW b \in HistoryBatches, NEW l, NEW k, GoodLog(l), LogGrows(l, k), InLog(b, l)
    PROVE  InLog(b, k)
<1>1. /\ Len(l.records) \in Nat /\ Len(k.records) \in Nat /\ l.synced \in Nat /\ k.synced \in Nat
      /\ Len(l.records) <= Len(k.records) /\ l.synced <= k.synced /\ l.synced <= Len(l.records)
      /\ \A i \in 1..Len(l.records) : k.records[i] = l.records[i]
  BY LenProperties DEF GoodLog, LogGrows
<1>2. PICK i \in 1..IF b.sync THEN l.synced ELSE Len(l.records) :
           b.seq \in l.records[i].seq..l.records[i].seq + Len(l.records[i].ops) - 1
  BY DEF InLog
<1>3. i \in 1..Len(l.records) /\ i \in 1..IF b.sync THEN k.synced ELSE Len(k.records)
  BY <1>1, <1>2
<1>4. k.records[i] = l.records[i]
  BY <1>1, <1>3
<1> QED
  BY <1>2, <1>3, <1>4 DEF InLog

\* So does the history, while the logs that are not in tables are kept.
LEMMA DiskStays ==
    ASSUME NamesFiles, LogsPart, LogsPart', LogsKept
    PROVE  \A b \in HistoryBatches : OnDiskStill(b, disk) => OnDiskStill(b, disk')
<1>1. PICK k : k = disk'
  OBVIOUS
<1>2. /\ disk.manifest.flushed \in Nat /\ k.manifest.flushed \in Nat
      /\ disk.manifest.flushed <= k.manifest.flushed
      /\ \A n \in DOMAIN disk.logs : n < k.manifest.flushed
              \/ (n \in DOMAIN k.logs /\ LogGrows(disk.logs[n], k.logs[n]))
  BY <1>1 DEF LogsPart, PassedOver, LogsKept
<1>3. \A n \in DOMAIN disk.logs : GoodLog(disk.logs[n])
  BY LogsAreGood DEF LogsPart
<1>4. ASSUME NEW b \in HistoryBatches, OnDiskStill(b, disk) PROVE OnDiskStill(b, k)
  <2>1. b.log \in Nat
    BY DEF HistoryBatches
  <2>2. CASE b.log < disk.manifest.flushed
    BY <1>2, <2>1, <2>2 DEF OnDiskStill
  <2>3. CASE b.log \in DOMAIN disk.logs /\ InLog(b, disk.logs[b.log])
    <3>1. CASE b.log < k.manifest.flushed
      BY <3>1 DEF OnDiskStill
    <3>2. CASE b.log \in DOMAIN k.logs /\ LogGrows(disk.logs[b.log], k.logs[b.log])
      BY <1>3, <2>3, <3>2, InLogStays DEF OnDiskStill
    <3> QED
      BY <1>2, <2>3, <3>1, <3>2
  <2> QED
    BY <1>4, <2>2, <2>3 DEF OnDiskStill
<1> QED
  BY <1>1, <1>4

\* So the history that a step leaves alone is still on the disk.
LEMMA HistoryStays ==
    ASSUME NamesFiles, LogsPart, LogsPart', LogsKept, HistoryIsKept, UNCHANGED history
    PROVE  HistoryIsKept'
<1>1. PICK k : k = disk'
  OBVIOUS
<1>2. \A b \in HistoryBatches : OnDiskStill(b, disk) => OnDiskStill(b, k)
  BY <1>1, DiskStays
<1>3. history \in Seq(HistoryBatches) /\ \A i \in DOMAIN history : OnDiskStill(history[i], disk)
  BY DEF HistoryIsKept
<1>4. \A i \in DOMAIN history : history[i] \in HistoryBatches
  BY <1>3, ElementOfSeq
<1>5. \A i \in DOMAIN history : OnDiskStill(history[i], k)
  BY <1>2, <1>3, <1>4
<1> QED
  BY <1>1, <1>3, <1>5 DEF HistoryIsKept, OnDiskStill, InLog

\* Publish adds a group whose record is in the log, synced if a batch asked for it.
LEMMA HistoryPublished ==
    ASSUME Shape, NothingBeforeOpen, FirstIsBusy, LogsOK, LogsExist, GroupIsLogged, HistoryIsKept,
           NEW w \in Writers, Publish(w)
    PROVE  HistoryIsKept'
<1>1. /\ writer[w].pc = "publish" /\ disk' = disk
      /\ history' = IF group.failed THEN history ELSE history \o group.batches
  BY DEF Publish, AtFront
<1>2. Busy(w) /\ db.up = "open" /\ writer[w].pc # "append" /\ writer[w].pc # "sync"
  BY <1>1 DEF Busy, Publish, Open
<1>3. group.log = db.log /\ db.log \in DOMAIN disk.logs
  BY <1>2 DEF GroupIsLogged, LogsExist
<1> DEFINE l == disk.logs[group.log]
           g == group.batches
<1>4. GoodLog(l)
  BY <1>3, LogsAreGood
<1>5. Len(l.records) \in Nat /\ l.synced \in Nat /\ l.synced <= Len(l.records)
  BY <1>4, LenProperties DEF GoodLog
<1>6. HasRecord(l, IF writer[w].sync /\ ~group.failed THEN l.synced ELSE Len(l.records), GroupRecord)
  BY <1>2 DEF GroupIsLogged
<1>7. PICK j \in 1..IF writer[w].sync /\ ~group.failed THEN l.synced ELSE Len(l.records) :
           l.records[j] = GroupRecord
  BY <1>6 DEF HasRecord
<1>8. /\ g \in Seq(HistoryBatches)
      /\ \A i \in DOMAIN g : /\ g[i].log = group.log
                             /\ g[i].seq \in group.seq..group.seq + Len(GroupOps) - 1
                             /\ g[i].sync => writer[w].sync
  BY <1>2 DEF GroupIsLogged
<1>9. GroupRecord.seq = group.seq /\ GroupRecord.ops = GroupOps
  BY DEF GroupRecord
<1> HIDE DEF l, g
<1>10. ASSUME ~group.failed, NEW i \in DOMAIN g PROVE OnDiskStill(g[i], disk)
  <2>1. j \in 1..IF g[i].sync THEN l.synced ELSE Len(l.records)
    BY <1>5, <1>7, <1>8, <1>10
  <2>2. g[i].seq \in l.records[j].seq..l.records[j].seq + Len(l.records[j].ops) - 1
    BY <1>7, <1>8, <1>9
  <2>3. InLog(g[i], l)
    BY <2>1, <2>2 DEF InLog
  <2>4. g[i].log \in DOMAIN disk.logs /\ l = disk.logs[g[i].log]
    BY <1>3, <1>8 DEF l
  <2> QED
    BY <2>3, <2>4 DEF OnDiskStill
<1>11. history \in Seq(HistoryBatches) /\ \A i \in DOMAIN history : OnDiskStill(history[i], disk)
  BY DEF HistoryIsKept
<1>12. CASE group.failed
  BY <1>1, <1>11, <1>12 DEF HistoryIsKept, OnDiskStill, InLog
<1>13. CASE ~group.failed
  <2>1. PICK h : h = history'
    OBVIOUS
  <2>2. h = history \o g
    BY <1>1, <1>13, <2>1 DEF g
  <2>3. h \in Seq(HistoryBatches)
    BY <1>8, <1>11, <2>2
  <2>4. ASSUME NEW i \in DOMAIN h PROVE OnDiskStill(h[i], disk)
    <3>1. \/ h[i] = history[i] /\ i \in DOMAIN history
          \/ \E m \in DOMAIN g : h[i] = g[m]
      <4>1. Len(history) \in Nat /\ Len(g) \in Nat /\ DOMAIN history = 1..Len(history)
            /\ DOMAIN g = 1..Len(g)
        BY <1>8, <1>11, LenProperties
      <4>2. i \in 1..Len(history) + Len(g)
            /\ h[i] = IF i <= Len(history) THEN history[i] ELSE g[i - Len(history)]
        BY <1>8, <1>11, <2>2
      <4> QED
        BY <4>1, <4>2
    <3> QED
      BY <1>10, <1>11, <1>13, <3>1
  <2>5. disk' = disk
    BY <1>1
  <2> QED
    BY <2>1, <2>3, <2>4, <2>5 DEF HistoryIsKept, OnDiskStill, InLog
<1> QED
  BY <1>12, <1>13

-----------------------------------------------------------------------------
(* Crashes. *)

\* What was synced is not cut off.
LEMMA CutKeepsSynced ==
    ASSUME Shape, LogsOK, Crash
    PROVE  \A b \in HistoryBatches : b.sync /\ OnDiskStill(b, disk) => OnDiskStill(b, disk')
<1>1. PICK k : k = disk'
  OBVIOUS
<1>2. /\ k.manifest = disk.manifest /\ DOMAIN k.logs = DOMAIN disk.logs
      /\ \A n \in DOMAIN disk.logs : LogIsCut(disk.logs[n], k.logs[n])
  BY <1>1, CrashCuts
<1>3. ASSUME NEW b \in HistoryBatches, b.sync, OnDiskStill(b, disk) PROVE OnDiskStill(b, k)
  <2>1. CASE b.log < disk.manifest.flushed
    BY <1>2, <2>1 DEF OnDiskStill
  <2>2. CASE b.log \in DOMAIN disk.logs /\ InLog(b, disk.logs[b.log])
    <3> DEFINE l == disk.logs[b.log]
               c == k.logs[b.log]
    <3>1. GoodLog(l) /\ LogIsCut(l, c)
      BY <1>2, <2>2, LogsAreGood
    <3>2. InLog(b, l)
      BY <2>2
    <3> HIDE DEF l, c
    <3>3. PICK i \in 1..l.synced : b.seq \in l.records[i].seq..l.records[i].seq + Len(l.records[i].ops) - 1
      BY <1>3, <3>2 DEF InLog
    <3>4. /\ l.synced \in Nat /\ c.synced \in Nat /\ l.synced <= c.synced
          /\ c.synced <= Len(c.records) /\ Len(c.records) \in Nat
          /\ \A n \in 1..Len(c.records) : c.records[n] = l.records[n]
      BY <3>1, LenProperties DEF GoodLog, LogIsCut
    <3>5. i \in 1..c.synced /\ i \in 1..Len(c.records)
      BY <3>3, <3>4
    <3>6. c.records[i] = l.records[i]
      BY <3>4, <3>5
    <3>7. InLog(b, c)
      BY <1>3, <3>3, <3>5, <3>6 DEF InLog
    <3>8. b.log \in DOMAIN k.logs /\ InLog(b, k.logs[b.log])
      BY <1>2, <2>2, <3>7 DEF c
    <3> QED
      BY <3>8 DEF OnDiskStill
  <2> QED
    BY <1>3, <2>1, <2>2 DEF OnDiskStill
<1> QED
  BY <1>1, <1>3

\* What is on a disk a recovery finds, and what it finds that was not synced is there.
LEMMA StillIsRecoverable ==
    ASSUME NEW d, \A n \in DOMAIN d.logs : GoodLog(d.logs[n]), NEW b \in HistoryBatches
    PROVE  /\ OnDiskStill(b, d) => Recoverable(b, d)
           /\ ~b.sync /\ Recoverable(b, d) => OnDiskStill(b, d)
<1> DEFINE l == d.logs[b.log]
<1>1. ASSUME b.log \in DOMAIN d.logs
      PROVE  /\ l.synced \in Nat /\ l.synced <= Len(l.records) /\ Len(l.records) \in Nat
             /\ DOMAIN l.records = 1..Len(l.records)
             /\ \A i \in 1..Len(l.records) : /\ l.records[i].seq \in Nat
                                             /\ Len(l.records[i].ops) \in Nat
             /\ b.seq \in Nat
  <2>1. GoodLog(l) /\ b.seq \in Nat
    BY <1>1 DEF HistoryBatches
  <2> HIDE DEF l
  <2>2. l.records \in Seq(LogRecords) /\ l.synced \in Nat /\ l.synced <= Len(l.records)
    BY <2>1 DEF GoodLog
  <2>3. \A i \in 1..Len(l.records) : l.records[i] \in LogRecords
    BY <2>2, ElementOfSeq
  <2>4. ASSUME NEW i \in 1..Len(l.records)
        PROVE  l.records[i].seq \in Nat /\ Len(l.records[i].ops) \in Nat
    <3>1. l.records[i].seq \in Nat /\ l.records[i].ops \in Seq(Operations)
      BY <2>3 DEF LogRecords
    <3> QED
      BY <3>1, LenProperties
  <2> QED
    BY <2>1, <2>2, <2>4, LenProperties
<1>2. ASSUME OnDiskStill(b, d) PROVE Recoverable(b, d)
  <2>1. CASE b.log < d.manifest.flushed
    BY <2>1 DEF Recoverable
  <2>2. CASE b.log \in DOMAIN d.logs /\ InLog(b, l)
    <3>1. PICK i \in 1..IF b.sync THEN l.synced ELSE Len(l.records) :
               b.seq \in l.records[i].seq..l.records[i].seq + Len(l.records[i].ops) - 1
      BY <2>2 DEF InLog
    <3> HIDE DEF l
    <3>2. i \in 1..Len(l.records)
      BY <1>1, <2>2, <3>1
    <3> DEFINE r == l.records[i]
    <3>3. r \in ToSet(l.records)
      BY <1>1, <2>2, <3>2 DEF ToSet
    <3>4. r.seq <= b.seq /\ b.seq < r.seq + Len(r.ops)
      BY <1>1, <2>2, <3>1, <3>2
    <3> HIDE DEF r
    <3>5. \E x \in ToSet(l.records) : x.seq <= b.seq /\ b.seq < x.seq + Len(x.ops)
      BY <3>3, <3>4
    <3> QED
      BY <2>2, <3>5 DEF Recoverable, l
  <2> QED
    BY <1>2, <2>1, <2>2 DEF OnDiskStill
<1>3. ASSUME ~b.sync, Recoverable(b, d) PROVE OnDiskStill(b, d)
  <2>1. CASE b.log < d.manifest.flushed
    BY <2>1 DEF OnDiskStill
  <2>2. CASE b.log \in DOMAIN d.logs /\ \E r \in ToSet(l.records) :
                 r.seq <= b.seq /\ b.seq < r.seq + Len(r.ops)
    <3>1. PICK r \in ToSet(l.records) : r.seq <= b.seq /\ b.seq < r.seq + Len(r.ops)
      BY <2>2
    <3> HIDE DEF l
    <3>2. PICK i \in 1..Len(l.records) : l.records[i] = r
      BY <1>1, <2>2 DEF ToSet
    <3>3. b.seq \in l.records[i].seq..l.records[i].seq + Len(l.records[i].ops) - 1
      <4>1. b.seq \in Nat /\ r.seq \in Nat /\ Len(r.ops) \in Nat
        BY <1>1, <2>2, <3>2
      <4> QED
        BY <3>1, <3>2, <4>1
    <3>4. InLog(b, l)
      BY <1>3, <3>2, <3>3 DEF InLog
    <3> QED
      BY <2>2, <3>4 DEF OnDiskStill, l
  <2> QED
    BY <1>3, <2>1, <2>2 DEF Recoverable
<1> QED
  BY <1>2, <1>3

\* The batches that a crash may leave behind: the history, and the group that is being
\* written, which asked for nothing that was promised.
AtCrash == history \o [i \in DOMAIN group.batches |-> [group.batches[i] EXCEPT !.sync = FALSE]]

\* They are the history and, after it, batches that nothing was promised of.
LEMMA AtCrashIs ==
    ASSUME history \in Seq(HistoryBatches), group.batches \in Seq(HistoryBatches)
    PROVE  /\ AtCrash \in Seq(HistoryBatches) /\ Len(history) \in 0..Len(AtCrash)
           /\ \A i \in DOMAIN history : i \in DOMAIN AtCrash /\ AtCrash[i] = history[i]
           /\ \A i \in DOMAIN AtCrash : \/ ~AtCrash[i].sync
                                        \/ i \in DOMAIN history /\ AtCrash[i] = history[i]
<1> DEFINE g == group.batches
           u == [i \in DOMAIN g |-> [g[i] EXCEPT !.sync = FALSE]]
           n == Len(history)
           m == Len(g)
<1>1. n \in Nat /\ m \in Nat /\ DOMAIN history = 1..n /\ DOMAIN g = 1..m
      /\ \A i \in 1..m : g[i] \in HistoryBatches
      /\ n = Len(history)
  BY LenProperties, ElementOfSeq
<1>2. AtCrash = history \o u
  BY DEF AtCrash
<1> HIDE DEF g, n, m
<1>3. \A i \in 1..m : u[i] \in HistoryBatches /\ ~u[i].sync
  BY <1>1 DEF HistoryBatches
<1> HIDE DEF u
<1>4. u \in Seq(HistoryBatches) /\ Len(u) = m
  <2>1. u = [i \in 1..m |-> u[i]]
    BY <1>1 DEF u
  <2> QED
    BY <1>1, <1>3, <2>1
<1>5. AtCrash \in Seq(HistoryBatches)
  BY <1>2, <1>4
<1>6. /\ DOMAIN AtCrash = 1..n + m /\ Len(AtCrash) = n + m
      /\ \A i \in 1..n + m : AtCrash[i] = IF i <= n THEN history[i] ELSE u[i - n]
  <2>1. PICK h : h = history
    OBVIOUS
  <2>2. PICK a : a = AtCrash
    OBVIOUS
  <2>3. a = h \o u /\ h \in Seq(HistoryBatches) /\ n = Len(h)
    BY <1>1, <1>2, <2>1, <2>2
  <2>4. DOMAIN a = 1..n + m /\ Len(a) = n + m
        /\ \A i \in 1..n + m : a[i] = IF i <= n THEN h[i] ELSE u[i - n]
    <3>1. /\ h \in Seq(HistoryBatches) /\ u \in Seq(HistoryBatches) /\ a = h \o u
          /\ n = Len(h) /\ m = Len(u) /\ n \in Nat /\ m \in Nat
      BY <1>1, <1>4, <2>3
    <3> QED
      BY <3>1, ConcatProperties
  <2> QED
    BY <2>1, <2>2, <2>4
<1>7. ASSUME NEW i \in DOMAIN AtCrash
      PROVE  ~AtCrash[i].sync \/ (i \in DOMAIN history /\ AtCrash[i] = history[i])
  <2>1. CASE i <= n
    BY <1>1, <1>6, <2>1
  <2>2. CASE ~(i <= n)
    <3>1. i - n \in 1..m /\ AtCrash[i] = u[i - n]
      BY <1>1, <1>6, <2>2
    <3> QED
      BY <1>3, <3>1
  <2> QED
    BY <2>1, <2>2
<1>8. \A i \in DOMAIN history : i \in DOMAIN AtCrash /\ AtCrash[i] = history[i]
  BY <1>1, <1>6
<1>9. n \in 0..Len(AtCrash)
  BY <1>1, <1>6
<1> QED
  BY <1>5, <1>7, <1>8, <1>9 DEF n

\* What a recovery will find is the history after a crash, and kept as before.
LEMMA HistoryCrash ==
    ASSUME Shape, LogsOK, LogsPart', GroupIsLogged, HistoryIsKept, Crash
    PROVE  HistoryIsKept'
<1>1. PICK k : k = disk'
  OBVIOUS
<1>2. history' = Recovered(AtCrash, k)
  BY <1>1 DEF Crash, AtCrash
<1>3. /\ history \in Seq(HistoryBatches) /\ group.batches \in Seq(HistoryBatches)
      /\ \A i \in DOMAIN history : OnDiskStill(history[i], disk)
  BY DEF HistoryIsKept, GroupIsLogged
<1>4. \A b \in HistoryBatches : b.sync /\ OnDiskStill(b, disk) => OnDiskStill(b, k)
  BY <1>1, CutKeepsSynced
<1>5. \A n \in DOMAIN k.logs : GoodLog(k.logs[n])
  BY <1>1 DEF LogsPart, LogsOK, GoodLog
<1> DEFINE S == {b \in HistoryBatches : b.sync => OnDiskStill(b, k)}
<1>6. PICK s : s = AtCrash
  OBVIOUS
<1>7. s \in Seq(S)
  <2>1. s \in Seq(HistoryBatches) /\ Len(s) \in Nat /\ DOMAIN s = 1..Len(s)
    BY <1>3, <1>6, AtCrashIs, LenProperties
  <2>2. ASSUME NEW i \in 1..Len(s) PROVE s[i] \in S
    <3>1. s[i] \in HistoryBatches
      BY <2>1, ElementOfSeq
    <3>2. ~s[i].sync \/ (i \in DOMAIN history /\ s[i] = history[i])
      BY <1>3, <1>6, <2>1, AtCrashIs
    <3> QED
      BY <1>3, <1>4, <3>1, <3>2
  <2> HIDE DEF S
  <2> QED
    BY <2>1, <2>2
<1>8. PICK r : r = Recovered(s, k)
  OBVIOUS
<1>9. r \in Seq(S) /\ \A m \in DOMAIN r : Recoverable(r[m], k)
  <2> HIDE DEF S
  <2>1. 0 \in 0..Len(s)
    BY <1>7, LenProperties
  <2> QED
    BY <1>7, <1>8, <2>1, RecoveredFinds
<1>10. \A m \in DOMAIN r : r[m] \in S
  <2> HIDE DEF S
  <2> QED
    BY <1>9, ElementOfSeq
<1>11. \A m \in DOMAIN r : OnDiskStill(r[m], k)
  BY <1>5, <1>9, <1>10, StillIsRecoverable
<1>12. r \in Seq(HistoryBatches)
  BY <1>9, <1>10, LenProperties
<1>13. r = history'
  BY <1>2, <1>6, <1>8
<1> QED
  BY <1>1, <1>11, <1>12, <1>13 DEF HistoryIsKept, OnDiskStill, InLog

-----------------------------------------------------------------------------
(* The invariant, and what follows. *)

\* Only Publish adds to the history, and only a crash takes from it.
LEMMA HistoryOnly ==
    ASSUME Shape, NothingBeforeOpen, NamesFiles, LogsExist, KeepsLogs, LogsPart, Next, ~Crash
    PROVE  UNCHANGED history \/ (db'.up # "closed" /\ \E w \in Writers : Publish(w))
<1>1. ASSUME NEW w \in Writers, WriterStep(w) \/ \E b \in Batches : Write(w, b)
      PROVE  UNCHANGED history \/ (db'.up # "closed" /\ Publish(w))
  <2>1. CASE Publish(w)
    <3>1. /\ db.up = "open"
          /\ db' = [db EXCEPT !.lastSeq = @ + Len(GroupOps), !.bgError = @ \/ group.failed]
      BY <2>1 DEF Publish, Open
    <3>2. db'.up = "open"
      BY <3>1, Fields DEF Shape
    <3> QED
      BY <2>1, <3>2
  <2>2. CASE ~Publish(w)
    BY <1>1, <2>2 DEF WriterStep, Write, WaitForRoom, NoRoom, BeginWrite, AppendToLog, Sync,
                      SyncFails, InsertIntoMemTable
  <2> QED
    BY <2>1, <2>2
<1>2. CASE Background
  BY <1>2, BackgroundDoes DEF BackgroundEffect
<1>3. CASE Opening
  BY <1>3, LogsPartOpening
<1>4. CASE \/ \E s \in Snapshots : GetSnapshot(s) \/ ReleaseSnapshot(s)
           \/ \E r \in Readers : BeginRead(r) \/ EndRead(r)
  BY <1>4, ReaderDoes
<1> QED
  BY <1>1, <1>2, <1>3, <1>4 DEF Next

\* Every step keeps what a crash will find.
LEMMA CrashNext ==
    ASSUME CrashInv, LogsInv', [Next]_vars
    PROVE  KeepsHistory'
<1>0. /\ Shape /\ NothingBeforeOpen /\ NamesFiles /\ FirstIsBusy /\ LogsExist /\ KeepsLogs
      /\ LogsPart /\ QueueOK /\ GroupIsLogged /\ HistoryIsKept /\ LogsOK /\ LogsExist'
      /\ events \in Nat
  BY DEF CrashInv, LogsInv, FilesInv, NamesFiles, KeepsLogs, LogsPart, LogsOK
<1>1. CASE UNCHANGED vars
  <2>1. UNCHANGED <<disk, db, queue, writer, group, bg, history, events>>
    BY <1>1 DEF vars
  <2>2. QueueOK'
    BY <1>0, <2>1 DEF QueueOK
  <2>3. LogsPart'
    BY <1>0, <2>1 DEF LogsPart, LogsOK, LogNumbersUsed, PassedOver
  <2>4. GroupIsLogged'
    BY <1>0, <2>1 DEF GroupIsLogged, Busy, HasRecord, GroupRecord, GroupOps
  <2>5. HistoryIsKept'
    BY <1>0, <2>1 DEF HistoryIsKept, OnDiskStill, InLog
  <2> QED
    BY <2>2, <2>3, <2>4, <2>5 DEF KeepsHistory, LogsPart
<1>2. ASSUME Next, ~Crash, QueueOK', LogsPart', LogsKept, GroupIsLogged'
      PROVE  KeepsHistory'
  <2>1. CASE UNCHANGED history
    BY <1>0, <1>2, <2>1, HistoryStays DEF KeepsHistory, LogsPart
  <2>2. CASE \E w \in Writers : Publish(w)
    BY <1>0, <1>2, <2>2, HistoryPublished DEF KeepsHistory, LogsPart
  <2> QED
    BY <1>0, <1>2, <2>1, <2>2, HistoryOnly
<1>3. CASE Crash
  <2>1. LogsPart'
    BY <1>0, <1>3, LogsPartCrash
  <2>2. HistoryIsKept'
    BY <1>0, <1>3, <2>1, HistoryCrash
  <2> QED
    BY <1>3, <2>1, <2>2, CrashEndsGroup DEF KeepsHistory, LogsPart
<1>4. ASSUME ~Crash, NEW w \in Writers, WriterStep(w) \/ \E b \in Batches : Write(w, b)
      PROVE  KeepsHistory'
  <2>1. LogsPart' /\ LogsKept
    BY <1>0, <1>4, WriterDoes, LogsPartWriter
  <2>2. QueueOK'
    BY <1>0, <1>4, QueueWriter
  <2>3. GroupIsLogged'
    BY <1>0, <1>4, GroupWriter
  <2>4. Next
    BY <1>4 DEF Next
  <2> QED
    BY <1>2, <1>4, <2>1, <2>2, <2>3, <2>4
<1>5. CASE ~Crash /\ Background
  BY <1>0, <1>2, <1>5, LogsPartBackground, OthersKeepGroup DEF Next
<1>6. CASE ~Crash /\ Opening
  BY <1>0, <1>2, <1>6, LogsPartOpening, OpeningKeepsGroup DEF Next
<1>7. CASE ~Crash /\ (\/ \E s \in Snapshots : GetSnapshot(s) \/ ReleaseSnapshot(s)
                      \/ \E r \in Readers : BeginRead(r) \/ EndRead(r))
  <2>1. Next
    BY <1>7 DEF Next
  <2>2. LogsPart' /\ LogsKept
    BY <1>0, <1>7, LogsPartReader
  <2>3. QueueOK' /\ GroupIsLogged'
    BY <1>0, <1>7, OthersKeepGroup
  <2> QED
    BY <1>2, <1>7, <2>1, <2>2, <2>3
<1> QED
  BY <1>1, <1>3, <1>4, <1>5, <1>6, <1>7 DEF Next

\* In every reachable state what has been published is on the disk: in a table, or in
\* a log that is still there and will be replayed, below what is synced of it if the
\* write asked for that (Write and MakeRoomForWrite, LogAndApply, RemoveObsoleteFiles,
\* RecoverLogFile).
THEOREM CrashInvariant == Spec => []CrashInv
<1>1. Init => KeepsHistory
  BY CrashInit
<1>2. CrashInv /\ LogsInv' /\ [Next]_vars => KeepsHistory'
  BY CrashNext
<1>3. CrashInv <=> LogsInv /\ KeepsHistory
  BY DEF CrashInv, KeepsHistory
<1>4. LogsInv /\ KeepsHistory /\ LogsInv' /\ [Next]_vars => KeepsHistory'
  BY <1>2, <1>3
<1>5. Spec => []KeepsHistory
  BY <1>1, <1>4, LogsInvariant, PTL DEF Spec
<1> QED
  BY <1>3, <1>5, LogsInvariant, PTL

\* What the history loses in a crash was neither on the disk nor synced.
LEMMA CrashLeaves ==
    ASSUME CrashInv, Crash
    PROVE  /\ \A b \in ToSet(history) : b.sync => b \in ToSet(history')
           /\ UNCHANGED disk => IsPrefix(history, history')
<1>0. Shape /\ LogsOK /\ LogsPart /\ LogsPart' /\ GroupIsLogged /\ HistoryIsKept
  BY LogsPartCrash DEF CrashInv, LogsInv, FilesInv, LogsPart
<1>1. PICK k : k = disk'
  OBVIOUS
<1>2. PICK r : r = history'
  OBVIOUS
<1>3. PICK s : s = AtCrash
  OBVIOUS
<1>4. /\ history \in Seq(HistoryBatches) /\ group.batches \in Seq(HistoryBatches)
      /\ \A i \in DOMAIN history : OnDiskStill(history[i], disk) /\ history[i] \in HistoryBatches
  BY <1>0, ElementOfSeq DEF HistoryIsKept, GroupIsLogged
<1>5. /\ s \in Seq(HistoryBatches) /\ Len(history) \in 0..Len(s)
      /\ \A i \in DOMAIN history : i \in DOMAIN s /\ s[i] = history[i]
  BY <1>3, <1>4, AtCrashIs
<1>6. r = Recovered(s, k)
  BY <1>1, <1>2, <1>3 DEF Crash, AtCrash
<1>7. \A n \in DOMAIN k.logs : GoodLog(k.logs[n])
  BY <1>0, <1>1 DEF LogsPart, LogsOK, GoodLog
<1>8. \A b \in HistoryBatches : b.sync /\ OnDiskStill(b, disk) => OnDiskStill(b, k)
  BY <1>0, <1>1, CutKeepsSynced
<1> DEFINE N == Len(history)
<1>9. N \in Nat /\ DOMAIN history = 1..N
  BY <1>4, LenProperties
<1>10. /\ r \in Seq(HistoryBatches)
       /\ \A i \in DOMAIN s : Recoverable(s[i], k) => \E m \in DOMAIN r : r[m] = s[i]
       /\ (\A i \in 1..N : Recoverable(s[i], k)) => N <= Len(r) /\ \A i \in 1..N : r[i] = s[i]
  BY <1>5, <1>6, RecoveredFinds
<1> HIDE DEF N
<1>11. ASSUME NEW b \in ToSet(history), b.sync PROVE b \in ToSet(r)
  <2>1. PICK i \in DOMAIN history : history[i] = b
    BY DEF ToSet
  <2>2. OnDiskStill(b, k) /\ b \in HistoryBatches
    BY <1>4, <1>8, <1>11, <2>1
  <2>3. i \in DOMAIN s /\ s[i] = b /\ Recoverable(s[i], k)
    BY <1>5, <1>7, <2>1, <2>2, StillIsRecoverable
  <2>4. PICK m \in DOMAIN r : r[m] = s[i]
    BY <1>10, <2>3
  <2> QED
    BY <2>3, <2>4 DEF ToSet
<1>12. ASSUME k = disk PROVE IsPrefix(history, r)
  <2>1. \A i \in 1..N : Recoverable(s[i], k)
    BY <1>4, <1>5, <1>7, <1>9, <1>12, StillIsRecoverable
  <2>2. N <= Len(r) /\ \A i \in 1..N : r[i] = history[i]
    BY <1>5, <1>9, <1>10, <2>1
  <2>3. Len(r) \in Nat
    BY <1>10, LenProperties
  <2>4. SubSeq(r, 1, N) = [i \in 1..N |-> r[i]] /\ SubSeq(history, 1, N) = [i \in 1..N |-> history[i]]
    BY <1>9 DEF SubSeq
  <2>5. SubSeq(r, 1, N) = SubSeq(history, 1, N)
    BY <2>2, <2>4
  <2> QED
    BY <2>2, <2>5 DEF IsPrefix, N
<1> QED
  BY <1>1, <1>2, <1>11, <1>12

\* The other steps take nothing from the history.
LEMMA OthersLeave ==
    ASSUME CrashInv, [Next]_vars, ~Crash, db'.up = "closed"
    PROVE  UNCHANGED history
<1>0. Shape /\ NothingBeforeOpen /\ NamesFiles /\ LogsExist /\ KeepsLogs /\ LogsPart
  BY DEF CrashInv, LogsInv, FilesInv, NamesFiles, KeepsLogs, LogsPart
<1>1. CASE UNCHANGED vars
  BY <1>1 DEF vars
<1>2. CASE Next
  BY <1>0, <1>2, HistoryOnly
<1> QED
  BY <1>1, <1>2

\* options.h:174: when only the process ends, no write that was answered is lost, synced
\* or not, and they stay in their order; what else is found was being written.
THEOREM ProcessCrashKeepsAll == Spec => ProcessCrashLosesNothing
<1>1. ASSUME CrashInv, [Next]_vars, db'.up = "closed", disk' = disk
      PROVE  IsPrefix(history, history')
  <2>1. CASE Crash
    BY <1>1, <2>1, CrashLeaves
  <2>2. CASE ~Crash
    <3>1. history' = history /\ Len(history) \in Nat
      BY <1>1, <2>2, OthersLeave, LenProperties DEF CrashInv, HistoryIsKept
    <3> QED
      BY <3>1 DEF IsPrefix
  <2> QED
    BY <2>1, <2>2
<1>2. CrashInv /\ [Next]_vars
          => [db'.up = "closed" /\ disk' = disk => IsPrefix(history, history')]_vars
  BY <1>1
<1> QED
  BY <1>2, CrashInvariant, PTL DEF Spec, ProcessCrashLosesNothing

\* options.h:176: when the machine stops, no write that asked for sync and was answered
\* is lost, whatever else had not got to the disk.
THEOREM SyncedWritesAreKept == Spec => SyncedWritesSurvive
<1>1. ASSUME CrashInv, [Next]_vars, db'.up = "closed"
      PROVE  \A b \in ToSet(history) : b.sync => b \in ToSet(history')
  <2>1. CASE Crash
    BY <2>1, <1>1, CrashLeaves
  <2>2. CASE ~Crash
    BY <1>1, <2>2, OthersLeave
  <2> QED
    BY <2>1, <2>2
<1>2. CrashInv /\ [Next]_vars
          => [db'.up = "closed" => \A b \in ToSet(history) : b.sync => b \in ToSet(history')]_vars
  BY <1>1
<1> QED
  BY <1>2, CrashInvariant, PTL DEF Spec, SyncedWritesSurvive

-----------------------------------------------------------------------------
(* What memtables and tables hold. *)

\* The entries of a batch go into a memtable, at least one of a batch that has an
\* operation.
LEMMA InsertedEntries ==
    ASSUME NEW ops \in Seq(Operations), NEW seq \in Nat \ {0}
    PROVE  InsertInto(ops, seq) \in MemContents /\ (ops # <<>> => InsertInto(ops, seq) \in TableContents)
<1>1. DOMAIN ops = 1..Len(ops) /\ Len(ops) \in Nat /\ \A i \in 1..Len(ops) : ops[i] \in Operations
  BY LenProperties, ElementOfSeq
<1> DEFINE g == [i \in 1..Len(ops) |-> [key |-> ops[i].key, seq |-> seq + i - 1, val |-> ops[i].val]]
<1>2. InsertInto(ops, seq) = {g[i] : i \in DOMAIN g}
  BY <1>1 DEF InsertInto
<1>3. \A i \in DOMAIN g : g[i] \in Entries
  BY <1>1 DEF Entries, Operations
<1>4. IsFiniteSet(DOMAIN g)
  BY <1>1, FS_Interval
<1>5. ops # <<>> => 1 \in DOMAIN g
  BY <1>1, EmptySeq
<1> HIDE DEF g
<1>6. IsFiniteSet({g[i] : i \in DOMAIN g})
  BY <1>4, FiniteImage
<1>7. InsertInto(ops, seq) \in MemContents
  BY <1>2, <1>3, <1>6 DEF MemContents
<1>8. ops # <<>> => InsertInto(ops, seq) # {}
  BY <1>2, <1>5
<1> QED
  BY <1>7, <1>8 DEF TableContents

\* Contents joined are contents.
LEMMA JoinedContents ==
    /\ {} \in MemContents /\ TableContents \subseteq MemContents
    /\ \A E, F \in MemContents : E \cup F \in MemContents
    /\ \A E \in MemContents : \A F : E \cap F \in MemContents /\ F \cap E \in MemContents
    /\ \A S : IsFiniteSet(S) /\ S \subseteq MemContents => UNION S \in MemContents
<1>1. {} \in MemContents
  BY FS_EmptySet DEF MemContents
<1>2. ASSUME NEW E \in MemContents, NEW F \in MemContents PROVE E \cup F \in MemContents
  <2>1. IsFiniteSet(E \cup F)
    BY FS_Union DEF MemContents
  <2> QED
    BY <2>1 DEF MemContents
<1>3. ASSUME NEW E \in MemContents, NEW F PROVE E \cap F \in MemContents /\ F \cap E \in MemContents
  <2>1. IsFiniteSet(E \cap F) /\ IsFiniteSet(F \cap E)
    BY FS_Intersection DEF MemContents
  <2> QED
    BY <2>1 DEF MemContents
<1>4. ASSUME NEW S, IsFiniteSet(S), S \subseteq MemContents PROVE UNION S \in MemContents
  <2>1. IsFiniteSet(UNION S)
    <3>1. \A T \in S : IsFiniteSet(T)
      BY <1>4 DEF MemContents
    <3> QED
      BY <1>4, <3>1, FS_UNION
  <2>2. UNION S \subseteq Entries
    BY <1>4 DEF MemContents
  <2> QED
    BY <2>1, <2>2 DEF MemContents
<1> QED
  BY <1>1, <1>2, <1>3, <1>4 DEF TableContents

\* A function with one more value of the kind of the others.
LEMMA WithKeeps ==
    ASSUME NEW T, NEW f, \A z \in DOMAIN f : f[z] \in T, NEW x, NEW y \in T
    PROVE  \A z \in DOMAIN With(f, x, y) : With(f, x, y)[z] \in T
BY DEF With, Overlay

\* Finitely many contents, joined, are contents.
LEMMA ContentsOf ==
    ASSUME NEW g, IsFiniteSet(DOMAIN g), \A x \in DOMAIN g : g[x] \in MemContents
    PROVE  UNION {g[x] : x \in DOMAIN g} \in MemContents
<1> DEFINE S == {g[x] : x \in DOMAIN g}
<1>1. IsFiniteSet(S)
  BY FiniteImage
<1>2. S \subseteq MemContents
  OBVIOUS
<1> HIDE DEF S
<1>3. UNION S \in MemContents
  BY <1>1, <1>2, JoinedContents
<1> QED
  BY <1>3 DEF S

\* What a merge writes are the contents of tables.
LEMMA OutputsAreContents ==
    ASSUME NEW c, NEW E \in MemContents, NEW snapshot
    PROVE  Outputs(c, E, snapshot) \in Seq(TableContents)
<1> DEFINE N == Cardinality(E)
           kept == Kept(c, E, snapshot)
           Passed(e) == {g \in c.grandparents : Before(g.largest, e)}
           Take(acc, e) ==
            LET overlapped == acc.overlapped
                    + IF acc.seen THEN TotalFileSize(Passed(e) \ acc.passed) ELSE 0
                stop == overlapped > MaxGrandParentOverlap
                open == IF stop THEN {} ELSE acc.open
                full == e \in kept /\ Cardinality(open) + 1 >= TargetFileSize
                cut == IF stop /\ acc.open # {} THEN <<acc.open>> ELSE <<>>
            IN  [seen |-> TRUE, passed |-> Passed(e),
                 overlapped |-> IF stop THEN 0 ELSE overlapped,
                 done |-> acc.done \o cut \o (IF full THEN <<open \cup {e}>> ELSE <<>>),
                 open |-> IF full THEN {} ELSE open \cup ({e} \cap kept)]
           base == [seen |-> FALSE, passed |-> {}, overlapped |-> 0, done |-> <<>>, open |-> {}]
           Step(acc, n) == Take(acc, InOrder(E)[n])
           Is(n, g) == g = [i \in 0..n |-> IF i = 0 THEN base ELSE Step(g[i - 1], i)]
           Bad == {n \in 0..N : ~\E g : Is(n, g)}
           Good(acc) == acc.done \in Seq(TableContents) /\ acc.open \in MemContents
<1>1. N \in Nat
  BY FS_CardinalityType DEF MemContents
<1>2. kept \subseteq E
  BY DEF Kept
<1>3. Good(base)
  BY JoinedContents
<1>4. ASSUME NEW acc, Good(acc), NEW e PROVE Good(Take(acc, e))
  <2> DEFINE stop == acc.overlapped
                    + (IF acc.seen THEN TotalFileSize(Passed(e) \ acc.passed) ELSE 0) > MaxGrandParentOverlap
             open == IF stop THEN {} ELSE acc.open
             full == e \in kept /\ Cardinality(open) + 1 >= TargetFileSize
             cut == IF stop /\ acc.open # {} THEN <<acc.open>> ELSE <<>>
             last == IF full THEN <<open \cup {e}>> ELSE <<>>
             left == IF full THEN {} ELSE open \cup ({e} \cap kept)
  <2>1. Take(acc, e).done = acc.done \o cut \o last /\ Take(acc, e).open = left
    OBVIOUS
  <2>2. acc.open \in MemContents /\ (acc.open # {} => acc.open \in TableContents)
    BY <1>4 DEF TableContents
  <2> HIDE DEF stop
  <2>3. open \in MemContents
    BY <2>2, JoinedContents
  <2>4. cut \in Seq(TableContents)
    BY <2>2
  <2> HIDE DEF open, cut
  <2>5. {e} \cap kept \in MemContents
    <3>1. {e} \cap kept = {e} \/ {e} \cap kept = {}
      OBVIOUS
    <3>2. IsFiniteSet({e} \cap kept)
      BY <3>1, FiniteSteps
    <3>3. {e} \cap kept \subseteq Entries
      BY <1>2 DEF MemContents
    <3> HIDE DEF kept
    <3> QED
      BY <3>2, <3>3 DEF MemContents
  <2>6. e \in kept => open \cup {e} \in TableContents
    <3>1. e \in kept => open \cup {e} = open \cup ({e} \cap kept)
      OBVIOUS
    <3> HIDE DEF kept
    <3> QED
      BY <2>3, <2>5, <3>1, JoinedContents DEF TableContents
  <2> HIDE DEF kept
  <2>7. last \in Seq(TableContents)
    BY <2>6
  <2>8. left \in MemContents
    BY <2>3, <2>5, JoinedContents
  <2> HIDE DEF last, left, Take
  <2>9. acc.done \o cut \o last \in Seq(TableContents)
    BY <1>4, <2>4, <2>7, ConcatProperties
  <2> QED
    BY <2>1, <2>8, <2>9
<1>5. Outputs(c, E, snapshot) =
        LET After == CHOOSE g : Is(N, g)
            end == After[N]
        IN  end.done \o IF end.open = {} THEN <<>> ELSE <<end.open>>
  BY DEF Outputs
<1>6. \A acc, n : Good(acc) => Good(Step(acc, n))
  BY <1>4
<1> HIDE DEF N, Step, base, Good
<1>7. Bad = {}
  <2>1. SUFFICES ASSUME Bad # {} PROVE FALSE
    OBVIOUS
  <2>2. Bad \in SUBSET Nat
    BY <1>1
  <2>3. PICK n \in Bad : \A m \in Bad : n <= m
    BY <2>1, <2>2, LeastNat
  <2>4. n \in 0..N /\ ~\E g : Is(n, g)
    BY <2>3
  <2>5. CASE n = 0
    <3>1. Is(0, [i \in 0..0 |-> base])
      OBVIOUS
    <3> QED
      BY <2>4, <2>5, <3>1
  <2>6. CASE n # 0
    <3>0. n \in Nat /\ n - 1 \in 0..N /\ ~(n <= n - 1)
      BY <2>4, <2>6, <1>1
    <3>1. n - 1 \in 0..N /\ n - 1 \notin Bad
      <4> HIDE DEF Bad
      <4> QED
        BY <3>0, <2>3
    <3>2. PICK g : Is(n - 1, g)
      BY <3>1
    <3> DEFINE h == [i \in 0..n |-> IF i = n THEN Step(g[n - 1], n) ELSE g[i]]
    <3>3. \A i \in 0..n : h[i] = IF i = 0 THEN base ELSE Step(h[i - 1], i)
      <4> TAKE i \in 0..n
      <4>1. CASE i = n
        <5>1. h[i] = Step(g[n - 1], n) /\ h[i - 1] = g[n - 1]
          BY <4>1, <2>4, <2>6, <1>1
        <5> QED
          BY <5>1, <4>1, <2>6
      <4>2. CASE i # n
        <5>1. i \in 0..n - 1 /\ h[i] = g[i]
          BY <4>2, <2>4, <2>6, <1>1
        <5>2. i # 0 => i - 1 \in 0..n - 1 /\ h[i - 1] = g[i - 1]
          BY <5>1, <4>2, <2>4, <2>6, <1>1
        <5>3. g[i] = IF i = 0 THEN base ELSE Step(g[i - 1], i)
          BY <3>2, <5>1
        <5> QED
          BY <5>1, <5>2, <5>3
      <4> QED
        BY <4>1, <4>2
    <3>4. h = [i \in 0..n |-> h[i]]
      OBVIOUS
    <3> HIDE DEF h
    <3>5. Is(n, h)
      BY <3>3, <3>4
    <3> QED
      BY <2>4, <3>5
  <2> QED
    BY <2>5, <2>6
<1>e. \E g : Is(N, g)
  BY <1>1, <1>7
<1> DEFINE A == CHOOSE g : Is(N, g)
<1>8. Is(N, A)
  BY <1>e
<1>9. Outputs(c, E, snapshot) = A[N].done \o IF A[N].open = {} THEN <<>> ELSE <<A[N].open>>
  BY <1>5
<1> HIDE DEF A
<1>10. \A n \in 0..N : A[n] = IF n = 0 THEN base ELSE Step(A[n - 1], n)
  BY <1>8
<1>11. Good(A[N])
  <2> DEFINE Out == {n \in 0..N : ~Good(A[n])}
  <2>1. SUFFICES ASSUME Out # {} PROVE FALSE
    BY <1>1
  <2>2. Out \in SUBSET Nat
    BY <1>1
  <2>3. PICK n \in Out : \A m \in Out : n <= m
    BY <2>1, <2>2, LeastNat
  <2>4. n # 0 /\ n \in 0..N
    BY <1>3, <1>10, <2>3
  <2>5. n \in Nat /\ n - 1 \in 0..N /\ ~(n <= n - 1)
    BY <1>1, <2>4
  <2>6. n - 1 \notin Out
    BY <2>3, <2>5
  <2>7. Good(A[n - 1])
    BY <2>5, <2>6
  <2>8. A[n] = Step(A[n - 1], n)
    BY <1>10, <2>4
  <2> QED
    BY <1>6, <2>3, <2>7, <2>8
<1> DEFINE done == A[N].done
           open == A[N].open
<1>12. done \in Seq(TableContents) /\ open \in MemContents
  BY <1>11 DEF Good
<1>13. Outputs(c, E, snapshot) = done \o IF open = {} THEN <<>> ELSE <<open>>
  BY <1>9
<1> HIDE DEF done, open
<1>14. (IF open = {} THEN <<>> ELSE <<open>>) \in Seq(TableContents)
  BY <1>12 DEF TableContents
<1> QED
  BY <1>12, <1>13, <1>14, ConcatProperties

\* The tables of d hold entries.
TablesGood(d) == \A n \in DOMAIN d.tables : d.tables[n] \in TableContents

\* An earlier session leaves tables with entries.
LEMMA FlushedContents ==
    ASSUME NEW d, StartOK(d), TablesGood(d), NEW ops \in Seq(Operations) \ {<<>>}
    PROVE  TablesGood(Flushed(d, ops))
<1> DEFINE m == d.manifest
           E == InsertInto(ops, m.lastSeq + 1)
           f == Meta(m.nextFile + 1, E)
<1>1. Flushed(d, ops).tables = With(d.tables, f.num, E)
  BY DEF Flushed
<1>2. E \in TableContents
  <2>1. m.lastSeq + 1 \in Nat \ {0}
    BY DEF StartOK
  <2> HIDE DEF m
  <2> QED
    BY <2>1, InsertedEntries
<1> HIDE DEF E, f
<1>3. \A n \in DOMAIN Flushed(d, ops).tables : Flushed(d, ops).tables[n] \in TableContents
  <2> DEFINE g == With(d.tables, f.num, E)
  <2>1. \A n \in DOMAIN g : g[n] \in TableContents
    BY <1>2, WithKeeps DEF TablesGood
  <2>2. Flushed(d, ops).tables = g
    BY <1>1
  <2> HIDE DEF g
  <2> QED
    BY <2>1, <2>2
<1> QED
  BY <1>3 DEF TablesGood

\* So do all of them.
LEMMA LeftByContents == TablesGood(LeftBy[Len(Earlier)])
<1> DEFINE N == Len(Earlier)
           Good(i) == StartOK(LeftBy[i]) /\ TablesGood(LeftBy[i])
           Bad == {i \in 0..N : ~Good(i)}
<1>1. N \in Nat /\ \A i \in 1..N : Earlier[i] \in Seq(Operations) \ {<<>>}
  <2>1. Earlier \in Seq(Seq(Operations) \ {<<>>})
    BY LevelDBAssumption DEF Operations
  <2> QED
    BY <2>1, LenProperties, ElementOfSeq
<1> HIDE DEF N
<1>2. Bad = {}
  <2>1. SUFFICES ASSUME Bad # {} PROVE FALSE
    OBVIOUS
  <2>2. Bad \in SUBSET Nat
    <3> HIDE DEF Good
    <3> QED
      BY <1>1
  <2>3. PICK n \in Bad : \A i \in Bad : n <= i
    BY <2>1, <2>2, LeastNat
  <2>4. n \in 0..N /\ ~Good(n)
    BY <2>3
  <2>5. LeftBy[n] = IF n = 0 THEN NewDisk ELSE Flushed(LeftBy[n - 1], Earlier[n])
    BY <2>4, LeftByIs DEF N
  <2>6. n # 0
    <3>1. StartOK(NewDisk) /\ TablesGood(NewDisk)
      BY DEF StartOK, TablesGood, NewDisk
    <3> QED
      BY <2>4, <2>5, <3>1
  <2>7. n \in Nat /\ n \in 1..N /\ n - 1 \in 0..N /\ ~(n <= n - 1)
    BY <2>4, <2>6, <1>1
  <2>8. n - 1 \notin Bad
    <3> HIDE DEF Bad
    <3> QED
      BY <2>3, <2>7
  <2>9. StartOK(LeftBy[n - 1]) /\ TablesGood(LeftBy[n - 1])
    BY <2>7, <2>8
  <2>10. Len(Earlier[n]) \in Nat
    BY <1>1, <2>7, LenProperties
  <2> QED
    BY <1>1, <2>4, <2>5, <2>6, <2>7, <2>9, <2>10, FlushedStart, FlushedContents
<1>3. Good(N)
  <2> HIDE DEF Good
  <2> QED
    BY <1>1, <1>2
<1> QED
  BY <1>3 DEF N

\* Before the first step there are only those.
LEMMA EntriesInit == Init => EntriesInv
<1> SUFFICES ASSUME Init PROVE EntriesInv
  OBVIOUS
<1>1. disk = LeftBy[Len(Earlier)] /\ db = Closed /\ bg = BgIdle
  BY DEF Init
<1>2. TablesGood(disk)
  BY <1>1, LeftByContents
<1>3. /\ db.up = "closed" /\ db.memtables = <<>> /\ db.replay.mem = {} /\ bg.todo = <<>>
      /\ db.seek = {}
  BY <1>1 DEF Closed, NoReplay, BgIdle
<1> QED
  BY <1>2, <1>3, JoinedContents DEF EntriesInv, TablesGood

\* A step of a writer puts at most its batches into the current memtable.
LEMMA EntriesWriter ==
    ASSUME Shape, GroupIsLogged, EntriesInv, NEW w \in Writers,
           WriterStep(w) \/ \E b \in Batches : Write(w, b)
    PROVE  EntriesInv'
<1>0. DOMAIN db = DOMAIN Closed /\ DOMAIN disk = {"tables", "logs", "manifest"}
  BY Fields DEF Shape
<1>1. UNCHANGED bg /\ db'.up = db.up /\ db'.replay = db.replay
  BY WriterDoes DEF WriterEffect
<1>2. disk'.tables = disk.tables
  <2>1. UNCHANGED disk \/ \E logs : disk' = [disk EXCEPT !.logs = logs]
    BY DEF WriterStep, Write, WaitForRoom, NoRoom, BeginWrite, AppendToLog, Sync, SyncFails,
           InsertIntoMemTable, Publish
  <2> QED
    BY <1>0, <2>1
<1>3. ASSUME NEW x, NEW E \in MemContents, db'.memtables = With(db.memtables, x, E)
      PROVE  \A m \in DOMAIN db'.memtables : db'.memtables[m] \in MemContents
  <2> DEFINE g == With(db.memtables, x, E)
  <2>1. \A m \in DOMAIN g : g[m] \in MemContents
    BY <1>3, WithKeeps DEF EntriesInv
  <2>2. db'.memtables = g
    BY <1>3
  <2> HIDE DEF g
  <2> QED
    BY <2>1, <2>2
<1>4. \A m \in DOMAIN db'.memtables : db'.memtables[m] \in MemContents
  <2>1. CASE BeginWrite(w)
    <3>1. db' = IF HasRoom THEN db ELSE SwitchMemTable(db)
      BY <2>1 DEF BeginWrite
    <3>2. CASE HasRoom
      BY <3>1, <3>2 DEF EntriesInv
    <3>3. CASE ~HasRoom
      <4> DEFINE d == [db EXCEPT !.nextFile = @ + 1, !.log = db.nextFile, !.imm = {db.log},
                                 !.memtables = With(@, db.nextFile, {})]
      <4>1. DOMAIN d = DOMAIN Closed /\ d.memtables = With(db.memtables, db.nextFile, {})
        BY <1>0, Fields
      <4>2. db' = MaybeSchedule(d)
        BY <3>1, <3>3 DEF SwitchMemTable
      <4> HIDE DEF d
      <4>3. db'.memtables = With(db.memtables, db.nextFile, {})
        BY <4>1, <4>2, MaybeScheduleShape, Fields
      <4> QED
        BY <1>3, <4>3, JoinedContents
    <3> QED
      BY <3>2, <3>3
  <2>2. CASE InsertIntoMemTable(w)
    <3> DEFINE E == InsertInto(GroupOps, group.seq)
    <3>1. /\ db' = [db EXCEPT !.memtables[group.log] = @ \cup E] /\ Busy(w)
      BY <2>2 DEF InsertIntoMemTable, AtFront, Busy
    <3>2. GroupOps \in Seq(Operations) /\ group.seq \in Nat \ {0}
      BY <3>1 DEF GroupIsLogged, GroupRecord, LogRecords
    <3>3. E \in MemContents
      BY <3>2, InsertedEntries
    <3> HIDE DEF E
    <3>4. db'.memtables = [db.memtables EXCEPT ![group.log] = @ \cup E]
      BY <1>0, <3>1, Fields
    <3> QED
      BY <3>3, <3>4, JoinedContents DEF EntriesInv
  <2>3. CASE ~BeginWrite(w) /\ ~InsertIntoMemTable(w)
    <3>1. UNCHANGED db \/ \E s, b : db' = [db EXCEPT !.lastSeq = s, !.bgError = b]
      BY <2>3 DEF WriterStep, Write, WaitForRoom, NoRoom, AppendToLog, Sync, SyncFails, Publish
    <3>2. db'.memtables = db.memtables
      BY <1>0, <3>1, Fields
    <3> QED
      BY <3>2 DEF EntriesInv
  <2> QED
    BY <2>1, <2>2, <2>3
<1>5. db'.seek = db.seek
  <2>1. CASE BeginWrite(w)
    <3> DEFINE d == [db EXCEPT !.nextFile = @ + 1, !.log = db.nextFile, !.imm = {db.log},
                               !.memtables = With(@, db.nextFile, {})]
    <3>1. DOMAIN d = DOMAIN Closed /\ d.seek = db.seek
      BY <1>0, Fields
    <3>2. db' = db \/ db' = MaybeSchedule(d)
      BY <2>1 DEF BeginWrite, SwitchMemTable
    <3> HIDE DEF d
    <3> QED
      BY <3>1, <3>2, MaybeScheduleShape, Fields
  <2>2. CASE ~BeginWrite(w)
    <3>1. \/ UNCHANGED db \/ \E s, b : db' = [db EXCEPT !.lastSeq = s, !.bgError = b]
          \/ \E m : db' = [db EXCEPT !.memtables = m]
      BY <2>2 DEF WriterStep, Write, WaitForRoom, NoRoom, AppendToLog, Sync, SyncFails,
                  InsertIntoMemTable, Publish
    <3> QED
      BY <1>0, <3>1, Fields
  <2> QED
    BY <2>1, <2>2
<1> QED
  BY <1>1, <1>2, <1>4, <1>5 DEF EntriesInv

\* A file charged with a seek is searched before another one, on a deeper level or
\* on level 0.
LEMMA ChargedAboveLast ==
    ASSUME NEW v, NEW tables, NEW k, NEW s, NEW c \in SeekCharge(v, tables, k, s)
    PROVE  c[1] + 1 \in Levels
<1>1. PICK d \in Candidates(v, k, s) : SearchedBefore(c, d)
  BY DEF SeekCharge
<1>2. c \in Candidates(v, k, s)
  BY DEF SeekCharge, FirstSearched
<1>3. c[1] \in Levels /\ d[1] \in Levels
  BY <1>1, <1>2, ZeroIsLevel DEF Candidates
<1> QED
  BY <1>1, <1>3, VersionSetAssumption DEF SearchedBefore, Levels

\* Reading changes no contents.
LEMMA EntriesReader ==
    ASSUME Shape, EntriesInv,
           \/ \E s \in Snapshots : GetSnapshot(s) \/ ReleaseSnapshot(s)
           \/ \E r \in Readers : BeginRead(r) \/ EndRead(r)
    PROVE  EntriesInv'
<1>0. DOMAIN db = DOMAIN Closed
  BY DEF Shape
<1>1. /\ UNCHANGED <<disk, bg>>
      /\ \A x \in DOMAIN Closed \ {"scheduled", "seek", "snapshots"} : db'[x] = db[x]
  BY ReaderDoes
<1>2. db'.up = db.up /\ db'.memtables = db.memtables /\ db'.replay = db.replay
  BY <1>1, Fields
<1>3. \A c \in db'.seek : c[1] + 1 \in Levels
  <2>1. CASE db'.seek = db.seek
    BY <2>1 DEF EntriesInv
  <2>2. ASSUME NEW r \in Readers, EndRead(r) PROVE \A c \in db'.seek : c[1] + 1 \in Levels
    <3>1. \/ UNCHANGED db
          \/ \E k \in Keys : db' = MaybeSchedule([db EXCEPT
                        !.seek = SeekCharge(db.current, disk.tables, k, reader[r].seq)])
      BY <2>2, Zenon DEF EndRead
    <3>2. ASSUME NEW k \in Keys,
                 db' = MaybeSchedule([db EXCEPT
                        !.seek = SeekCharge(db.current, disk.tables, k, reader[r].seq)])
          PROVE  \A c \in db'.seek : c[1] + 1 \in Levels
      <4> DEFINE S == SeekCharge(db.current, disk.tables, k, reader[r].seq)
                 d == [db EXCEPT !.seek = S]
      <4>1. DOMAIN d = DOMAIN Closed /\ d.seek = S
        BY <1>0, Fields
      <4>2. \A c \in S : c[1] + 1 \in Levels
        BY ChargedAboveLast
      <4>3. db' = MaybeSchedule(d)
        BY <3>2
      <4> HIDE DEF S, d
      <4> QED
        BY <4>1, <4>2, <4>3, MaybeScheduleShape, Fields
    <3> QED
      BY <2>1, <3>1, <3>2
  <2>3. ASSUME \/ \E s \in Snapshots : GetSnapshot(s) \/ ReleaseSnapshot(s)
               \/ \E r \in Readers : BeginRead(r)
        PROVE  db'.seek = db.seek
    <3>1. UNCHANGED db \/ \E S : db' = [db EXCEPT !.snapshots = S]
      BY <2>3 DEF GetSnapshot, ReleaseSnapshot, BeginRead
    <3> QED
      BY <1>0, <3>1, Fields
  <2> QED
    BY <2>1, <2>2, <2>3
<1> QED
  BY <1>1, <1>2, <1>3 DEF EntriesInv

\* A crash loses what is in memory.
LEMMA EntriesCrash ==
    ASSUME Shape, EntriesInv, Crash
    PROVE  EntriesInv'
<1>1. db' = Closed /\ bg' = BgIdle
  BY DEF Crash
<1>2. UNCHANGED disk \/ \E logs : disk' = [disk EXCEPT !.logs = logs]
  BY DEF Crash
<1>3. disk'.tables = disk.tables
  BY <1>2, Fields DEF Shape
<1>4. /\ db'.up = "closed" /\ db'.memtables = <<>> /\ db'.replay.mem = {} /\ bg'.todo = <<>>
      /\ db'.seek = {}
  BY <1>1 DEF Closed, NoReplay, BgIdle
<1> QED
  BY <1>3, <1>4, JoinedContents DEF EntriesInv

-----------------------------------------------------------------------------
\* The files of level + 1 that a compaction takes in.
LEMMA PickedBelow ==
    ASSUME NEW v, NEW l, NEW f
    PROVE  PickCompaction(v, l, f).inputs1 \subseteq v[l + 1]
<1> DEFINE picked == IF l > 0 THEN {f} ELSE OverlappingInputs(v, 0, f.smallest.key, f.largest.key)
<1>1. PickCompaction(v, l, f) = SetupOtherInputs(v, l, picked)
  BY DEF PickCompaction
<1> HIDE DEF picked
<1>2. \A lo, hi : OverlappingInputs(v, l + 1, lo, hi) \subseteq v[l + 1]
  BY OverlapsInside
<1>3. SetupOtherInputs(v, l, picked).inputs1 \subseteq v[l + 1]
  BY <1>2 DEF SetupOtherInputs
<1> QED
  BY <1>1, <1>3

\* A compaction starts from a file that is not on the last level.
LEMMA StartsAboveLast ==
    ASSUME NamesFiles, EntriesInv, NEW p \in ToCompact(db.current, db.pointers, db.seek)
    PROVE  p[1] \in Levels /\ p[2] \in db.current[p[1]] /\ p[1] + 1 \in Levels
<1>1. p[1] \in Levels /\ p[2] \in db.current[p[1]]
  BY StartsFromFile DEF NamesFiles, VersionsNameFiles
<1>2. p[1] + 1 \in Levels
  <2>1. CASE p \in db.seek
    BY <2>1 DEF EntriesInv
  <2>2. CASE p \notin db.seek
    <3> DEFINE v == db.current
               After(l) == {f \in v[l] : Before(db.pointers[l], f.largest)}
               From(l) == FirstFile(IF After(l) = {} THEN v[l] ELSE After(l))
    <3>0. p \in UNION {{l} \X From(l) : l \in CompactionLevel(v)}
      BY <2>2 DEF ToCompact
    <3> HIDE DEF From, v
    <3>1. p[1] \in CompactionLevel(v)
      BY <3>0
    <3> QED
      BY <3>1, VersionSetAssumption DEF CompactionLevel, Levels
  <2> QED
    BY <2>1, <2>2
<1> QED
  BY <1>1, <1>2

\* What a compaction takes in are contents.
LEMMA PickedContents ==
    ASSUME NamesFiles, FinitelyMany, EntriesInv,
           NEW p \in ToCompact(db.current, db.pointers, db.seek),
           NEW c, c = PickCompaction(db.current, p[1], p[2])
    PROVE  UNION {disk.tables[f.num] : f \in c.inputs0 \cup c.inputs1} \in MemContents
<1>1. p[1] \in Levels /\ p[2] \in db.current[p[1]] /\ p[1] + 1 \in Levels
  BY StartsAboveLast
<1> DEFINE F == c.inputs0 \cup c.inputs1
           g == [f \in F |-> disk.tables[f.num]]
<1>3. c.inputs0 \subseteq db.current[p[1]] /\ c.inputs1 \subseteq db.current[p[1] + 1]
  BY <1>1, PickedFiles, PickedBelow DEF FinitelyMany
<1>4. F \subseteq db.current[p[1]] \cup db.current[p[1] + 1]
  BY <1>3
<1>5. IsFiniteSet(F)
  <2>1. IsFiniteSet(db.current[p[1]]) /\ IsFiniteSet(db.current[p[1] + 1])
    BY <1>1 DEF FinitelyMany, FiniteLevels
  <2> HIDE DEF F
  <2>2. IsFiniteSet(db.current[p[1]] \cup db.current[p[1] + 1])
    BY <2>1, FS_Union
  <2> QED
    BY <1>4, <2>2, FS_Subset
<1>6. \A f \in F : disk.tables[f.num] \in MemContents
  <2>1. \A f \in F : f.num \in Numbers(db.current)
    BY <1>1, <1>4, NumberOfFile
  <2>2. Numbers(db.current) \subseteq DOMAIN disk.tables
    BY DEF NamesFiles, VersionsNameFiles
  <2> HIDE DEF F
  <2> QED
    BY <2>1, <2>2, JoinedContents DEF EntriesInv
<1> HIDE DEF F
<1>7. DOMAIN g = F /\ \A f \in F : g[f] = disk.tables[f.num]
  OBVIOUS
<1>8. {g[f] : f \in DOMAIN g} = {disk.tables[f.num] : f \in F}
  BY <1>7
<1> HIDE DEF g
<1>9. UNION {g[f] : f \in DOMAIN g} \in MemContents
  BY <1>5, <1>6, <1>7, ContentsOf
<1> QED
  BY <1>8, <1>9 DEF F

\* When the background thread ends a task, it has nothing left to write or goes on
\* with the merge that was interrupted.
LEMMA ResumeTodo ==
    ASSUME Shape, NEW d, Resume(d) \/ EndBackground(d)
    PROVE  bg'.todo \in {<<>>, bg.todo}
<1>1. CASE EndBackground(d)
  BY <1>1 DEF EndBackground, BgIdle
<1>2. CASE ~EndBackground(d)
  <2>1. bg' = [bg EXCEPT !.pc = "merge", !.num = 0, !.edit = NoEdit]
    BY <1>2 DEF Resume
  <2> QED
    BY <2>1, Fields DEF Shape
<1> QED
  BY <1>1, <1>2

\* A compaction begins with the outputs of its inputs to write.
LEMMA BegunTodo ==
    ASSUME Shape, NamesFiles, FinitelyMany, EntriesInv, BeginCompaction
    PROVE  bg'.todo \in Seq(TableContents) /\ db'.seek = db.seek /\ UNCHANGED disk
<1>0. DOMAIN bg = DOMAIN BgIdle /\ DOMAIN db = DOMAIN Closed
  BY DEF Shape
<1>1. PICK p \in ToCompact(db.current, db.pointers, db.seek) :
          LET c == PickCompaction(db.current, p[1], p[2])
              E == UNION {disk.tables[f.num] : f \in c.inputs0 \cup c.inputs1}
          IN  /\ bg' = IF IsTrivialMove(c)
                       THEN [bg EXCEPT !.pc = "log", !.kind = "move",
                                !.edit = Edit({<<c.level + 1, f>> : f \in c.inputs0},
                                              {<<c.level, f.num>> : f \in c.inputs0},
                                              db.logNumber, Pointer(c))]
                       ELSE [bg EXCEPT !.pc = "merge", !.c = c,
                                !.todo = Outputs(c, E, IF Taken = {} THEN db.lastSeq
                                                       ELSE Min(Taken))]
              /\ db' = [db EXCEPT !.pointers = Overlay(@, Pointer(c))]
  BY DEF BeginCompaction
<1>2. PICK c : c = PickCompaction(db.current, p[1], p[2])
  OBVIOUS
<1> DEFINE E == UNION {disk.tables[f.num] : f \in c.inputs0 \cup c.inputs1}
<1>3. E \in MemContents
  BY <1>2, PickedContents
<1>4. /\ \/ \E e : bg' = [bg EXCEPT !.pc = "log", !.kind = "move", !.edit = e]
         \/ \E s : bg' = [bg EXCEPT !.pc = "merge", !.c = c, !.todo = Outputs(c, E, s)]
      /\ \E x : db' = [db EXCEPT !.pointers = x]
  BY <1>1, <1>2
<1> HIDE DEF E
<1>5. bg'.todo = bg.todo \/ \E s : bg'.todo = Outputs(c, E, s)
  BY <1>0, <1>4, Fields
<1>6. db'.seek = db.seek
  BY <1>0, <1>4, Fields
<1>7. UNCHANGED disk
  BY DEF BeginCompaction
<1> QED
  BY <1>3, <1>5, <1>6, <1>7, OutputsAreContents DEF EntriesInv

\* What a flush writes, the memtables that are no longer written to, are contents.
LEMMA FlushedMemtables ==
    ASSUME LogsExist, EntriesInv, db.up = "open"
    PROVE  UNION {db.memtables[m] : m \in db.imm} \in MemContents
<1> DEFINE g == [m \in db.imm |-> db.memtables[m]]
<1>1. IsFiniteSet(db.imm)
  <2>1. db.imm \subseteq db.logNumber..db.log - 1
    BY DEF LogsExist
  <2>2. db.logNumber \in Int /\ db.log - 1 \in Int
    BY DEF LogsExist, Below
  <2>3. IsFiniteSet(db.logNumber..db.log - 1)
    BY <2>2, FS_Interval
  <2> QED
    BY <2>1, <2>3, FS_Subset
<1>2. \A m \in db.imm : db.memtables[m] \in MemContents
  BY DEF LogsExist, EntriesInv
<1>3. DOMAIN g = db.imm /\ \A m \in db.imm : g[m] = db.memtables[m]
  OBVIOUS
<1>4. {g[m] : m \in DOMAIN g} = {db.memtables[m] : m \in db.imm}
  BY <1>3
<1> HIDE DEF g
<1>5. UNION {g[m] : m \in DOMAIN g} \in MemContents
  BY <1>1, <1>2, <1>3, ContentsOf
<1> QED
  BY <1>4, <1>5

\* One more table with entries.
LEMMA TableAdded ==
    ASSUME Shape, EntriesInv, NEW n, NEW E \in TableContents,
           disk' = [disk EXCEPT !.tables = With(@, n, E)]
    PROVE  TablesGood(disk')
<1> DEFINE g == With(disk.tables, n, E)
<1>1. \A m \in DOMAIN g : g[m] \in TableContents
  BY WithKeeps DEF EntriesInv
<1>2. disk'.tables = g
  BY Fields DEF Shape
<1> HIDE DEF g
<1> QED
  BY <1>1, <1>2 DEF TablesGood

\* The background thread writes tables with entries.
LEMMA EntriesBackground ==
    ASSUME Shape, NothingBeforeOpen, FinitelyMany, NamesFiles, KeepsLogs, EntriesInv, Background
    PROVE  EntriesInv'
<1>0. DOMAIN db = DOMAIN Closed /\ DOMAIN disk = {"tables", "logs", "manifest"}
      /\ DOMAIN bg = DOMAIN BgIdle
  BY Fields DEF Shape
<1>1. db.up = "open" /\ db'.up = "open" /\ db'.memtables = db.memtables
  BY BackgroundFrame
<1>2. db'.replay = db.replay
  BY BackgroundDoes DEF BackgroundEffect
<1> DEFINE Good == /\ TablesGood(disk') /\ bg'.todo \in Seq(TableContents)
                   /\ db'.seek \in {db.seek, {}}
<1> SUFFICES Good
  BY <1>1, <1>2 DEF EntriesInv, TablesGood
<1>3. TablesGood(disk) /\ bg.todo \in Seq(TableContents) /\ <<>> \in Seq(TableContents)
  BY EmptySeq DEF EntriesInv, TablesGood
<1>4. ASSUME NEW d, DOMAIN d = DOMAIN Closed, Resume(d) \/ EndBackground(d),
             d.seek \in {db.seek, {}}, TablesGood(disk')
      PROVE  Good
  <2>1. db'.seek = d.seek
    BY <1>4, AfterResume, Fields
  <2> QED
    BY <1>3, <1>4, <2>1, ResumeTodo
<1>5. ASSUME disk'.tables = disk.tables PROVE TablesGood(disk')
  BY <1>3, <1>5 DEF TablesGood
<1>6. CASE BackgroundAfterError
  BY <1>0, <1>3, <1>4, <1>5, <1>6 DEF BackgroundAfterError
<1>7. CASE BeginCompactMemTable
  <2>1. /\ \E n : bg' = [bg EXCEPT !.pc = "build", !.kind = "flush", !.num = n]
        /\ \E n, s : db' = [db EXCEPT !.nextFile = n, !.pending = s]
        /\ UNCHANGED disk
    BY <1>7 DEF BeginCompactMemTable
  <2>2. bg'.todo = bg.todo /\ db'.seek = db.seek
    BY <1>0, <2>1, Fields
  <2> QED
    BY <1>3, <1>5, <2>1, <2>2
<1>8. CASE BuildTable
  <2> DEFINE E == UNION {db.memtables[m] : m \in db.imm}
  <2>1. E \in MemContents
    BY <1>1, FlushedMemtables DEF KeepsLogs
  <2>2. /\ disk' = IF E = {} THEN disk ELSE [disk EXCEPT !.tables = With(@, bg.num, E)]
        /\ \E e : bg' = [bg EXCEPT !.pc = "log", !.edit = e]
        /\ \E s : db' = [db EXCEPT !.pending = s]
    BY <1>8 DEF BuildTable
  <2> HIDE DEF E
  <2>3. bg'.todo = bg.todo /\ db'.seek = db.seek
    BY <1>0, <2>2, Fields
  <2>4. TablesGood(disk')
    BY <1>5, <2>1, <2>2, TableAdded DEF TableContents
  <2> QED
    BY <1>3, <2>3, <2>4
<1>9. CASE BeginCompaction
  BY <1>5, <1>9, BegunTodo
<1>10. CASE WriteOutput
  <2>1. /\ bg.todo # <<>> /\ disk' = [disk EXCEPT !.tables = With(@, db.nextFile, Head(bg.todo))]
        /\ \E x : bg' = [bg EXCEPT !.todo = Tail(@), !.made = x]
        /\ \E n, s : db' = [db EXCEPT !.nextFile = n, !.pending = s]
    BY <1>10 DEF WriteOutput
  <2>2. bg'.todo = Tail(bg.todo) /\ db'.seek = db.seek
    BY <1>0, <2>1, Fields
  <2>3. Head(bg.todo) \in TableContents /\ Tail(bg.todo) \in Seq(TableContents)
    BY <1>3, <2>1, HeadTailProperties
  <2>4. TablesGood(disk')
    BY <2>1, <2>3, TableAdded
  <2> QED
    BY <2>2, <2>3, <2>4
<1>11. CASE EndMerge
  <2>1. UNCHANGED <<disk, db>> /\ \E e : bg' = [bg EXCEPT !.pc = "log", !.kind = "merge", !.edit = e]
    BY <1>11 DEF EndMerge
  <2>2. bg'.todo = bg.todo
    BY <1>0, <2>1, Fields
  <2> QED
    BY <1>3, <1>5, <2>1, <2>2
<1>12. CASE InstallVersion
  <2> DEFINE d == [db EXCEPT !.current = Apply(@, bg.edit), !.logNumber = bg.edit.log, !.seek = {}]
  <2>1. DOMAIN d = DOMAIN Closed /\ d.seek = {}
    BY <1>0, Fields
  <2>2. /\ disk' = [disk EXCEPT !.manifest = Logged(@, bg.edit)]
        /\ \/ EndBackground(d)
           \/ db' = [d EXCEPT !.imm = {}] /\ bg' = [bg EXCEPT !.pc = "cleanup"]
           \/ db' = Unpend(d) /\ bg' = [BgIdle EXCEPT !.pc = "cleanup", !.kind = "merge"]
    BY <1>12 DEF InstallVersion
  <2> HIDE DEF d
  <2>3. TablesGood(disk')
    BY <1>0, <1>5, <2>2
  <2>4. CASE EndBackground(d)
    BY <1>4, <2>1, <2>3, <2>4
  <2>5. CASE db' = [d EXCEPT !.imm = {}] /\ bg' = [bg EXCEPT !.pc = "cleanup"]
    BY <1>0, <1>3, <2>1, <2>3, <2>5, Fields
  <2>6. CASE db' = Unpend(d) /\ bg' = [BgIdle EXCEPT !.pc = "cleanup", !.kind = "merge"]
    <3>1. bg'.todo = <<>>
      BY <2>6 DEF BgIdle
    <3>2. db'.seek = {}
      BY <2>1, <2>6, Fields DEF Unpend
    <3> QED
      BY <1>3, <2>3, <3>1, <3>2
  <2> QED
    BY <2>2, <2>4, <2>5, <2>6
<1>13. CASE BackgroundError
  <2> DEFINE d == [db EXCEPT !.bgError = TRUE, !.pending = @ \ {bg.num}]
  <2>1. DOMAIN d = DOMAIN Closed /\ d.seek = db.seek
    BY <1>0, Fields
  <2>2. /\ UNCHANGED disk \/ disk' = [disk EXCEPT !.manifest = Logged(@, bg.edit)]
        /\ EndBackground(Unpend(d)) \/ Resume(d)
    BY <1>13 DEF BackgroundError
  <2> HIDE DEF d
  <2>3. TablesGood(disk')
    BY <1>0, <1>5, <2>2
  <2>4. DOMAIN Unpend(d) = DOMAIN Closed /\ Unpend(d).seek = db.seek
    BY <2>1, Fields DEF Unpend
  <2>5. CASE Resume(d)
    BY <1>4, <2>1, <2>3, <2>5
  <2>6. CASE EndBackground(Unpend(d))
    <3> DEFINE u == Unpend(d)
    <3>1. DOMAIN u = DOMAIN Closed /\ u.seek = db.seek /\ EndBackground(u)
      BY <2>4, <2>6
    <3> HIDE DEF u
    <3> QED
      BY <1>4, <2>3, <3>1
  <2> QED
    BY <2>2, <2>5, <2>6
<1>14. CASE DeleteObsoleteFiles
  <2>1. Resume(db) /\ (UNCHANGED disk \/ disk' = WithoutObsolete(disk))
    BY <1>14 DEF DeleteObsoleteFiles
  <2>2. disk'.tables = disk.tables
        \/ disk'.tables = Restrict(disk.tables, DOMAIN disk.tables \cap LiveFiles)
    BY <1>0, <2>1 DEF WithoutObsolete
  <2>3. TablesGood(disk')
    BY <1>3, <2>2 DEF TablesGood, Restrict
  <2> QED
    BY <1>0, <1>4, <2>1, <2>3
<1> QED
  BY <1>6, <1>7, <1>8, <1>9, <1>10, <1>11, <1>12, <1>13, <1>14 DEF Background

\* The memtable of a replay becomes a table when it has entries.
LEMMA ReplayedTable ==
    ASSUME Shape, EntriesInv, NEW E \in TableContents, NEW d, DOMAIN d = DOMAIN Closed,
           DOMAIN d.replay = DOMAIN NoReplay, WriteReplayed(E, d)
    PROVE  TablesGood(disk') /\ db'.replay.mem \in MemContents
<1>1. /\ disk' = [disk EXCEPT !.tables = With(@, db.nextFile, E)]
      /\ \E n, s : db' = [d EXCEPT !.nextFile = n, !.pending = s, !.replay.mem = {}]
  BY DEF WriteReplayed
<1>2. db'.replay.mem = {}
  BY <1>1, Fields
<1> QED
  BY <1>1, <1>2, TableAdded, JoinedContents

\* A record that is replayed adds its entries.
LEMMA EntriesReplayRecord ==
    ASSUME Shape, NamesFiles, LogsOK, EntriesInv, ReplayRecord
    PROVE  TablesGood(disk') /\ db'.replay.mem \in MemContents
<1> DEFINE l == disk.logs[OldestLog]
           r == disk.logs[OldestLog].records[db.replay.pos + 1]
           mem == db.replay.mem \cup InsertInto(r.ops, r.seq)
           d == [db EXCEPT !.lastSeq = Max({@, r.seq + Len(r.ops) - 1}), !.replay.pos = @ + 1]
<1>0. /\ DOMAIN db = DOMAIN Closed /\ DOMAIN db.replay = DOMAIN NoReplay
      /\ db.replay.pos \in Nat
  BY DEF Shape, LogsOK
<1>1. /\ db.replay.logs # {} /\ db.replay.pos < Len(l.records)
      /\ IF Cardinality(mem) > WriteBufferSize THEN WriteReplayed(mem, d)
         ELSE db' = [d EXCEPT !.replay.mem = mem] /\ UNCHANGED disk
  BY DEF ReplayRecord, Replaying
<1>2. l.records \in Seq(LogRecords)
  BY <1>1, OldestIsLog DEF LogsOK
<1>3. r \in LogRecords
  <2> DEFINE p == db.replay.pos
             k == Len(l.records)
  <2>1. k \in Nat /\ p \in Nat /\ p < k
    BY <1>0, <1>1, <1>2, LenProperties
  <2> HIDE DEF p, k, l
  <2>2. p + 1 \in 1..k
    BY <2>1
  <2>3. db.replay.pos + 1 \in 1..Len(l.records)
    BY <2>2 DEF p, k
  <2>4. l.records[db.replay.pos + 1] \in LogRecords
    BY <1>2, <2>3, ElementOfSeq
  <2> QED
    BY <2>4 DEF l
<1>4. mem \in MemContents
  <2>1. r.seq \in Nat \ {0} /\ r.ops \in Seq(Operations)
    BY <1>3 DEF LogRecords
  <2> HIDE DEF r
  <2>2. InsertInto(r.ops, r.seq) \in MemContents
    BY <2>1, InsertedEntries
  <2> QED
    BY <2>2, JoinedContents DEF EntriesInv
<1>5. /\ DOMAIN d = DOMAIN Closed /\ DOMAIN d.replay = DOMAIN NoReplay
  <2> HIDE DEF r
  <2> QED
    BY <1>0, Fields
<1> HIDE DEF mem, d
<1>6. CASE Cardinality(mem) > WriteBufferSize
  <2>1. mem # {}
    <3>1. WriteBufferSize \in Nat
      BY LevelDBAssumption
    <3>2. ASSUME mem = {} PROVE FALSE
      <4>1. Cardinality(mem) = 0
        BY <3>2, FS_EmptySet
      <4> QED
        BY <1>6, <3>1, <4>1
    <3> QED
      BY <3>2
  <2> QED
    BY <1>1, <1>4, <1>5, <1>6, <2>1, ReplayedTable DEF TableContents
<1>7. CASE ~(Cardinality(mem) > WriteBufferSize)
  <2>1. db' = [d EXCEPT !.replay.mem = mem] /\ UNCHANGED disk
    BY <1>1, <1>7
  <2>2. db'.replay.mem = mem
    BY <1>5, <2>1, Fields
  <2> QED
    BY <1>4, <2>1, <2>2 DEF EntriesInv, TablesGood
<1> QED
  BY <1>6, <1>7

\* At the end of a log what is left of it becomes a table, if there is something.
LEMMA EntriesEndOfLog ==
    ASSUME Shape, EntriesInv, EndOfLog
    PROVE  TablesGood(disk') /\ db'.replay.mem \in MemContents
<1> DEFINE d == [db EXCEPT !.nextFile = Max({@, OldestLog + 1}),
                           !.replay.logs = @ \ {OldestLog}, !.replay.pos = 0]
<1>0. DOMAIN db = DOMAIN Closed /\ DOMAIN db.replay = DOMAIN NoReplay
  BY DEF Shape
<1>1. IF db.replay.mem # {} THEN WriteReplayed(db.replay.mem, d)
      ELSE db' = d /\ UNCHANGED disk
  BY DEF EndOfLog
<1>2. /\ DOMAIN d = DOMAIN Closed /\ DOMAIN d.replay = DOMAIN NoReplay
      /\ d.replay.mem = db.replay.mem
  BY <1>0, Fields
<1> HIDE DEF d
<1>3. CASE db.replay.mem # {}
  <2>1. db.replay.mem \in TableContents
    BY <1>3 DEF EntriesInv, TableContents
  <2> QED
    BY <1>1, <1>2, <1>3, <2>1, ReplayedTable
<1>4. CASE db.replay.mem = {}
  BY <1>1, <1>2, <1>4, JoinedContents DEF EntriesInv, TablesGood
<1> QED
  BY <1>3, <1>4

\* A step of DB::Open keeps the contents, or writes what it has replayed.
LEMMA EntriesOpening ==
    ASSUME Shape, NothingBeforeOpen, NamesFiles, LogsOK, EntriesInv, Opening
    PROVE  EntriesInv'
<1>0. DOMAIN db = DOMAIN Closed /\ DOMAIN disk = {"tables", "logs", "manifest"}
  BY Fields DEF Shape
<1>1. CASE Recover
  <2>1. /\ db'.up = "replaying" /\ db'.memtables = <<>> /\ db'.replay.mem = {} /\ db'.seek = {}
        /\ UNCHANGED <<disk, bg>>
    BY <1>1 DEF Recover, Closed, NoReplay
  <2> QED
    BY <2>1, JoinedContents DEF EntriesInv
<1>2. CASE ReplayRecord \/ EndOfLog
  <2>1. TablesGood(disk') /\ db'.replay.mem \in MemContents
    BY <1>2, EntriesReplayRecord, EntriesEndOfLog
  <2>2. /\ db.up = "replaying" /\ UNCHANGED bg
        /\ \A x \in DOMAIN Closed \ {"replay", "lastSeq", "nextFile", "pending"} : db'[x] = db[x]
    BY <1>2, ReplayDoes
  <2>3. db'.up = db.up /\ db'.memtables = db.memtables /\ db'.seek = db.seek
    BY <2>2, Fields
  <2> QED
    BY <2>1, <2>2, <2>3 DEF EntriesInv, TablesGood
<1>3. CASE BeginLog
  <2>1. /\ \E logs : disk' = [disk EXCEPT !.logs = logs]
        /\ \E n, log : db' = [db EXCEPT !.up = "replayed", !.nextFile = n, !.log = log,
                                        !.memtables = With(<<>>, db.nextFile, {})]
        /\ UNCHANGED bg
    BY <1>3 DEF BeginLog
  <2>2. disk'.tables = disk.tables
    BY <1>0, <2>1
  <2>3. /\ db'.up = "replayed" /\ db'.replay = db.replay /\ db'.seek = db.seek
        /\ db'.memtables = With(<<>>, db.nextFile, {})
    BY <1>0, <2>1, Fields
  <2> DEFINE none == <<>>
             g == With(none, db.nextFile, {})
  <2>4. \A m \in DOMAIN none : none[m] \in MemContents
    OBVIOUS
  <2> HIDE DEF none
  <2>5. \A m \in DOMAIN g : g[m] \in MemContents
    BY <2>4, WithKeeps, JoinedContents
  <2>6. db'.memtables = g
    BY <2>3 DEF none
  <2> QED
    BY <2>1, <2>2, <2>3, <2>5, <2>6 DEF EntriesInv
<1>4. CASE InstallRecovered
  <2>1. /\ \E m : disk' = [disk EXCEPT !.manifest = m]
        /\ \E v, n : db' = [db EXCEPT !.up = "installed", !.current = v,
                                      !.logNumber = n, !.pending = {}]
        /\ UNCHANGED bg
    BY <1>4 DEF InstallRecovered
  <2>2. disk'.tables = disk.tables
    BY <1>0, <2>1
  <2>3. /\ db'.up = "installed" /\ db'.replay = db.replay /\ db'.seek = db.seek
        /\ db'.memtables = db.memtables
    BY <1>0, <2>1, Fields
  <2> QED
    BY <2>1, <2>2, <2>3 DEF EntriesInv
<1>5. CASE FinishOpen
  <2> DEFINE d == [db EXCEPT !.up = "open"]
  <2>1. disk' = WithoutObsolete(disk) /\ db' = MaybeSchedule(d) /\ UNCHANGED bg
    BY <1>5 DEF FinishOpen
  <2>2. /\ DOMAIN d = DOMAIN Closed /\ d.up = "open" /\ d.replay = db.replay
        /\ d.seek = db.seek /\ d.memtables = db.memtables
    BY <1>0, Fields
  <2> HIDE DEF d
  <2>3. /\ db'.up = "open" /\ db'.replay = db.replay /\ db'.seek = db.seek
        /\ db'.memtables = db.memtables
    BY <2>1, <2>2, MaybeScheduleShape, Fields
  <2>4. disk'.tables = Restrict(disk.tables, DOMAIN disk.tables \cap LiveFiles)
    BY <1>0, <2>1 DEF WithoutObsolete
  <2>5. \A n \in DOMAIN disk'.tables : disk'.tables[n] \in TableContents
    BY <2>4 DEF EntriesInv, Restrict
  <2> QED
    BY <2>1, <2>3, <2>5 DEF EntriesInv
<1> QED
  BY <1>1, <1>2, <1>3, <1>4, <1>5 DEF Opening

\* Every step keeps the contents.
LEMMA EntriesNext ==
    ASSUME CrashInv, EntriesInv, [Next]_vars
    PROVE  EntriesInv'
<1>0. /\ Shape /\ NothingBeforeOpen /\ NamesFiles /\ FinitelyMany /\ KeepsLogs
      /\ GroupIsLogged /\ LogsOK
  BY DEF CrashInv, LogsInv, FilesInv, NamesFiles, KeepsLogs
<1>1. CASE UNCHANGED vars
  BY <1>1 DEF vars, EntriesInv
<1>2. CASE Next
  BY <1>0, <1>2, EntriesWriter, EntriesReader, EntriesBackground, EntriesOpening, EntriesCrash DEF Next
<1> QED
  BY <1>1, <1>2

\* In every reachable state memtables and tables hold entries, a table at least one,
\* and what a merge still has to write is such a table (WriteLevel0Table,
\* DoCompactionWork, RecoverLogFile).
THEOREM EntriesInvariant == Spec => []EntriesInv
<1>1. CrashInv /\ EntriesInv /\ [Next]_vars => EntriesInv'
  BY EntriesNext
<1> QED
  BY <1>1, EntriesInit, CrashInvariant, PTL DEF Spec

\* A queue that holds nothing twice is as long as the set of what it holds.
LEMMA QueueCounts ==
    ASSUME NEW S, NEW q \in Seq(S), \A i, j \in DOMAIN q : q[i] = q[j] => i = j
    PROVE  Len(q) = Cardinality(ToSet(q))
<1>1. /\ Len(q) \in Nat /\ DOMAIN q = 1..Len(q) /\ \A i \in 1..Len(q) : q[i] \in ToSet(q)
      /\ \A x \in ToSet(q) : \E i \in 1..Len(q) : q[i] = x
  BY LenProperties DEF ToSet
<1>2. \A i, j \in 1..Len(q) : q[i] = q[j] => i = j
  BY <1>1
<1>3. IsFiniteSet(1..Len(q)) /\ Cardinality(1..Len(q)) = Len(q)
  <2>1. Len(q) \in Int /\ 1 \in Int
    BY <1>1
  <2>2. /\ IsFiniteSet(1..Len(q))
        /\ Cardinality(1..Len(q)) = IF 1 > Len(q) THEN 0 ELSE Len(q) - 1 + 1
    BY <2>1, FS_Interval
  <2> QED
    BY <1>1, <2>2
<1> DEFINE I == 1..Len(q)
           T == ToSet(q)
<1> HIDE DEF I, T
<1>4. \A i \in I : q[i] \in T
  BY <1>1 DEF I, T
<1>5. \A x \in T : \E i \in I : q[i] = x
  BY <1>1 DEF I, T
<1>6. \A i, j \in I : q[i] = q[j] => i = j
  BY <1>2 DEF I
<1> DEFINE f == [i \in I |-> q[i]]
<1>7. f \in Bijection(I, T)
  <2>1. f \in [I -> T]
    BY <1>4
  <2>2. IsInjective(f)
    BY <1>6 DEF IsInjective
  <2>3. \A x \in T : \E i \in I : f[i] = x
    BY <1>5
  <2> QED
    BY <2>1, <2>2, <2>3 DEF Bijection, Injection, Surjection
<1>8. ExistsBijection(I, T)
  BY <1>7 DEF ExistsBijection
<1> QED
  BY <1>3, <1>8, FS_Bijection DEF I, T

\* The type invariant of leveldb: the database is in one of its five states, tables
\* hold entries, no more of a log is synced than it has, and the queue holds exactly
\* the writers that wait, each once and all but the first queued.
THEOREM LevelDBTypeCorrect == Spec => []TypeOK
<1>1. ASSUME EntriesInv, CrashInv PROVE TypeOK
  <2>1. \A n \in DOMAIN disk.tables : disk.tables[n] \subseteq Entries /\ disk.tables[n] # {}
    BY <1>1 DEF EntriesInv, TableContents, MemContents
  <2>2. \A n \in DOMAIN disk.logs : disk.logs[n].synced \in 0..Len(disk.logs[n].records)
    <3>1. LogsOK
      BY <1>1 DEF CrashInv
    <3> TAKE n \in DOMAIN disk.logs
    <3>2. /\ disk.logs[n].records \in Seq(LogRecords) /\ disk.logs[n].synced \in Nat
          /\ disk.logs[n].synced <= Len(disk.logs[n].records)
      BY <3>1 DEF LogsOK
    <3>3. Len(disk.logs[n].records) \in Nat
      BY <3>2, LenProperties
    <3> QED
      BY <3>2, <3>3
  <2>3. queue \in Seq(Writers) /\ DOMAIN queue = 1..Len(queue) /\ Len(queue) \in Nat
    BY <1>1, LenProperties DEF CrashInv, LogsInv, FirstIsBusy
  <2>4. ToSet(queue) = {w \in Writers : writer[w].pc # "idle"}
    <3>1. ToSet(queue) = {queue[i] : i \in DOMAIN queue}
      BY DEF ToSet
    <3>2. \A i \in DOMAIN queue : queue[i] \in Writers
      BY <2>3, ElementOfSeq
    <3> QED
      BY <1>1, <3>1, <3>2 DEF CrashInv, QueueOK
  <2>5. Len(queue) = Cardinality(ToSet(queue))
    BY <1>1, <2>3, QueueCounts DEF CrashInv, QueueOK
  <2>6. \A i \in 2..Len(queue) : writer[queue[i]].pc = "queued"
    BY <1>1, <2>3 DEF CrashInv, QueueOK
  <2> QED
    BY <1>1, <2>1, <2>2, <2>4, <2>5, <2>6 DEF TypeOK, EntriesInv
<1> QED
  BY <1>1, EntriesInvariant, CrashInvariant, PTL
=============================================================================
