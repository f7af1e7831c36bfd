-------------------------- MODULE LogFormatProofs --------------------------
(***************************************************************************)
(* What the log of leveldb promises, for blocks and headers of every size, *)
(* records of every length and any number of records, failures and         *)
(* crashes.                                                                *)
(*                                                                         *)
(* The argument is about the bytes of the file.  BytesOK: a byte that is   *)
(* not the first of its physical record is behind the byte before it, and  *)
(* physical records come in the order they were emitted, whatever was cut  *)
(* off by a crash or a failed append.  Follows: a "middle" or "last"       *)
(* physical record is right behind the whole one before it.  What          *)
(* ReadRecord joins in scratch is therefore a run of consecutive physical  *)
(* records of one AddRecord.  When nothing failed, the records also sit in *)
(* the blocks where the reader looks for them (Aligned), so that it finds  *)
(* no bad record at all and its position is always the end of a physical   *)
(* record or padding (AtInv).                                              *)
(***************************************************************************)
EXTENDS LogFormatProperties, SequenceTheorems, WellFoundedInduction, TLAPS

\* The types of physical records.
Types == {"full", "first", "middle", "last"}
\* A byte of the file: its physical record and its place in it.
Pair == Nat \X Nat
\* What the model remembers of a physical record that the writer emitted.
PhysicalRecord == [record : Nat, length : 0..(BlockSize - HeaderSize), type : Types]
\* What the fields of reader hold.
ReaderType == [pos : Nat, buffer : Seq(Pair), eof : BOOLEAN, scratch : Seq(Nat),
               inFragmented : BOOLEAN, records : Seq(Seq(Nat)), reports : Nat]

\* The size of physical record p of e, with its header.
SizeIn(e, p) == HeaderSize + e[p].length

\* The types of the variables.
Typed ==
    /\ file \in Seq(Pair)
    /\ pc \in {"idle", "adding", "reading", "done"}
    /\ writer \in [offset : 0..BlockSize, left : Nat, begin : BOOLEAN]
    /\ added \in Seq({"adding", "ok", "failed"})
    /\ emitted \in Seq(PhysicalRecord)
    /\ reader \in ReaderType
    /\ failed \in [appends : Nat, reads : Nat]
    /\ crash \in [count : Nat, machine : BOOLEAN, torn : BOOLEAN]

-----------------------------------------------------------------------------
\* The inductive invariant.

\* Physical records are emitted record by record, each from its "first" on.
InOrder(e) ==
    /\ \A p, q \in DOMAIN e : p < q => e[p].record <= e[q].record
    /\ \A p \in DOMAIN e : e[p].type \in {"middle", "last"} =>
          p - 1 \in DOMAIN e /\ e[p - 1].record = e[p].record /\ e[p - 1].type \in {"first", "middle"}
    /\ \A p \in DOMAIN e : e[p].type \in {"full", "first"} =>
          \A q \in DOMAIN e : q < p => e[q].record < e[p].record

\* Physical record p is in file f up to its last byte, which is byte y.
EndsAt(f, e, y, p) == y \in DOMAIN f /\ f[y] = <<p, SizeIn(e, p)>>

\* There is only padding between bytes y and x.
Padding(f, y, x) == \A z \in DOMAIN f : y < z /\ z < x => f[z] = Zero

\* The bytes of a physical record are next to each other, from the first one
\* on, and physical records are in the order of their numbers.
BytesOK(f, e) ==
    /\ \A x \in DOMAIN f : f[x] = Zero
          \/ (f[x][1] \in DOMAIN e /\ f[x][2] >= 1 /\ f[x][2] <= SizeIn(e, f[x][1]))
    /\ \A x \in DOMAIN f : f[x][2] > 1 =>
          x - 1 \in DOMAIN f /\ f[x - 1] = <<f[x][1], f[x][2] - 1>>
    /\ \A x, y \in DOMAIN f : x < y /\ f[x] # Zero /\ f[y] # Zero =>
          f[x][1] < f[y][1] \/ (f[x][1] = f[y][1] /\ f[y][2] - f[x][2] = y - x)

\* A physical record whose type is in T is behind the one before it, whole.
Follows(f, e, T) ==
    \A x \in DOMAIN f : f[x][2] = 1 /\ f[x][1] > 1 /\ e[f[x][1]].type \in T =>
        \E y \in DOMAIN f : /\ y < x /\ x - y <= HeaderSize
                            /\ EndsAt(f, e, y, f[x][1] - 1) /\ Padding(f, y, x)

\* The writer goes on with the record of the last call of AddRecord, at the
\* end of the file.
WriterOK ==
    /\ \A p \in DOMAIN emitted : emitted[p].record >= 1 /\ emitted[p].record <= Len(added)
    /\ pc = "adding" =>
          /\ added # <<>>
          /\ writer.begin => \A p \in DOMAIN emitted : emitted[p].record < Len(added)
          /\ ~writer.begin =>
                /\ emitted # <<>> /\ emitted[Len(emitted)].record = Len(added)
                /\ emitted[Len(emitted)].type \in {"first", "middle"}
                /\ EndsAt(file, emitted, Len(file), Len(emitted))
    /\ pc \in {"idle", "adding"} => reader = NewReader

\* How far the reader is in the file: what is before its buffer.
At == reader.pos - Len(reader.buffer)

\* s is a run of consecutive numbers.
Run(s) == \A i \in DOMAIN s : s[i] = s[1] + i - 1

\* s is a run of physical records of one record, from its first one on, whole
\* in the file.
Begun(f, e, s) ==
    /\ Run(s)
    /\ \A i \in DOMAIN s : s[i] \in DOMAIN e /\ e[s[i]].record = e[s[1]].record
    /\ \A i \in DOMAIN s : \E y \in DOMAIN f : f[y] = <<s[i], SizeIn(e, s[i])>>
    /\ s # <<>> => e[s[1]].type \in {"full", "first"}

\* No operation on the file has failed, and no log that ends in the middle of a
\* physical record was gone on with.
Clean == failed.appends = 0 /\ failed.reads = 0 /\ ~crash.torn

\* A physical record or padding ends with byte x.
Boundary(f, e, x) == x = 0 \/ f[x] = Zero \/ f[x][2] = SizeIn(e, f[x][1])

\* Physical records fit in their blocks, one directly behind the other, and
\* padding is only where no header fits.
Aligned(f, e) ==
    \A x \in DOMAIN f : f[x][2] <= 1 =>
        /\ Boundary(f, e, x - 1)
        /\ f[x] = Zero => ((x - 1) % BlockSize) + HeaderSize > BlockSize
        /\ f[x] # Zero => ((x - 1) % BlockSize) + SizeIn(e, f[x][1]) <= BlockSize

-----------------------------------------------------------------------------

\* The sizes of blocks and headers.
LEMMA SizesOfBlocks ==
    BlockSize \in Nat /\ HeaderSize \in Nat /\ HeaderSize >= 1 /\ HeaderSize < BlockSize
BY LogFormatAssumption

\* The size of a physical record.
LEMMA SizeOfRecord ==
    ASSUME NEW e \in Seq(PhysicalRecord), NEW p \in DOMAIN e
    PROVE  /\ e[p] \in PhysicalRecord
           /\ e[p].length \in Nat /\ e[p].type \in Types /\ e[p].record \in Nat
           /\ SizeIn(e, p) \in Nat /\ SizeIn(e, p) >= HeaderSize /\ SizeIn(e, p) <= BlockSize
<1>1. e[p] \in PhysicalRecord
  BY ElementOfSeq, LenProperties
<1>2. e[p].length \in 0..(BlockSize - HeaderSize)
  BY <1>1 DEF PhysicalRecord
<1>3. e[p].type \in Types /\ e[p].record \in Nat
  BY <1>1 DEF PhysicalRecord
<1> DEFINE l == e[p].length
<1> HIDE DEF l
<1>4. l \in 0..(BlockSize - HeaderSize) /\ SizeIn(e, p) = HeaderSize + l
  BY <1>2 DEF l, SizeIn
<1>5. SizeIn(e, p) \in Nat /\ SizeIn(e, p) >= HeaderSize /\ SizeIn(e, p) <= BlockSize
  BY <1>4, SizesOfBlocks
<1> QED
  BY <1>1, <1>2, <1>3, <1>5, SizesOfBlocks

\* A byte is a pair of numbers.
LEMMA BytePair ==
    ASSUME NEW f \in Seq(Pair), NEW x \in DOMAIN f
    PROVE  /\ x \in Nat /\ x >= 1 /\ x <= Len(f) /\ Len(f) \in Nat
           /\ f[x][1] \in Nat /\ f[x][2] \in Nat
           /\ f[x] = <<f[x][1], f[x][2]>>
           /\ f[x] = Zero <=> f[x][1] = 0 /\ f[x][2] = 0
<1>1. f[x] \in Pair
  BY ElementOfSeq, LenProperties
<1>2. x \in Nat /\ x >= 1 /\ x <= Len(f) /\ Len(f) \in Nat
  BY LenProperties
<1>3. PICK a \in Nat, b \in Nat : f[x] = <<a, b>>
  BY <1>1 DEF Pair
<1> QED
  BY <1>2, <1>3 DEF Zero

-----------------------------------------------------------------------------
\* g is the beginning of f.
Cut(g, f) ==
    g \in Seq(Pair) /\ Len(g) <= Len(f) /\ \A x \in DOMAIN g : x \in DOMAIN f /\ g[x] = f[x]

\* What SubSeq leaves is a beginning of the file.
LEMMA SubSeqIsCut ==
    ASSUME NEW f \in Seq(Pair), NEW n \in 0..Len(f)
    PROVE  Cut(SubSeq(f, 1, n), f) /\ Len(SubSeq(f, 1, n)) = n
<1> DEFINE g == SubSeq(f, 1, n)
<1>1. g \in Seq(Pair) /\ Len(g) = n /\ \A i \in 1..n : g[i] = f[i]
  BY SubSeqProperties, LenProperties
<1> HIDE DEF g
<1>2. DOMAIN g = 1..n /\ DOMAIN f = 1..Len(f) /\ Len(f) \in Nat /\ n \in Nat
  BY <1>1, LenProperties
<1>3. Cut(g, f)
  BY <1>1, <1>2 DEF Cut
<1> QED
  BY <1>1, <1>3 DEF g

\* A beginning of a file that is in order is in order.
LEMMA CutIsOK ==
    ASSUME NEW f \in Seq(Pair), NEW g, NEW e \in Seq(PhysicalRecord), Cut(g, f),
           NEW T, BytesOK(f, e), Follows(f, e, T)
    PROVE  BytesOK(g, e) /\ Follows(g, e, T)
<1>1. g \in Seq(Pair) /\ \A x \in DOMAIN g : x \in DOMAIN f /\ g[x] = f[x]
  BY DEF Cut
<1>d. DOMAIN f = 1..Len(f) /\ DOMAIN g = 1..Len(g) /\ Len(f) \in Nat /\ Len(g) \in Nat
  BY <1>1, LenProperties
<1>2. \A x \in DOMAIN g : \A y \in Nat : y >= 1 /\ y <= x => y \in DOMAIN g
  BY <1>d
<1>3. ASSUME NEW x \in DOMAIN g
      PROVE  \/ g[x] = Zero
             \/ (g[x][1] \in DOMAIN e /\ g[x][2] >= 1 /\ g[x][2] <= SizeIn(e, g[x][1]))
  BY <1>1 DEF BytesOK
<1>4. ASSUME NEW x \in DOMAIN g, g[x][2] > 1
      PROVE  x - 1 \in DOMAIN g /\ g[x - 1] = <<g[x][1], g[x][2] - 1>>
  <2>1. x - 1 \in DOMAIN f /\ f[x - 1] = <<f[x][1], f[x][2] - 1>>
    BY <1>1, <1>4 DEF BytesOK
  <2>2. x - 1 \in DOMAIN g
    BY <2>1, <1>d
  <2> QED
    BY <1>1, <2>1, <2>2
<1>5. ASSUME NEW x \in DOMAIN g, NEW y \in DOMAIN g, x < y, g[x] # Zero, g[y] # Zero
      PROVE  g[x][1] < g[y][1] \/ (g[x][1] = g[y][1] /\ g[y][2] - g[x][2] = y - x)
  BY <1>1, <1>5 DEF BytesOK
<1>6. BytesOK(g, e)
  BY <1>3, <1>4, <1>5 DEF BytesOK
<1>7. ASSUME NEW x \in DOMAIN g, g[x][2] = 1, g[x][1] > 1, e[g[x][1]].type \in T
      PROVE  \E y \in DOMAIN g : /\ y < x /\ x - y <= HeaderSize
                                 /\ EndsAt(g, e, y, g[x][1] - 1) /\ Padding(g, y, x)
  <2>1. PICK y \in DOMAIN f : /\ y < x /\ x - y <= HeaderSize
                              /\ EndsAt(f, e, y, f[x][1] - 1) /\ Padding(f, y, x)
    BY <1>1, <1>7 DEF Follows
  <2>2. y \in DOMAIN g
    BY <1>d, <2>1
  <2>3. EndsAt(g, e, y, g[x][1] - 1)
    BY <1>1, <2>1, <2>2 DEF EndsAt
  <2>4. Padding(g, y, x)
    BY <1>1, <2>1 DEF Padding
  <2> QED
    BY <2>1, <2>2, <2>3, <2>4
<1> QED
  BY <1>6, <1>7 DEF Follows

\* e2 has the physical records of e, and perhaps more.
Longer(e2, e) ==
    /\ e2 \in Seq(PhysicalRecord) /\ Len(e) <= Len(e2)
    /\ \A p \in DOMAIN e : p \in DOMAIN e2 /\ e2[p] = e[p] /\ SizeIn(e2, p) = SizeIn(e, p)

\* A physical record is added.
LEMMA AppendIsLonger ==
    ASSUME NEW e \in Seq(PhysicalRecord), NEW fragment \in PhysicalRecord
    PROVE  /\ Longer(Append(e, fragment), e)
           /\ Len(Append(e, fragment)) = Len(e) + 1 /\ Len(e) \in Nat
           /\ Append(e, fragment)[Len(e) + 1] = fragment
           /\ Len(e) + 1 \in DOMAIN Append(e, fragment)
           /\ \A p \in DOMAIN Append(e, fragment) : p = Len(e) + 1 \/ p \in DOMAIN e
<1> DEFINE e2 == Append(e, fragment)
<1>1. /\ e2 \in Seq(PhysicalRecord) /\ Len(e2) = Len(e) + 1
      /\ \A i \in 1..Len(e) : e2[i] = e[i]
      /\ e2[Len(e) + 1] = fragment
  BY AppendProperties
<1> HIDE DEF e2
<1>2. Len(e) \in Nat /\ DOMAIN e = 1..Len(e) /\ DOMAIN e2 = 1..(Len(e) + 1)
  BY <1>1, LenProperties
<1>3. \A p \in DOMAIN e : p \in DOMAIN e2 /\ e2[p] = e[p]
  BY <1>1, <1>2
<1>4. Longer(e2, e)
  BY <1>1, <1>2, <1>3 DEF Longer, SizeIn
<1>5. \A p \in DOMAIN e2 : p = Len(e) + 1 \/ p \in DOMAIN e
  BY <1>2
<1> QED
  BY <1>1, <1>2, <1>4, <1>5 DEF e2

\* The records stay in order when a fragment of the last one or of a new one
\* is added.
LEMMA AppendInOrder ==
    ASSUME NEW e \in Seq(PhysicalRecord), NEW fragment \in PhysicalRecord, InOrder(e),
           \A p \in DOMAIN e : e[p].record <= fragment.record,
           fragment.type \in {"full", "first"} => \A p \in DOMAIN e : e[p].record < fragment.record,
           fragment.type \in {"middle", "last"} =>
              /\ e # <<>> /\ e[Len(e)].record = fragment.record
              /\ e[Len(e)].type \in {"first", "middle"}
    PROVE  InOrder(Append(e, fragment))
<1> DEFINE e2 == Append(e, fragment)
           n == Len(e) + 1
<1>1. /\ Longer(e2, e) /\ Len(e) \in Nat /\ e2[n] = fragment /\ n \in DOMAIN e2
      /\ \A p \in DOMAIN e2 : p = n \/ p \in DOMAIN e
  BY AppendIsLonger
<1> HIDE DEF e2
<1>2. /\ DOMAIN e = 1..Len(e)
      /\ \A p \in DOMAIN e : p \in DOMAIN e2 /\ e2[p] = e[p]
  BY <1>1, LenProperties DEF Longer
<1>3. \A p \in DOMAIN e : p \in Nat /\ p < n
  BY <1>1, <1>2
<1>4. ASSUME NEW p \in DOMAIN e2, NEW q \in DOMAIN e2, p < q
      PROVE  e2[p].record <= e2[q].record
  <2>1. p \in DOMAIN e
    BY <1>1, <1>3, <1>4
  <2>2. CASE q = n
    BY <2>1, <2>2, <1>1, <1>2
  <2>3. CASE q \in DOMAIN e
    BY <2>1, <2>3, <1>2, <1>4 DEF InOrder
  <2> QED
    BY <1>1, <2>2, <2>3
<1>5. ASSUME NEW p \in DOMAIN e2, e2[p].type \in {"middle", "last"}
      PROVE  p - 1 \in DOMAIN e2 /\ e2[p - 1].record = e2[p].record /\ e2[p - 1].type \in {"first", "middle"}
  <2>1. CASE p = n
    <3>1. n - 1 = Len(e) /\ Len(e) \in DOMAIN e
      BY <2>1, <1>1, <1>2, <1>5, EmptySeq
    <3> QED
      BY <3>1, <2>1, <1>1, <1>2, <1>5
  <2>2. CASE p \in DOMAIN e
    <3>1. p - 1 \in DOMAIN e /\ e[p - 1].record = e[p].record /\ e[p - 1].type \in {"first", "middle"}
      BY <2>2, <1>2, <1>5 DEF InOrder
    <3> QED
      BY <3>1, <2>2, <1>2
  <2> QED
    BY <1>1, <2>1, <2>2
<1>6. ASSUME NEW p \in DOMAIN e2, e2[p].type \in {"full", "first"}, NEW q \in DOMAIN e2, q < p
      PROVE  e2[q].record < e2[p].record
  <2>1. q \in DOMAIN e
    BY <1>1, <1>3, <1>6
  <2>2. CASE p = n
    BY <2>1, <2>2, <1>1, <1>2, <1>6
  <2>3. CASE p \in DOMAIN e
    BY <2>1, <2>3, <1>2, <1>6 DEF InOrder
  <2> QED
    BY <1>1, <2>2, <2>3
<1>7. InOrder(e2)
  BY <1>4, <1>5, <1>6 DEF InOrder
<1> QED
  BY <1>7 DEF e2

\* The bytes of the file do not mind that there are more physical records.
LEMMA LongerIsOK ==
    ASSUME NEW f \in Seq(Pair), NEW e \in Seq(PhysicalRecord), NEW e2, Longer(e2, e),
           NEW T, BytesOK(f, e), Follows(f, e, T)
    PROVE  BytesOK(f, e2) /\ Follows(f, e2, T)
<1>1. \A p \in DOMAIN e : p \in DOMAIN e2 /\ e2[p] = e[p] /\ SizeIn(e2, p) = SizeIn(e, p)
  BY DEF Longer
<1>2. \A x \in DOMAIN f : f[x] = Zero
          \/ (f[x][1] \in DOMAIN e2 /\ f[x][2] >= 1 /\ f[x][2] <= SizeIn(e2, f[x][1]))
  BY <1>1 DEF BytesOK
<1>3. BytesOK(f, e2)
  BY <1>2 DEF BytesOK
<1>4. ASSUME NEW x \in DOMAIN f, f[x][2] = 1, f[x][1] > 1, e2[f[x][1]].type \in T
      PROVE  \E y \in DOMAIN f : /\ y < x /\ x - y <= HeaderSize
                                 /\ EndsAt(f, e2, y, f[x][1] - 1) /\ Padding(f, y, x)
  <2>1. f[x][1] \in DOMAIN e
    BY <1>4, BytePair DEF BytesOK
  <2>2. e[f[x][1]].type \in T
    BY <2>1, <1>1, <1>4
  <2>3. f[x][1] - 1 \in DOMAIN e
    <3> DEFINE p == f[x][1]
    <3>1. p \in DOMAIN e /\ p > 1 /\ DOMAIN e = 1..Len(e) /\ Len(e) \in Nat
      BY <2>1, <1>4, LenProperties
    <3> HIDE DEF p
    <3> QED
      BY <3>1 DEF p
  <2>4. SizeIn(e2, f[x][1] - 1) = SizeIn(e, f[x][1] - 1)
    BY <1>1, <2>3
  <2> QED
    BY <1>4, <2>2, <2>4 DEF Follows, EndsAt
<1> QED
  BY <1>3, <1>4 DEF Follows

\* The next physical record is at the end of the file, behind the padding.
Extended(g, f, t, p, size) ==
    /\ g \in Seq(Pair) /\ Len(g) = Len(f) + t + size
    /\ \A x \in DOMAIN g :
          /\ x <= Len(f) => x \in DOMAIN f /\ g[x] = f[x]
          /\ Len(f) < x /\ x <= Len(f) + t => g[x] = Zero
          /\ Len(f) + t < x => g[x] = <<p, x - Len(f) - t>>

\* The file stays in order when the next physical record is appended.
LEMMA ExtendedIsOK ==
    ASSUME NEW f \in Seq(Pair), NEW e \in Seq(PhysicalRecord), NEW t \in Nat, t < HeaderSize,
           NEW g, NEW n, n = Len(e), n \in DOMAIN e, Extended(g, f, t, n, SizeIn(e, n)),
           NEW T, BytesOK(f, e), Follows(f, e, T),
           \A x \in DOMAIN f : f[x][1] < n,
           n > 1 /\ e[n].type \in T => EndsAt(f, e, Len(f), n - 1)
    PROVE  BytesOK(g, e) /\ Follows(g, e, T)
<1> DEFINE m == Len(f)
           size == SizeIn(e, n)
<1>1. m \in Nat /\ DOMAIN f = 1..m /\ n \in Nat /\ n >= 1 /\ DOMAIN e = 1..n
  BY LenProperties
<1>2. size \in Nat /\ size >= HeaderSize /\ HeaderSize \in Nat /\ HeaderSize >= 1
  BY SizeOfRecord, SizesOfBlocks
<1>3. /\ g \in Seq(Pair)
      /\ \A x \in DOMAIN g :
          /\ x <= m => x \in DOMAIN f /\ g[x] = f[x]
          /\ m < x /\ x <= m + t => g[x] = Zero
          /\ m + t < x => g[x] = <<n, x - m - t>>
  BY DEF Extended
<1>4. DOMAIN g = 1..(m + t + size)
  BY <1>3, LenProperties DEF Extended
<1>p. size = SizeIn(e, n) /\ m = Len(f)
  OBVIOUS
<1> HIDE DEF m, size
<1>5. \A x \in DOMAIN g : x \in Nat /\ x >= 1 /\ x <= m + t + size
  BY <1>1, <1>2, <1>4
<1>6. \A x \in Nat : x >= 1 /\ x <= m + t + size => x \in DOMAIN g
  BY <1>1, <1>2, <1>4
<1>7. Zero[1] = 0 /\ Zero[2] = 0
  BY DEF Zero
<1>8. \A x \in DOMAIN g : x > m /\ g[x][2] >= 1 => m + t < x /\ g[x][1] = n /\ g[x][2] = x - m - t
  BY <1>1, <1>3, <1>5, <1>7
<1>9. ASSUME NEW x \in DOMAIN g
      PROVE  \/ g[x] = Zero
             \/ (g[x][1] \in DOMAIN e /\ g[x][2] >= 1 /\ g[x][2] <= SizeIn(e, g[x][1]))
  <2>1. CASE x <= m
    BY <2>1, <1>3 DEF BytesOK
  <2>2. CASE x > m /\ x <= m + t
    BY <2>2, <1>3
  <2>3. CASE x > m + t
    <3>1. g[x] = <<n, x - m - t>>
      BY <2>3, <1>3
    <3>2. x - m - t >= 1 /\ x - m - t <= size
      BY <2>3, <1>1, <1>2, <1>5
    <3> QED
      BY <3>1, <3>2, <1>p
  <2> QED
    BY <1>1, <1>5, <2>1, <2>2, <2>3
<1>10. ASSUME NEW x \in DOMAIN g, g[x][2] > 1
      PROVE  x - 1 \in DOMAIN g /\ g[x - 1] = <<g[x][1], g[x][2] - 1>>
  <2>1. CASE x <= m
    <3>1. x - 1 \in DOMAIN f /\ f[x - 1] = <<f[x][1], f[x][2] - 1>>
      BY <2>1, <1>3, <1>10 DEF BytesOK
    <3>2. x - 1 \in DOMAIN g /\ x - 1 <= m
      BY <3>1, <1>1, <1>2, <1>4
    <3> QED
      BY <3>1, <3>2, <2>1, <1>3
  <2>2. CASE x > m
    <3>0. g[x][2] \in Nat /\ g[x][2] >= 1
      BY <1>3, <1>10, BytePair
    <3>1. m + t < x /\ g[x][1] = n /\ g[x][2] = x - m - t
      BY <2>2, <1>8, <3>0
    <3>5. x - m - t > 1
      BY <3>1, <1>10
    <3>6. m + t < x - 1
      BY <3>5, <1>1, <1>5
    <3>2. x - 1 \in DOMAIN g /\ m + t < x - 1
      BY <3>6, <1>1, <1>2, <1>5, <1>6
    <3>3. g[x - 1] = <<n, (x - 1) - m - t>>
      BY <3>2, <1>3
    <3>4. (x - 1) - m - t = g[x][2] - 1
      BY <3>1, <1>1, <1>5
    <3> QED
      BY <3>1, <3>2, <3>3, <3>4
  <2> QED
    BY <1>1, <1>5, <2>1, <2>2
<1>11. ASSUME NEW x \in DOMAIN g, NEW y \in DOMAIN g, x < y, g[x] # Zero, g[y] # Zero
      PROVE  g[x][1] < g[y][1] \/ (g[x][1] = g[y][1] /\ g[y][2] - g[x][2] = y - x)
  <2>1. CASE y <= m
    <3>1. x <= m
      BY <2>1, <1>1, <1>5, <1>11
    <3> QED
      BY <3>1, <2>1, <1>3, <1>11 DEF BytesOK
  <2>2. CASE y > m /\ x <= m
    <3>1. m + t < y /\ g[y] = <<n, y - m - t>>
      BY <2>2, <1>3, <1>11, <1>5, <1>1
    <3>2. x \in DOMAIN f /\ g[x] = f[x]
      BY <2>2, <1>3
    <3> QED
      BY <3>1, <3>2
  <2>3. CASE x > m
    <3>1. m + t < x /\ m + t < y
      BY <2>3, <1>3, <1>11, <1>5, <1>1
    <3>2. g[x] = <<n, x - m - t>> /\ g[y] = <<n, y - m - t>>
      BY <3>1, <1>3
    <3>3. (y - m - t) - (x - m - t) = y - x
      BY <1>1, <1>5
    <3> QED
      BY <3>2, <3>3
  <2> QED
    BY <1>1, <1>5, <2>1, <2>2, <2>3
<1>12. BytesOK(g, e)
  BY <1>9, <1>10, <1>11 DEF BytesOK
<1>13. ASSUME NEW x \in DOMAIN g, g[x][2] = 1, g[x][1] > 1, e[g[x][1]].type \in T
      PROVE  \E y \in DOMAIN g : /\ y < x /\ x - y <= HeaderSize
                                 /\ EndsAt(g, e, y, g[x][1] - 1) /\ Padding(g, y, x)
  <2>1. CASE x <= m
    <3>1. x \in DOMAIN f /\ g[x] = f[x]
      BY <2>1, <1>3
    <3>2. PICK y \in DOMAIN f : /\ y < x /\ x - y <= HeaderSize
                                /\ EndsAt(f, e, y, f[x][1] - 1) /\ Padding(f, y, x)
      BY <3>1, <1>13 DEF Follows
    <3>3. y \in DOMAIN g /\ g[y] = f[y]
      BY <1>1, <1>3, <1>4, <1>2
    <3>4. EndsAt(g, e, y, g[x][1] - 1)
      BY <3>1, <3>2, <3>3 DEF EndsAt
    <3>5. ASSUME NEW z \in DOMAIN g, y < z, z < x
          PROVE  g[z] = Zero
      <4>1. z <= m
        BY <3>5, <2>1, <1>1, <1>5
      <4> QED
        BY <4>1, <3>2, <3>5, <1>3 DEF Padding
    <3> QED
      BY <3>2, <3>3, <3>4, <3>5 DEF Padding
  <2>2. CASE x > m
    <3>1. m + t < x /\ g[x][1] = n /\ x - m - t = 1
      BY <2>2, <1>8, <1>13
    <3>2. EndsAt(f, e, m, n - 1)
      BY <3>1, <1>13, <1>p
    <3>3. m \in DOMAIN f /\ f[m] = <<n - 1, SizeIn(e, n - 1)>>
      BY <3>2 DEF EndsAt
    <3>4. m \in DOMAIN g /\ g[m] = f[m]
      BY <3>3, <1>1, <1>2, <1>3, <1>4
    <3>5. EndsAt(g, e, m, g[x][1] - 1)
      BY <3>1, <3>3, <3>4 DEF EndsAt
    <3>6. m < x /\ x - m <= HeaderSize
      BY <3>1, <1>1, <1>2, <1>5
    <3>7. ASSUME NEW z \in DOMAIN g, m < z, z < x
          PROVE  g[z] = Zero
      BY <3>1, <3>7, <1>1, <1>3, <1>5
    <3> QED
      BY <3>4, <3>5, <3>6, <3>7 DEF Padding
  <2> QED
    BY <1>1, <1>5, <2>1, <2>2
<1> QED
  BY <1>12, <1>13 DEF Follows

\* What one turn of the loop of AddRecord makes: a fragment that fits into its
\* block, of the record being added, behind less padding than a header.
LEMMA NextFragment ==
    ASSUME Typed
    PROVE  /\ Fragment \in PhysicalRecord /\ Fragment.record = Len(added)
           /\ Fragment.length \in Nat /\ Fragment.length <= writer.left
           /\ Offset \in Nat /\ Offset + HeaderSize + Fragment.length <= BlockSize
           /\ Fragment.type \in {"full", "first"} <=> writer.begin
           /\ Fragment.type \in {"full", "last"} <=> writer.left = Fragment.length
<1>1. /\ writer \in [offset : 0..BlockSize, left : Nat, begin : BOOLEAN]
      /\ Len(added) \in Nat
  BY LenProperties DEF Typed
<1> DEFINE off == writer.offset
           left == writer.left
           o == Offset
           avail == BlockSize - o - HeaderSize
           l == IF left < avail THEN left ELSE avail
<1>2. off \in 0..BlockSize /\ left \in Nat /\ writer.begin \in BOOLEAN
  BY <1>1
<1>3. o = IF BlockSize - off < HeaderSize THEN 0 ELSE off
  BY DEF Offset, Leftover
<1>4. /\ Fragment.record = Len(added) /\ Fragment.length = l
      /\ Fragment.type = CASE writer.begin /\ left = l -> "full"
                           [] writer.begin /\ ~(left = l) -> "first"
                           [] ~writer.begin /\ left = l -> "last"
                           [] OTHER -> "middle"
      /\ Fragment = [record |-> Fragment.record, length |-> Fragment.length, type |-> Fragment.type]
  BY DEF Fragment
<1> HIDE DEF off, left, o
<1>5. o \in Nat /\ o + HeaderSize <= BlockSize
  BY <1>2, <1>3, SizesOfBlocks
<1>6. avail \in Nat /\ o + HeaderSize + avail = BlockSize
  BY <1>5, SizesOfBlocks
<1>7. avail <= BlockSize - HeaderSize
  BY <1>5, SizesOfBlocks
<1> HIDE DEF avail
<1>8. l \in Nat /\ l <= left /\ l <= avail
  BY <1>2, <1>6
<1> HIDE DEF l
<1>9. l \in 0..(BlockSize - HeaderSize) /\ o + HeaderSize + l <= BlockSize
  BY <1>5, <1>6, <1>7, <1>8, SizesOfBlocks
<1>10. /\ Fragment.type \in Types
       /\ Fragment.type \in {"full", "first"} <=> writer.begin
       /\ Fragment.type \in {"full", "last"} <=> left = l
  BY <1>2, <1>4 DEF Types
<1>11. Fragment \in PhysicalRecord
  BY <1>1, <1>4, <1>9, <1>10 DEF PhysicalRecord
<1> QED
  BY <1>4, <1>5, <1>8, <1>9, <1>10, <1>11 DEF o, left

\* What it hands to the file: the padding and the bytes of that fragment.
LEMMA NextBytes ==
    ASSUME Typed
    PROVE  /\ Len(Trailer) \in Nat /\ Len(Trailer) < HeaderSize
           /\ Len(Trailer) = IF Leftover < HeaderSize THEN Leftover ELSE 0
           /\ Bytes \in Seq(Pair)
           /\ Len(Bytes) = Len(Trailer) + HeaderSize + Fragment.length
           /\ Extended(file \o Bytes, file, Len(Trailer), Len(emitted) + 1, HeaderSize + Fragment.length)
<1> DEFINE left == Leftover
           size == HeaderSize + Fragment.length
           n == Len(emitted) + 1
           b == [i \in 1..size |-> <<n, i>>]
           t == Len(Trailer)
<1>1. /\ file \in Seq(Pair) /\ Len(file) \in Nat /\ n \in Nat
      /\ DOMAIN file = 1..Len(file)
  BY LenProperties DEF Typed
<1>2. size \in Nat
  BY NextFragment, SizesOfBlocks
<1>3. left \in Nat
  BY SizesOfBlocks DEF Leftover, Typed
<1> HIDE DEF left, size, n
<1>4. Zero \in Pair
  BY DEF Zero, Pair
<1>5. \A i \in 1..size : <<n, i>> \in Pair
  BY <1>1, <1>2 DEF Pair
<1>6. b \in Seq(Pair) /\ Len(b) = size /\ \A i \in 1..size : b[i] = <<n, i>>
  BY <1>2, <1>5
<1>7. /\ Trailer \in Seq(Pair) /\ \A i \in 1..t : Trailer[i] = Zero
      /\ t = IF left < HeaderSize THEN left ELSE 0
  <2>1. Trailer = IF left < HeaderSize THEN [i \in 1..left |-> Zero] ELSE <<>>
    BY DEF Trailer, left
  <2>2. CASE left < HeaderSize
    <3>1. Trailer = [i \in 1..left |-> Zero]
      BY <2>1, <2>2
    <3> HIDE DEF t
    <3>2. Trailer \in Seq(Pair) /\ Len(Trailer) = left /\ \A i \in 1..left : Trailer[i] = Zero
      BY <3>1, <1>3, <1>4
    <3> QED
      BY <3>2, <2>2 DEF t
  <2>3. CASE ~(left < HeaderSize)
    <3>1. Trailer = <<>>
      BY <2>1, <2>3
    <3>2. <<>> \in Seq(Pair) /\ Len(<<>>) = 0
      BY EmptySeq
    <3> QED
      BY <3>1, <3>2, <2>3
  <2> QED
    BY <2>2, <2>3
<1>8. t \in Nat /\ t < HeaderSize
  BY <1>3, <1>7, SizesOfBlocks
<1>9. Bytes = Trailer \o b
  BY DEF Bytes, b, size, n
<1> HIDE DEF b, t
<1>t. t = Len(Trailer)
  BY DEF t
<1>10. /\ Bytes \in Seq(Pair) /\ Len(Bytes) = t + size
       /\ \A i \in 1..(t + size) : Bytes[i] = IF i <= t THEN Trailer[i] ELSE b[i - t]
  <2> DEFINE r == Trailer
  <2>1. r \in Seq(Pair) /\ Len(r) = t /\ Bytes = r \o b
    BY <1>7, <1>9, <1>t
  <2> HIDE DEF r
  <2>2. /\ r \o b \in Seq(Pair) /\ Len(r \o b) = Len(r) + Len(b)
        /\ \A i \in 1..(Len(r) + Len(b)) : (r \o b)[i] = IF i <= Len(r) THEN r[i] ELSE b[i - Len(r)]
    BY <2>1, <1>6, ConcatProperties
  <2>3. \A i \in 1..(t + size) : Bytes[i] = IF i <= t THEN r[i] ELSE b[i - t]
    BY <2>1, <2>2, <1>6
  <2> QED
    BY <2>1, <2>2, <2>3, <1>6 DEF r
<1> DEFINE g == file \o Bytes
           m == Len(file)
<1>11. /\ g \in Seq(Pair) /\ Len(g) = m + (t + size)
       /\ \A i \in 1..(m + (t + size)) : g[i] = IF i <= m THEN file[i] ELSE Bytes[i - m]
  <2> DEFINE r == Bytes
             k == Len(r)
  <2>1. r \in Seq(Pair) /\ k = t + size
    BY <1>10
  <2> HIDE DEF r
  <2>2. /\ file \o r \in Seq(Pair) /\ Len(file \o r) = Len(file) + Len(r)
        /\ \A i \in 1..(Len(file) + Len(r)) : (file \o r)[i] = IF i <= Len(file) THEN file[i] ELSE r[i - Len(file)]
    BY <2>1, <1>1, ConcatProperties
  <2> HIDE DEF k
  <2>3. Len(r) = k
    BY DEF k
  <2> QED
    BY <2>1, <2>2, <2>3 DEF r
<1> HIDE DEF g
<1>12. DOMAIN g = 1..(m + (t + size))
  BY <1>11, LenProperties
<1>m. m = Len(file) /\ m \in Nat /\ DOMAIN file = 1..m
  BY <1>1
<1> HIDE DEF m
<1>13. ASSUME NEW x \in DOMAIN g
       PROVE  /\ x <= m => x \in DOMAIN file /\ g[x] = file[x]
              /\ m < x /\ x <= m + t => g[x] = Zero
              /\ m + t < x => g[x] = <<n, x - m - t>>
  <2>1. x \in Nat /\ x >= 1 /\ x <= m + (t + size) /\ x \in 1..(m + (t + size))
    BY <1>2, <1>8, <1>12, <1>m
  <2>2. x <= m => x \in DOMAIN file /\ g[x] = file[x]
    BY <2>1, <1>11, <1>m
  <2>3. CASE m < x
    <3> DEFINE i == x - m
    <3>1. i \in 1..(t + size) /\ i \in Nat /\ i >= 1 /\ i <= t + size
      BY <2>1, <2>3, <1>2, <1>8, <1>m
    <3>2. g[x] = Bytes[i]
      BY <2>1, <2>3, <1>11, <1>m
    <3>i. i = x - m
      OBVIOUS
    <3> HIDE DEF i
    <3>3. g[x] = IF i <= t THEN Trailer[i] ELSE b[i - t]
      BY <3>1, <3>2, <1>10
    <3>4. CASE i <= t
      <4>1. i \in 1..t
        BY <3>1, <3>4, <1>8
      <4>2. g[x] = Zero
        BY <4>1, <3>3, <3>4, <1>7
      <4> QED
        BY <4>2, <3>4, <3>i, <2>1, <2>3, <1>m, <1>8
    <3>5. CASE i > t
      <4>1. i - t \in 1..size
        BY <3>1, <3>5, <1>2, <1>8
      <4>2. g[x] = <<n, i - t>>
        BY <4>1, <3>1, <3>3, <3>5, <1>6, <1>8
      <4>3. i - t = x - m - t /\ ~(x <= m + t)
        BY <3>i, <3>5, <2>1, <1>m, <1>8
      <4> QED
        BY <4>2, <4>3, <2>1, <2>3, <1>m, <1>8
    <3> QED
      BY <3>1, <3>4, <3>5, <1>8
  <2> QED
    BY <2>1, <2>2, <2>3, <1>m, <1>8
<1>14. Len(g) = m + t + size
  BY <1>11, <1>2, <1>8, <1>m
<1>15. Extended(g, file, t, n, size)
  BY <1>11, <1>13, <1>14, <1>m DEF Extended
<1>16. t + size = t + HeaderSize + Fragment.length
  BY <1>8, NextFragment, SizesOfBlocks DEF size
<1> QED
  BY <1>7, <1>8, <1>10, <1>15, <1>16, <1>m DEF t, left, size, n, g

\* The bytes of the file are in order, and the records too.
FileOK(f, e) == InOrder(e) /\ BytesOK(f, e) /\ Follows(f, e, {"middle", "last"})

\* The file after a turn of the loop, whole or cut anywhere.
LEMMA NextFile ==
    ASSUME Typed, WriterOK, pc = "adding", FileOK(file, emitted)
    PROVE  /\ Longer(Append(emitted, Fragment), emitted)
           /\ FileOK(file \o Bytes, Append(emitted, Fragment))
           /\ \A g : Cut(g, file \o Bytes) => FileOK(g, Append(emitted, Fragment))
<1> DEFINE e == Append(emitted, Fragment)
           n == Len(emitted) + 1
           t == Len(Trailer)
           g == file \o Bytes
<1>1. /\ file \in Seq(Pair) /\ emitted \in Seq(PhysicalRecord)
      /\ DOMAIN emitted = 1..Len(emitted) /\ Len(emitted) \in Nat /\ Len(added) \in Nat
  BY LenProperties DEF Typed
<1>2. Fragment \in PhysicalRecord /\ Fragment.record = Len(added)
  BY NextFragment
<1>3. /\ Longer(e, emitted) /\ Len(e) = n /\ e[n] = Fragment /\ n \in DOMAIN e
      /\ e \in Seq(PhysicalRecord)
  BY <1>1, <1>2, AppendIsLonger DEF Longer
<1>4. InOrder(e)
  <2>1. \A p \in DOMAIN emitted : emitted[p].record <= Fragment.record
    BY <1>2 DEF WriterOK
  <2>2. Fragment.type \in {"full", "first"} =>
          \A p \in DOMAIN emitted : emitted[p].record < Fragment.record
    BY <1>2, NextFragment DEF WriterOK
  <2>3. Fragment.type \in {"middle", "last"} =>
          /\ emitted # <<>> /\ emitted[Len(emitted)].record = Fragment.record
          /\ emitted[Len(emitted)].type \in {"first", "middle"}
    BY <1>2, NextFragment DEF WriterOK
  <2> QED
    BY <1>1, <1>2, <2>1, <2>2, <2>3, AppendInOrder DEF FileOK
<1>5. BytesOK(file, e) /\ Follows(file, e, {"middle", "last"})
  <2> HIDE DEF e
  <2> QED
    BY <1>1, <1>3, LongerIsOK DEF FileOK
<1>6. t \in Nat /\ t < HeaderSize /\ Extended(g, file, t, n, HeaderSize + Fragment.length)
  BY NextBytes
<1>7. SizeIn(e, n) = HeaderSize + Fragment.length
  BY <1>3 DEF SizeIn
<1>8. \A x \in DOMAIN file : file[x][1] < n
  <2>1. ASSUME NEW x \in DOMAIN file PROVE file[x][1] < n
    <3>1. CASE file[x] = Zero
      BY <3>1, <1>1 DEF Zero
    <3>2. CASE file[x][1] \in DOMAIN emitted
      BY <3>2, <1>1
    <3> QED
      BY <3>1, <3>2 DEF FileOK, BytesOK
  <2> QED
    BY <2>1
<1>9. e[n].type \in {"middle", "last"} => EndsAt(file, e, Len(file), n - 1)
  <2>1. SUFFICES ASSUME Fragment.type \in {"middle", "last"}
                 PROVE  EndsAt(file, e, Len(file), n - 1)
    BY <1>3
  <2>2. emitted # <<>> /\ EndsAt(file, emitted, Len(file), Len(emitted))
    BY <2>1, NextFragment DEF WriterOK
  <2>3. n - 1 = Len(emitted) /\ Len(emitted) \in DOMAIN emitted
    BY <2>2, <1>1, EmptySeq
  <2>4. SizeIn(e, Len(emitted)) = SizeIn(emitted, Len(emitted))
    BY <2>3, <1>3 DEF Longer
  <2> QED
    BY <2>2, <2>3, <2>4 DEF EndsAt
<1> HIDE DEF e, g, n, t
<1>10. BytesOK(g, e) /\ Follows(g, e, {"middle", "last"})
  BY <1>1, <1>3, <1>5, <1>6, <1>7, <1>8, <1>9, ExtendedIsOK
<1>11. g \in Seq(Pair)
  BY <1>6 DEF Extended
<1>12. ASSUME NEW h, Cut(h, g) PROVE FileOK(h, e)
  BY <1>3, <1>4, <1>10, <1>11, <1>12, CutIsOK DEF FileOK
<1> QED
  BY <1>3, <1>4, <1>10, <1>12 DEF FileOK, e, g

\* Of a reader: what ReadRecord changes, but the number of reports.
Reads(r, buffer, scratch, inFragmented, records) ==
    /\ r.buffer = buffer /\ r.pos = reader.pos /\ r.eof = reader.eof
    /\ r.scratch = scratch /\ r.inFragmented = inFragmented /\ r.records = records
    /\ r \in ReaderType

\* What ReadRecord does with a record, by its type.
LEMMA TakeIs ==
    ASSUME reader \in ReaderType, NEW type, NEW p \in Nat, NEW rest \in Seq(Pair), NEW report \in BOOLEAN
    PROVE  LET r == Take(Found(type, p, rest, report))
           IN  /\ type = "full" =>
                    Reads(r, rest, <<>>, FALSE, Append(reader.records, <<p>>))
               /\ type = "first" =>
                    Reads(r, rest, <<p>>, TRUE, reader.records)
               /\ type = "middle" /\ reader.inFragmented =>
                    Reads(r, rest, Append(reader.scratch, p), TRUE, reader.records)
               /\ type = "last" /\ reader.inFragmented =>
                    Reads(r, rest, <<>>, FALSE, Append(reader.records, Append(reader.scratch, p)))
               /\ type \in {"middle", "last"} /\ ~reader.inFragmented =>
                    Reads(r, rest, reader.scratch, FALSE, reader.records)
               /\ type = "bad" /\ reader.inFragmented =>
                    Reads(r, rest, <<>>, FALSE, reader.records)
               /\ type = "bad" /\ ~reader.inFragmented =>
                    Reads(r, rest, reader.scratch, FALSE, reader.records)
               /\ type = "eof" =>
                    Reads(r, rest, reader.scratch, reader.inFragmented, reader.records)
               /\ ~report /\ type = "eof" => r.reports = reader.reports
               /\ ~report /\ type \in {"full", "first"} /\ ~reader.inFragmented => r.reports = reader.reports
               /\ ~report /\ type \in {"middle", "last"} /\ reader.inFragmented => r.reports = reader.reports
<1> DEFINE s == [reader EXCEPT !.buffer = rest, !.reports = IF report THEN @ + 1 ELSE @]
           unended == s.inFragmented /\ Size(s.scratch) > 0
           missingStart == [s EXCEPT !.reports = @ + 1]
           again == [s EXCEPT !.reports = IF unended THEN @ + 1 ELSE @]
           f == Found(type, p, rest, report)
           Returned(fragments, q) == [q EXCEPT !.records = Append(@, fragments),
                                               !.inFragmented = FALSE, !.scratch = <<>>]
           r == Take(f)
           IsReader(q) == /\ q \in ReaderType /\ q.buffer = rest /\ q.pos = reader.pos
                          /\ q.eof = reader.eof /\ q.scratch = reader.scratch
                          /\ q.inFragmented = reader.inFragmented /\ q.records = reader.records
<1>1. f.type = type /\ f.p = p /\ f.rest = rest /\ f.report = report
  BY DEF Found
<1>2. s \in ReaderType /\ IsReader(s) /\ (~report => s.reports = reader.reports)
  <2> DEFINE k == IF report THEN reader.reports + 1 ELSE reader.reports
  <2>1. k \in Nat /\ (~report => k = reader.reports)
    BY DEF ReaderType
  <2>2. s = [reader EXCEPT !.buffer = rest, !.reports = k]
    BY DEF ReaderType
  <2> HIDE DEF k, s
  <2>3. s \in ReaderType
    BY <2>1, <2>2 DEF ReaderType
  <2>4. /\ s.buffer = rest /\ s.pos = reader.pos /\ s.scratch = reader.scratch
        /\ s.records = reader.records /\ s.reports = k
    BY <2>1, <2>2 DEF ReaderType
  <2>5. s.eof = reader.eof /\ s.inFragmented = reader.inFragmented
    BY <2>1, <2>2 DEF ReaderType
  <2> QED
    BY <2>1, <2>3, <2>4, <2>5
<1>3. ~report => s.reports = reader.reports
  BY <1>2
<1>4. r = CASE type = "full" -> Returned(<<p>>, again)
            [] type = "first" -> [again EXCEPT !.inFragmented = TRUE, !.scratch = <<p>>]
            [] type = "middle" -> IF s.inFragmented THEN [s EXCEPT !.scratch = Append(@, p)]
                                  ELSE missingStart
            [] type = "last" -> IF s.inFragmented THEN Returned(Append(s.scratch, p), s)
                                ELSE missingStart
            [] type = "bad" -> Dropped(s)
            [] type = "eof" -> s
  BY <1>1 DEF Take
<1> HIDE DEF s, f
<1>5. again \in ReaderType /\ IsReader(again) /\ (~s.inFragmented => again.reports = s.reports)
  <2> DEFINE k == IF unended THEN s.reports + 1 ELSE s.reports
  <2>1. k \in Nat /\ (~s.inFragmented => k = s.reports)
    BY <1>2 DEF ReaderType
  <2>2. again = [s EXCEPT !.reports = k]
    BY <1>2 DEF ReaderType
  <2> HIDE DEF k, again
  <2>3. again \in ReaderType
    BY <1>2, <2>1, <2>2 DEF ReaderType
  <2>4. /\ again.buffer = s.buffer /\ again.pos = s.pos /\ again.scratch = s.scratch
        /\ again.records = s.records /\ again.reports = k
    BY <1>2, <2>1, <2>2 DEF ReaderType
  <2>5. again.eof = s.eof /\ again.inFragmented = s.inFragmented
    BY <1>2, <2>1, <2>2 DEF ReaderType
  <2> QED
    BY <1>2, <2>1, <2>3, <2>4, <2>5
<1>6. missingStart \in ReaderType /\ IsReader(missingStart)
  <2> HIDE DEF missingStart
  <2>2. missingStart = [s EXCEPT !.reports = s.reports + 1] /\ s.reports + 1 \in Nat
    BY <1>2 DEF ReaderType, missingStart
  <2>3. missingStart \in ReaderType
    BY <1>2, <2>2 DEF ReaderType
  <2>4. /\ missingStart.buffer = s.buffer /\ missingStart.pos = s.pos
        /\ missingStart.scratch = s.scratch /\ missingStart.records = s.records
    BY <1>2, <2>2 DEF ReaderType
  <2>5. missingStart.eof = s.eof /\ missingStart.inFragmented = s.inFragmented
    BY <1>2, <2>2 DEF ReaderType
  <2> QED
    BY <1>2, <2>3, <2>4, <2>5
<1> HIDE DEF again, missingStart
<1>7. /\ <<p>> \in Seq(Nat) /\ <<>> \in Seq(Nat)
      /\ Append(s.scratch, p) \in Seq(Nat)
      /\ Append(s.records, <<p>>) \in Seq(Seq(Nat))
      /\ Append(s.records, Append(s.scratch, p)) \in Seq(Seq(Nat))
  <2>1. s.scratch \in Seq(Nat) /\ s.records \in Seq(Seq(Nat))
    BY <1>2 DEF ReaderType
  <2>2. <<p>> \in Seq(Nat) /\ <<>> \in Seq(Nat)
    OBVIOUS
  <2>3. Append(s.scratch, p) \in Seq(Nat)
    BY <2>1, AppendProperties
  <2> DEFINE a == Append(s.scratch, p)
             b == <<p>>
  <2>4. a \in Seq(Nat) /\ b \in Seq(Nat)
    BY <2>2, <2>3
  <2> HIDE DEF a, b
  <2>5. Append(s.records, a) \in Seq(Seq(Nat)) /\ Append(s.records, b) \in Seq(Seq(Nat))
    BY <2>1, <2>4, AppendProperties
  <2> QED
    BY <2>2, <2>3, <2>5 DEF a, b
<1>8. type = "full" => /\ Reads(r, rest, <<>>, FALSE, Append(reader.records, <<p>>))
                       /\ r.reports = again.reports
  <2>1. SUFFICES ASSUME type = "full"
                 PROVE  /\ Reads(r, rest, <<>>, FALSE, Append(reader.records, <<p>>))
                        /\ r.reports = again.reports
    OBVIOUS
  <2> DEFINE new == Append(s.records, <<p>>)
  <2>2. again.records = s.records /\ s.records = reader.records
    BY <1>2, <1>5
  <2>3. r = [again EXCEPT !.records = new, !.inFragmented = FALSE, !.scratch = <<>>]
    BY <1>4, <2>1, <2>2
  <2>4. new \in Seq(Seq(Nat)) /\ <<>> \in Seq(Nat) /\ new = Append(reader.records, <<p>>)
    BY <1>7, <2>2
  <2> HIDE DEF new
  <2> QED
    BY <1>5, <2>3, <2>4 DEF Reads, ReaderType
<1>9. type = "first" => /\ Reads(r, rest, <<p>>, TRUE, reader.records)
                        /\ r.reports = again.reports
  <2> DEFINE b == <<p>>
  <2>1. b \in Seq(Nat)
    BY <1>7
  <2>2. type = "first" => r = [again EXCEPT !.inFragmented = TRUE, !.scratch = b]
    BY <1>4
  <2> HIDE DEF b
  <2>3. type = "first" => Reads(r, rest, b, TRUE, reader.records) /\ r.reports = again.reports
    BY <1>5, <2>1, <2>2 DEF Reads, ReaderType
  <2> QED
    BY <2>3 DEF b
<1>10. type = "middle" /\ reader.inFragmented =>
         Reads(r, rest, Append(reader.scratch, p), TRUE, reader.records) /\ r.reports = s.reports
  <2> DEFINE a == Append(s.scratch, p)
  <2>1. a \in Seq(Nat) /\ a = Append(reader.scratch, p)
    BY <1>2, <1>7
  <2>2. type = "middle" /\ reader.inFragmented => r = [s EXCEPT !.scratch = a]
    BY <1>2, <1>4
  <2> HIDE DEF a
  <2> QED
    BY <1>2, <2>1, <2>2 DEF Reads, ReaderType
<1>11. type = "last" /\ reader.inFragmented =>
         /\ Reads(r, rest, <<>>, FALSE, Append(reader.records, Append(reader.scratch, p)))
         /\ r.reports = s.reports
  <2> DEFINE new == Append(s.records, Append(s.scratch, p))
  <2>1. new \in Seq(Seq(Nat)) /\ new = Append(reader.records, Append(reader.scratch, p))
    BY <1>2, <1>7
  <2>2. type = "last" /\ reader.inFragmented =>
          r = [s EXCEPT !.records = new, !.inFragmented = FALSE, !.scratch = <<>>]
    BY <1>2, <1>4
  <2>3. <<>> \in Seq(Nat)
    BY <1>7
  <2> HIDE DEF new
  <2> QED
    BY <1>2, <2>1, <2>2, <2>3 DEF Reads, ReaderType
<1>12. type \in {"middle", "last"} /\ ~reader.inFragmented =>
         Reads(r, rest, reader.scratch, FALSE, reader.records)
  <2>1. type \in {"middle", "last"} /\ ~reader.inFragmented => r = missingStart
    BY <1>2, <1>4
  <2>2. ~reader.inFragmented => reader.inFragmented = FALSE
    BY DEF ReaderType
  <2> QED
    BY <1>6, <2>1, <2>2 DEF Reads
<1>13. type = "bad" => r = Dropped(s)
  BY <1>4
<1>14. type = "bad" /\ reader.inFragmented => Reads(r, rest, <<>>, FALSE, reader.records)
  <2>1. type = "bad" /\ reader.inFragmented =>
          r = [s EXCEPT !.reports = @ + 1, !.inFragmented = FALSE, !.scratch = <<>>]
    BY <1>2, <1>13 DEF Dropped
  <2>2. <<>> \in Seq(Nat)
    BY <1>7
  <2>3. SUFFICES ASSUME type = "bad", reader.inFragmented
                 PROVE  Reads(r, rest, <<>>, FALSE, reader.records)
    OBVIOUS
  <2>4. r = [s EXCEPT !.reports = s.reports + 1, !.inFragmented = FALSE, !.scratch = <<>>]
    BY <1>2, <2>1, <2>3 DEF ReaderType
  <2>5. s.reports + 1 \in Nat
    BY <1>2 DEF ReaderType
  <2> HIDE DEF r
  <2>6. r \in ReaderType
    BY <1>2, <2>2, <2>4, <2>5 DEF ReaderType
  <2>7. r.buffer = rest /\ r.pos = reader.pos /\ r.scratch = <<>> /\ r.records = reader.records
    BY <1>2, <2>2, <2>4, <2>5 DEF ReaderType
  <2>8. r.eof = reader.eof /\ r.inFragmented = FALSE
    BY <1>2, <2>2, <2>4, <2>5 DEF ReaderType
  <2> QED
    BY <2>6, <2>7, <2>8 DEF Reads
<1>15. type = "bad" /\ ~reader.inFragmented =>
         Reads(r, rest, reader.scratch, FALSE, reader.records)
  <2>1. type = "bad" /\ ~reader.inFragmented => r = s
    BY <1>2, <1>13 DEF Dropped
  <2>2. ~reader.inFragmented => reader.inFragmented = FALSE
    BY DEF ReaderType
  <2> QED
    BY <1>2, <2>1, <2>2 DEF Reads
<1>16. type = "eof" => r = s
  BY <1>4
<1>17. type = "eof" =>
         Reads(r, rest, reader.scratch, reader.inFragmented, reader.records)
  BY <1>2, <1>16 DEF Reads
<1>18. ~report /\ type \in {"full", "first"} /\ ~reader.inFragmented => r.reports = reader.reports
  BY <1>2, <1>3, <1>5, <1>8, <1>9
<1>19. ~report /\ type \in {"middle", "last"} /\ reader.inFragmented => r.reports = reader.reports
  BY <1>3, <1>10, <1>11
<1> QED
  BY <1>3, <1>8, <1>9, <1>10, <1>11, <1>12, <1>14, <1>15, <1>16, <1>17, <1>18, <1>19 DEF f

\* What ReadPhysicalRecord may find: the end, a bad record, or a physical
\* record that is all there.
IsIntact(f) ==
    /\ f.p \in DOMAIN emitted /\ SizeIn(emitted, f.p) <= Len(reader.buffer)
    /\ \A i \in 1..SizeIn(emitted, f.p) : reader.buffer[i] = <<f.p, i>>
    /\ f = Found(emitted[f.p].type, f.p,
                 SubSeq(reader.buffer, SizeIn(emitted, f.p) + 1, Len(reader.buffer)), FALSE)

\* ReadPhysicalRecord finds a whole record, a bad one, or the end of the file.
LEMMA PhysicalFinds ==
    ASSUME Typed, Len(reader.buffer) >= HeaderSize, NEW f \in Physical,
           \A i \in DOMAIN reader.buffer :
              reader.buffer[i] = Zero \/ reader.buffer[i][1] \in DOMAIN emitted
    PROVE  \/ f = Eof /\ reader.eof
           \/ \E report \in BOOLEAN : f = BadRecord(report)
           \/ IsIntact(f)
<1> DEFINE buffer == reader.buffer
           p == Head(buffer)[1]
           Intact(n) == p # 0 /\ \A i \in 1..n : buffer[i] = <<p, i>>
           size == HeaderSize + emitted[p].length
<1>1. buffer \in Seq(Pair) /\ Len(buffer) >= 1
  BY SizesOfBlocks, LenProperties DEF Typed, ReaderType
<1>2. p \in Nat
  <2>1. buffer # <<>>
    BY <1>1, EmptySeq
  <2>2. Head(buffer) \in Pair
    BY <1>1, <2>1, HeadTailProperties
  <2> QED
    BY <2>2 DEF Pair
<1>3. f \in IF ~Intact(HeaderSize) THEN {TooLong, BadRecord(TRUE), BadRecord(FALSE)}
            ELSE IF size > Len(buffer) THEN {TooLong}
            ELSE IF ~Intact(size) THEN {BadRecord(TRUE)}
            ELSE {Found(emitted[p].type, p, SubSeq(buffer, size + 1, Len(buffer)), FALSE)}
  BY DEF Physical
<1>4. \/ f \in {TooLong, BadRecord(TRUE), BadRecord(FALSE)}
      \/ /\ Intact(HeaderSize) /\ ~(size > Len(buffer)) /\ Intact(size)
         /\ f = Found(emitted[p].type, p, SubSeq(buffer, size + 1, Len(buffer)), FALSE)
  BY <1>3
<1>5. (TooLong = Eof /\ reader.eof) \/ TooLong = BadRecord(TRUE)
  BY DEF TooLong
<1>6. ASSUME Intact(HeaderSize), ~(size > Len(buffer)), Intact(size),
             f = Found(emitted[p].type, p, SubSeq(buffer, size + 1, Len(buffer)), FALSE)
      PROVE  IsIntact(f)
  <2>1. f.p = p
    BY <1>6 DEF Found
  <2>2. p \in DOMAIN emitted
    <3>1. 1 \in DOMAIN buffer /\ 1 \in 1..HeaderSize
      BY <1>1, SizesOfBlocks, LenProperties
    <3>2. buffer[1] = <<p, 1>> /\ p # 0
      BY <1>6, <3>1
    <3> HIDE DEF p
    <3>3. buffer[1] # Zero /\ buffer[1][1] = p
      BY <3>2 DEF Zero
    <3> QED
      BY <3>1, <3>3
  <2>3. SizeIn(emitted, p) = size
    BY DEF SizeIn
  <2> HIDE DEF p
  <2>4. SizeIn(emitted, p) \in Nat
    BY <2>2, SizeOfRecord DEF Typed
  <2>5. Len(buffer) \in Nat
    BY <1>1, LenProperties
  <2>6. size <= Len(buffer)
    BY <1>6, <2>3, <2>4, <2>5
  <2>7. \A i \in 1..size : buffer[i] = <<p, i>>
    BY <1>6
  <2> HIDE DEF size
  <2> QED
    BY <1>6, <2>1, <2>2, <2>3, <2>6, <2>7 DEF IsIntact
<1> QED
  BY <1>4, <1>5, <1>6

\* A sequence stays one when an element is replaced.
LEMMA ExceptIsSeq ==
    ASSUME NEW S, NEW s \in Seq(S), NEW n, NEW v \in S
    PROVE  [s EXCEPT ![n] = v] \in Seq(S) /\ Len([s EXCEPT ![n] = v]) = Len(s)
<1> DEFINE u == [s EXCEPT ![n] = v]
           m == Len(s)
<1>1. m \in Nat /\ DOMAIN s = 1..m /\ \A i \in 1..m : s[i] \in S
  BY LenProperties, ElementOfSeq
<1>2. u = [i \in 1..m |-> u[i]] /\ \A i \in 1..m : u[i] \in S
  BY <1>1
<1> HIDE DEF u, m
<1>3. u \in Seq(S) /\ Len(u) = m
  BY <1>1, <1>2
<1> QED
  BY <1>3 DEF u, m

\* Beginnings of beginnings.
LEMMA CutOfCut ==
    ASSUME NEW f \in Seq(Pair), NEW g, NEW h, Cut(g, f), Cut(h, g)
    PROVE  Cut(h, f)
<1>1. Len(f) \in Nat /\ Len(g) \in Nat /\ Len(h) \in Nat
  BY LenProperties DEF Cut
<1> QED
  BY <1>1 DEF Cut

\* A part of what is appended.
LEMMA AppendedCut ==
    ASSUME NEW f \in Seq(Pair), NEW b \in Seq(Pair), NEW n \in 0..Len(b)
    PROVE  /\ Cut(f \o SubSeq(b, 1, n), f \o b) /\ Len(f \o SubSeq(b, 1, n)) = Len(f) + n
           /\ f \o b \in Seq(Pair) /\ Len(f \o b) = Len(f) + Len(b)
<1> DEFINE c == SubSeq(b, 1, n)
           g == f \o b
           h == f \o c
           k == Len(f)
           l == Len(b)
<1>1. k \in Nat /\ l \in Nat /\ n \in Nat /\ n <= l
  BY LenProperties
<1>2. c \in Seq(Pair) /\ Len(c) = n /\ \A i \in 1..n : c[i] = b[i]
  BY SubSeqIsCut, LenProperties DEF Cut
<1> HIDE DEF c
<1>3. g \in Seq(Pair) /\ Len(g) = k + l
      /\ \A i \in 1..(k + l) : g[i] = IF i <= k THEN f[i] ELSE b[i - k]
  BY ConcatProperties
<1>4. h \in Seq(Pair) /\ Len(h) = k + Len(c)
      /\ \A i \in 1..(k + Len(c)) : h[i] = IF i <= k THEN f[i] ELSE c[i - k]
  BY <1>2, ConcatProperties
<1> HIDE DEF g, h, k, l
<1>5. DOMAIN g = 1..(k + l) /\ DOMAIN h = 1..(k + n)
  BY <1>2, <1>3, <1>4, LenProperties
<1>6. ASSUME NEW x \in DOMAIN h PROVE x \in DOMAIN g /\ h[x] = g[x]
  <2>1. x \in Nat /\ x >= 1 /\ x <= k + n /\ x \in 1..(k + l) /\ x \in 1..(k + n)
    BY <1>1, <1>5
  <2>2. CASE x <= k
    BY <2>1, <2>2, <1>2, <1>3, <1>4, <1>5
  <2>3. CASE x > k
    <3>1. x - k \in 1..n /\ ~(x <= k)
      BY <2>1, <2>3, <1>1
    <3> QED
      BY <2>1, <3>1, <1>2, <1>3, <1>4, <1>5
  <2> QED
    BY <1>1, <2>1, <2>2, <2>3
<1>7. Cut(h, g)
  BY <1>1, <1>2, <1>3, <1>4, <1>6 DEF Cut
<1> QED
  BY <1>2, <1>3, <1>4, <1>7 DEF c, g, h, k, l

\* What every step of the writer leaves of the file, and of the fragments.
Emission ==
    /\ pc = "adding" /\ Cut(file', file \o Bytes)
    /\ emitted' = Append(emitted, Fragment) /\ Len(added') = Len(added)

\* EmitPhysicalRecord, and a failure or a crash in it, are emissions, whole or cut.
LEMMA EmissionSteps ==
    ASSUME Typed, WriterOK
    PROVE  /\ EmitPhysicalRecord => Emission
           /\ EmitFails => Emission /\ Len(file') < Len(file \o Bytes)
           /\ Crash => IF pc = "adding" THEN Emission /\ Len(file') < Len(file \o Bytes)
                       ELSE Cut(file', file) /\ emitted' = emitted /\ added' = added
           /\ file \o Bytes \in Seq(Pair) /\ Len(Bytes) \in Nat /\ Len(Bytes) >= 1
           /\ Len(file \o Bytes) = Len(file) + Len(Bytes)
<1>1. file \in Seq(Pair) /\ Bytes \in Seq(Pair) /\ Len(Bytes) \in Nat /\ Len(Bytes) >= 1 /\ Len(file) \in Nat
  <2>1. file \in Seq(Pair) /\ Bytes \in Seq(Pair)
    BY NextBytes DEF Typed
  <2> DEFINE l == Len(Bytes)
             t == Len(Trailer)
             k == Fragment.length
  <2>2. t \in Nat /\ k \in Nat /\ l = t + HeaderSize + k
    BY NextBytes, NextFragment
  <2> HIDE DEF l, t, k
  <2>3. l \in Nat /\ l >= 1
    BY <2>2, SizesOfBlocks
  <2> QED
    BY <2>1, <2>3, LenProperties DEF l
<1> DEFINE b == Bytes
           l == Len(b)
           g == file \o b
<1>2. l \in Nat /\ l >= 1 /\ b \in Seq(Pair)
  BY <1>1
<1>a. \A v \in {"adding", "ok", "failed"} : Len([added EXCEPT ![Len(added)] = v]) = Len(added)
  BY ExceptIsSeq DEF Typed
<1>3. EmitPhysicalRecord => Emission
  <2>1. SUFFICES ASSUME EmitPhysicalRecord PROVE Emission
    OBVIOUS
  <2>2. file' = g /\ emitted' = Append(emitted, Fragment) /\ pc = "adding"
    BY <2>1 DEF EmitPhysicalRecord
  <2>3. g \in Seq(Pair) /\ Len(g) \in Nat
    BY <1>1, ConcatProperties, LenProperties
  <2> HIDE DEF g
  <2>4. Cut(g, g)
    BY <2>3 DEF Cut
  <2>5. Len(added') = Len(added)
    BY <2>1, <1>a DEF EmitPhysicalRecord
  <2> QED
    BY <2>2, <2>4, <2>5 DEF Emission, g
<1>4. EmitFails => Emission /\ Len(file') < Len(file \o Bytes)
  <2>1. SUFFICES ASSUME EmitFails PROVE Emission /\ Len(file') < Len(file \o Bytes)
    OBVIOUS
  <2>2. PICK n \in 0..(l - 1) : file' = file \o SubSeq(b, 1, n)
    BY <2>1 DEF EmitFails
  <2>3. n \in 0..l /\ n \in Nat /\ n < l
    BY <1>2
  <2> HIDE DEF b
  <2>4. /\ Cut(file \o SubSeq(b, 1, n), g) /\ Len(file \o SubSeq(b, 1, n)) = Len(file) + n
        /\ Len(g) = Len(file) + l
    BY <1>1, <1>2, <2>3, AppendedCut
  <2>5. Cut(file', g) /\ Len(file') < Len(g)
    BY <2>2, <2>3, <2>4, <1>1, <1>2
  <2>6. Len(added') = Len(added)
    BY <2>1, <1>a DEF EmitFails
  <2>7. emitted' = Append(emitted, Fragment) /\ pc = "adding"
    BY <2>1 DEF EmitFails
  <2> QED
    BY <2>5, <2>6, <2>7 DEF Emission, b
<1>5. Crash => IF pc = "adding" THEN Emission /\ Len(file') < Len(file \o Bytes)
               ELSE Cut(file', file) /\ emitted' = emitted /\ added' = added
  <2>1. SUFFICES ASSUME Crash
                 PROVE  IF pc = "adding" THEN Emission /\ Len(file') < Len(file \o Bytes)
                        ELSE Cut(file', file) /\ emitted' = emitted /\ added' = added
    OBVIOUS
  <2> DEFINE written == IF pc = "adding" THEN file \o Front(b) ELSE file
  <2>2. PICK n \in 0..Len(written) : file' = SubSeq(written, 1, n)
    BY <2>1 DEF Crash
  <2>3. CASE pc = "adding"
    <3>1. Front(b) = SubSeq(b, 1, l - 1)
      BY DEF Front
    <3>2. l - 1 \in 0..l
      BY <1>2
    <3> HIDE DEF b
    <3> DEFINE w == file \o SubSeq(b, 1, l - 1)
    <3>3. Cut(w, g) /\ Len(w) = Len(file) + (l - 1) /\ Len(g) = Len(file) + l
      BY <1>1, <1>2, <3>2, AppendedCut
    <3>4. n \in 0..Len(w) /\ file' = SubSeq(w, 1, n)
      BY <2>2, <2>3, <3>1
    <3> HIDE DEF w
    <3>5. w \in Seq(Pair)
      BY <3>3 DEF Cut
    <3>6. Cut(SubSeq(w, 1, n), w) /\ Len(SubSeq(w, 1, n)) = n
      BY <3>4, <3>5, SubSeqIsCut
    <3>7. g \in Seq(Pair)
      BY <1>1, <1>2, ConcatProperties
    <3> HIDE DEF g
    <3>8. Cut(file', g) /\ Len(file') = n
      BY <3>3, <3>4, <3>6, <3>7, CutOfCut
    <3>9. n < Len(g)
      BY <3>3, <3>4, <1>1, <1>2
    <3>10. Len(added') = Len(added) /\ emitted' = Append(emitted, Fragment)
      BY <2>1, <2>3, <1>a DEF Crash
    <3> QED
      BY <2>3, <3>8, <3>9, <3>10 DEF Emission, g, b
  <2>4. CASE pc # "adding"
    BY <2>1, <2>2, <2>4, <1>1, SubSeqIsCut DEF Crash
  <2> QED
    BY <2>3, <2>4
<1>6. /\ file \o Bytes \in Seq(Pair) /\ Len(file \o Bytes) = Len(file) + Len(Bytes)
  BY <1>1, ConcatProperties
<1> QED
  BY <1>1, <1>3, <1>4, <1>5, <1>6

-----------------------------------------------------------------------------
\* The file stays in order.
LEMMA FileNext ==
    ASSUME Typed, WriterOK, FileOK(file, emitted), [Next]_vars
    PROVE  FileOK(file, emitted)'
<1>1. SUFFICES FileOK(file', emitted')
  BY DEF FileOK, InOrder, BytesOK, Follows, EndsAt, Padding, SizeIn
<1>2. CASE Emission
  <2>1. Cut(file', file \o Bytes) /\ emitted' = Append(emitted, Fragment) /\ pc = "adding"
    BY <1>2 DEF Emission
  <2> QED
    BY <2>1, NextFile
<1>3. CASE Cut(file', file) /\ emitted' = emitted
  <2>1. file \in Seq(Pair) /\ emitted \in Seq(PhysicalRecord)
    BY DEF Typed
  <2>2. BytesOK(file', emitted) /\ Follows(file', emitted, {"middle", "last"})
    BY <1>3, <2>1, CutIsOK DEF FileOK
  <2> QED
    BY <1>3, <2>2 DEF FileOK
<1>4. CASE file' = file /\ emitted' = emitted
  BY <1>4
<1>5. \/ Emission \/ (Cut(file', file) /\ emitted' = emitted) \/ (file' = file /\ emitted' = emitted)
  <2>1. CASE EmitPhysicalRecord \/ EmitFails
    BY <2>1, EmissionSteps
  <2>2. CASE Crash
    BY <2>2, EmissionSteps
  <2>3. CASE \E length \in Lengths : AddRecord(length)
    BY <2>3 DEF AddRecord
  <2>4. CASE FillBuffer \/ ReadFails \/ ReadPhysicalRecord \/ Reuse
    BY <2>4 DEF FillBuffer, ReadFails, ReadPhysicalRecord, Reuse
  <2>5. CASE UNCHANGED vars
    BY <2>5 DEF vars
  <2> QED
    BY <2>1, <2>2, <2>3, <2>4, <2>5 DEF Next
<1> QED
  BY <1>2, <1>3, <1>4, <1>5

\* What is not all in the buffer is not known; what is, is of the file.
BufferOK ==
    /\ reader.pos <= Len(file)
    /\ Len(reader.buffer) <= reader.pos /\ Len(reader.buffer) <= BlockSize
    /\ \A i \in DOMAIN reader.buffer : At + i \in DOMAIN file /\ reader.buffer[i] = file[At + i]

\* The bytes in the buffer are those of physical records.
LEMMA BufferBytes ==
    ASSUME Typed, BufferOK, BytesOK(file, emitted)
    PROVE  \A i \in DOMAIN reader.buffer :
              reader.buffer[i] = Zero \/ reader.buffer[i][1] \in DOMAIN emitted
BY DEF BufferOK, BytesOK

\* What the next physical record leaves in the buffer.
LEMMA RestOfBuffer ==
    ASSUME Typed, BufferOK, NEW f, IsIntact(f)
    PROVE  /\ f.rest \in Seq(Pair) /\ Len(f.rest) = Len(reader.buffer) - SizeIn(emitted, f.p)
           /\ SizeIn(emitted, f.p) \in Nat /\ SizeIn(emitted, f.p) >= HeaderSize
           /\ SizeIn(emitted, f.p) <= BlockSize /\ SizeIn(emitted, f.p) <= Len(reader.buffer)
           /\ Len(f.rest) \in Nat
           /\ \A i \in DOMAIN f.rest :
                 /\ SizeIn(emitted, f.p) + i \in DOMAIN reader.buffer
                 /\ f.rest[i] = reader.buffer[SizeIn(emitted, f.p) + i]
<1> DEFINE buffer == reader.buffer
           size == SizeIn(emitted, f.p)
           l == Len(buffer)
           rest == SubSeq(buffer, size + 1, l)
<1>1. buffer \in Seq(Pair) /\ l \in Nat /\ DOMAIN buffer = 1..l /\ \A i \in 1..l : buffer[i] \in Pair
  BY LenProperties, ElementOfSeq DEF Typed, ReaderType
<1>2. f.p \in DOMAIN emitted /\ size <= l /\ f.rest = rest
  BY DEF IsIntact, Found
<1>3. size \in Nat /\ size >= HeaderSize /\ size <= BlockSize
  BY <1>2, SizeOfRecord DEF Typed
<1> HIDE DEF size, l, buffer
<1>4. \A i \in (size + 1)..l : buffer[i] \in Pair
  BY <1>1, <1>3
<1>5. size + 1 \in Int /\ l \in Int
  BY <1>1, <1>3
<1>6. /\ rest \in Seq(Pair)
      /\ Len(rest) = IF size + 1 <= l THEN l - (size + 1) + 1 ELSE 0
      /\ \A i \in 1..(l - (size + 1) + 1) : rest[i] = buffer[(size + 1) + i - 1]
  BY <1>4, <1>5, SubSeqProperties
<1> HIDE DEF rest
<1>7. Len(rest) = l - size
  BY <1>1, <1>2, <1>3, <1>6
<1>8. DOMAIN rest = 1..(l - size)
  BY <1>6, <1>7, LenProperties
<1>9. ASSUME NEW i \in DOMAIN rest
      PROVE  size + i \in DOMAIN buffer /\ rest[i] = buffer[size + i]
  <2>1. i \in Nat /\ i >= 1 /\ i <= l - size /\ i \in 1..(l - (size + 1) + 1)
    BY <1>1, <1>3, <1>8
  <2>2. (size + 1) + i - 1 = size + i
    BY <2>1, <1>3
  <2>3. size + i \in 1..l
    BY <2>1, <1>1, <1>3
  <2> QED
    BY <2>1, <2>2, <2>3, <1>1, <1>6
<1>10. l - size \in Nat
  BY <1>1, <1>2, <1>3
<1> QED
  BY <1>2, <1>3, <1>6, <1>7, <1>9, <1>10 DEF size, l, buffer

\* What FillBuffer reads.
LEMMA FilledBuffer ==
    ASSUME Typed, BufferOK, FillBuffer
    PROVE  /\ Len(reader'.buffer) \in Nat
           /\ reader'.pos = reader.pos + Len(reader'.buffer) /\ reader'.pos \in Nat
           /\ reader'.pos <= Len(file) /\ Len(reader'.buffer) <= BlockSize
           /\ reader'.eof = (Len(reader'.buffer) < BlockSize)
           /\ Len(reader'.buffer) < BlockSize => reader'.pos = Len(file)
           /\ \A i \in DOMAIN reader'.buffer : /\ reader.pos + i \in DOMAIN file
                                               /\ reader'.buffer[i] = file[reader.pos + i]
           /\ reader' \in ReaderType /\ reader'.scratch = reader.scratch
           /\ reader'.inFragmented = reader.inFragmented /\ reader'.records = reader.records
           /\ reader'.reports = reader.reports
<1> DEFINE pos == reader.pos
           l == Len(file)
           n == IF pos + BlockSize < l THEN pos + BlockSize ELSE l
           read == SubSeq(file, pos + 1, n)
           k == Len(read)
<1>1. /\ file \in Seq(Pair) /\ l \in Nat /\ DOMAIN file = 1..l
      /\ pos \in Nat /\ pos <= l /\ \A i \in 1..l : file[i] \in Pair
  BY LenProperties, ElementOfSeq DEF Typed, ReaderType, BufferOK
<1>2. reader' = [reader EXCEPT !.buffer = read, !.pos = pos + k, !.eof = ShortRead(read)]
  BY DEF FillBuffer, Typed, ReaderType
<1> HIDE DEF l, pos
<1>3. n \in Nat /\ n <= l /\ pos <= n /\ n <= pos + BlockSize
      /\ (n < pos + BlockSize => n = l)
  BY <1>1, SizesOfBlocks
<1> HIDE DEF n
<1>4. \A i \in (pos + 1)..n : file[i] \in Pair
  BY <1>1, <1>3
<1>5. pos + 1 \in Int /\ n \in Int
  BY <1>1, <1>3
<1>6. /\ read \in Seq(Pair)
      /\ Len(read) = IF pos + 1 <= n THEN n - (pos + 1) + 1 ELSE 0
      /\ \A i \in 1..(n - (pos + 1) + 1) : read[i] = file[(pos + 1) + i - 1]
  BY <1>4, <1>5, SubSeqProperties
<1>7. k = n - pos /\ k \in Nat
  BY <1>1, <1>3, <1>6
<1>8. DOMAIN read = 1..k
  BY <1>6, LenProperties
<1>9. ShortRead(read) = (k < BlockSize)
  BY DEF ShortRead
<1> HIDE DEF read, k
<1>10. ASSUME NEW i \in DOMAIN read
       PROVE  pos + i \in DOMAIN file /\ read[i] = file[pos + i]
  <2>1. i \in Nat /\ i >= 1 /\ i <= n - pos /\ i \in 1..(n - (pos + 1) + 1)
    BY <1>1, <1>3, <1>7, <1>8
  <2>2. (pos + 1) + i - 1 = pos + i
    BY <2>1, <1>1
  <2>3. pos + i \in 1..l
    BY <2>1, <1>1, <1>3
  <2> QED
    BY <2>1, <2>2, <2>3, <1>1, <1>6
<1>11. pos + k \in Nat /\ pos + k <= l /\ k <= BlockSize /\ (k < BlockSize => pos + k = l)
  BY <1>1, <1>3, <1>7, SizesOfBlocks
<1>12. (k < BlockSize) \in BOOLEAN
  OBVIOUS
<1> DEFINE short == k < BlockSize
           next == pos + k
<1>13. reader' = [reader EXCEPT !.buffer = read, !.pos = next, !.eof = short] /\ short \in BOOLEAN
  BY <1>2, <1>9
<1>14. next \in Nat /\ reader \in ReaderType
  BY <1>11 DEF Typed
<1>15. short = (k < BlockSize) /\ next = pos + k
  OBVIOUS
<1> HIDE DEF short, next
<1>16. reader' \in ReaderType
  BY <1>6, <1>13, <1>14 DEF ReaderType
<1>17. /\ reader'.buffer = read /\ reader'.pos = next /\ reader'.scratch = reader.scratch
       /\ reader'.records = reader.records /\ reader'.reports = reader.reports
  BY <1>13, <1>14 DEF ReaderType
<1>18. reader'.eof = short /\ reader'.inFragmented = reader.inFragmented
  BY <1>13, <1>14 DEF ReaderType
<1>19. Len(reader'.buffer) = k
  BY <1>17 DEF k
<1> QED
  BY <1>7, <1>10, <1>11, <1>15, <1>16, <1>17, <1>18, <1>19 DEF l, pos

\* A turn of the loop of ReadRecord finds a physical record, a bad one, or
\* the end of the log.
LEMMA ReadSteps ==
    ASSUME Typed, BufferOK, BytesOK(file, emitted), ReadPhysicalRecord
    PROVE  /\ pc = "reading"
           /\ UNCHANGED <<file, writer, added, emitted, failed, crash>>
           /\ \/ /\ pc' = pc /\ Len(reader.buffer) >= HeaderSize
                 /\ \E f \in Physical : IsIntact(f) /\ reader' = Take(f)
              \/ /\ pc' = pc /\ Len(reader.buffer) >= HeaderSize
                 /\ \E report \in BOOLEAN : BadRecord(report) \in Physical /\ reader' = Take(BadRecord(report))
              \/ /\ pc' = "done" /\ reader.eof /\ reader' = Take(Eof)
                 /\ Len(reader.buffer) < HeaderSize \/ Eof \in Physical
<1>0. pc = "reading" /\ UNCHANGED <<file, writer, added, emitted, failed, crash>>
  BY DEF ReadPhysicalRecord
<1>e. Len(reader.buffer) \in Nat
  BY LenProperties DEF Typed, ReaderType
<1>1. PICK f \in IF Len(reader.buffer) >= HeaderSize THEN Physical ELSE {Eof} :
          reader' = Take(f) /\ pc' = IF f.type = "eof" THEN "done" ELSE pc
  BY DEF ReadPhysicalRecord
<1>2. CASE Len(reader.buffer) >= HeaderSize
  <2>1. f \in Physical
    BY <1>1, <1>2
  <2>2. \/ f = Eof /\ reader.eof
        \/ \E report \in BOOLEAN : f = BadRecord(report)
        \/ IsIntact(f)
    BY <1>2, <2>1, BufferBytes, PhysicalFinds
  <2>3. CASE f = Eof /\ reader.eof
    <3>1. f.type = "eof"
      BY <2>3 DEF Eof, Found
    <3> QED
      BY <1>0, <1>1, <2>1, <2>3, <3>1
  <2>4. CASE \E report \in BOOLEAN : f = BadRecord(report)
    <3>1. f.type = "bad"
      BY <2>4 DEF BadRecord, Found
    <3> QED
      BY <1>0, <1>1, <1>2, <2>1, <2>4, <3>1
  <2>5. CASE IsIntact(f)
    <3>1. f.type = emitted[f.p].type /\ f.p \in DOMAIN emitted
      BY <2>5 DEF IsIntact, Found
    <3>2. f.type # "eof"
      BY <3>1, SizeOfRecord DEF Typed, Types
    <3> QED
      BY <1>0, <1>1, <1>2, <2>1, <2>5, <3>2
  <2> QED
    BY <2>2, <2>3, <2>4, <2>5
<1>3. CASE ~(Len(reader.buffer) >= HeaderSize)
  <2>1. f = Eof
    BY <1>1, <1>3
  <2>2. f.type = "eof"
    BY <2>1 DEF Eof, Found
  <2>3. reader.eof
    BY <1>3 DEF ReadPhysicalRecord
  <2>4. Len(reader.buffer) < HeaderSize
    BY <1>3, <1>e, SizesOfBlocks
  <2> QED
    BY <1>0, <1>1, <2>1, <2>2, <2>3, <2>4
<1> QED
  BY <1>2, <1>3

\* What becomes of the reader.
LEMMA TakesIntact ==
    ASSUME Typed, BufferOK, NEW f, IsIntact(f)
    PROVE  LET t == emitted[f.p].type
           IN  /\ t = "full" =>
                    Reads(Take(f), f.rest, <<>>, FALSE, Append(reader.records, <<f.p>>))
               /\ t = "first" =>
                    Reads(Take(f), f.rest, <<f.p>>, TRUE, reader.records)
               /\ t = "middle" /\ reader.inFragmented =>
                    Reads(Take(f), f.rest, Append(reader.scratch, f.p), TRUE, reader.records)
               /\ t = "last" /\ reader.inFragmented =>
                    Reads(Take(f), f.rest, <<>>, FALSE, Append(reader.records, Append(reader.scratch, f.p)))
               /\ t \in {"middle", "last"} /\ ~reader.inFragmented =>
                    Reads(Take(f), f.rest, reader.scratch, FALSE, reader.records)
               /\ t \in {"full", "first"} /\ ~reader.inFragmented => Take(f).reports = reader.reports
               /\ t \in {"middle", "last"} /\ reader.inFragmented => Take(f).reports = reader.reports
               /\ t \in Types /\ Take(f) \in ReaderType /\ Take(f).pos = reader.pos
               /\ Take(f).eof = reader.eof /\ Take(f).buffer = f.rest
<1> DEFINE t == emitted[f.p].type
           p == f.p
           rest == f.rest
           report == FALSE
<1>1. p \in Nat /\ rest \in Seq(Pair) /\ t \in Types
  <2>1. p \in DOMAIN emitted /\ emitted \in Seq(PhysicalRecord)
    BY DEF IsIntact, Typed
  <2>2. p \in Nat
    BY <2>1, LenProperties
  <2>3. t \in Types
    BY <2>1, SizeOfRecord
  <2>4. rest \in Seq(Pair)
    BY RestOfBuffer
  <2> QED
    BY <2>2, <2>3, <2>4
<1>2. f = Found(t, p, rest, FALSE)
  BY DEF IsIntact, Found
<1>3. reader \in ReaderType
  BY DEF Typed
<1> HIDE DEF t, p, rest
<1>4. /\ t = "full" =>
           Reads(Take(f), rest, <<>>, FALSE, Append(reader.records, <<p>>))
      /\ t = "first" =>
           Reads(Take(f), rest, <<p>>, TRUE, reader.records)
      /\ t = "middle" /\ reader.inFragmented =>
           Reads(Take(f), rest, Append(reader.scratch, p), TRUE, reader.records)
      /\ t = "last" /\ reader.inFragmented =>
           Reads(Take(f), rest, <<>>, FALSE, Append(reader.records, Append(reader.scratch, p)))
      /\ t \in {"middle", "last"} /\ ~reader.inFragmented =>
           Reads(Take(f), rest, reader.scratch, FALSE, reader.records)
      /\ t \in {"full", "first"} /\ ~reader.inFragmented => Take(f).reports = reader.reports
      /\ t \in {"middle", "last"} /\ reader.inFragmented => Take(f).reports = reader.reports
  <2>1. report \in BOOLEAN /\ f = Found(t, p, rest, report)
    BY <1>2
  <2>2. ~report
    OBVIOUS
  <2> HIDE DEF report
  <2> QED
    BY <1>1, <1>3, <2>1, <2>2, TakeIs
<1>5. /\ Take(f) \in ReaderType /\ Take(f).pos = reader.pos
      /\ Take(f).eof = reader.eof /\ Take(f).buffer = rest
  BY <1>1, <1>4 DEF Reads, Types
<1> QED
  BY <1>1, <1>4, <1>5 DEF t, p, rest

\* At a bad record ReadRecord clears scratch and returns nothing.
LEMMA TakesBad ==
    ASSUME Typed, reader.inFragmented <=> reader.scratch # <<>>, NEW report \in BOOLEAN
    PROVE  Reads(Take(BadRecord(report)), <<>>, <<>>, FALSE, reader.records)
<1>1. BadRecord(report) = Found("bad", 0, <<>>, report)
  BY DEF BadRecord
<1>2. <<>> \in Seq(Pair) /\ reader \in ReaderType /\ 0 \in Nat
  BY EmptySeq DEF Typed
<1> DEFINE rest == <<>>
           type == "bad"
           f == Found(type, 0, rest, report)
<1>3. rest \in Seq(Pair) /\ type = "bad" /\ BadRecord(report) = f
  BY <1>1, <1>2
<1> HIDE DEF rest, type
<1>4. /\ type = "bad" /\ reader.inFragmented => Reads(Take(f), rest, <<>>, FALSE, reader.records)
      /\ type = "bad" /\ ~reader.inFragmented => Reads(Take(f), rest, reader.scratch, FALSE, reader.records)
  BY <1>2, <1>3, TakeIs
<1>5. Reads(Take(f), rest, <<>>, FALSE, reader.records)
  BY <1>3, <1>4
<1> QED
  BY <1>3, <1>5 DEF rest

\* At the end of the file ReadRecord returns nothing and reports nothing.
LEMMA TakesEof ==
    ASSUME Typed
    PROVE  /\ Reads(Take(Eof), <<>>, reader.scratch, reader.inFragmented, reader.records)
           /\ Take(Eof).reports = reader.reports
<1>1. Eof = Found("eof", 0, <<>>, FALSE)
  BY DEF Eof
<1>2. <<>> \in Seq(Pair) /\ reader \in ReaderType /\ 0 \in Nat
  BY EmptySeq DEF Typed
<1> DEFINE rest == <<>>
           type == "eof"
           report == FALSE
           f == Found(type, 0, rest, report)
<1>3. rest \in Seq(Pair) /\ type = "eof" /\ report \in BOOLEAN /\ ~report /\ Eof = f
  BY <1>1, <1>2
<1> HIDE DEF rest, type, report
<1>4. /\ type = "eof" => Reads(Take(f), rest, reader.scratch, reader.inFragmented, reader.records)
      /\ ~report /\ type = "eof" => Take(f).reports = reader.reports
  BY <1>2, <1>3, TakeIs
<1>5. Reads(Take(f), rest, reader.scratch, reader.inFragmented, reader.records)
      /\ Take(f).reports = reader.reports
  BY <1>3, <1>4
<1> QED
  BY <1>3, <1>5 DEF rest

\* A new reader has read nothing.
LEMMA NewReaderIs ==
    /\ NewReader \in ReaderType /\ NewReader.pos = 0 /\ NewReader.buffer = <<>>
    /\ Len(NewReader.buffer) = 0 /\ NewReader.eof = FALSE /\ NewReader.scratch = <<>>
    /\ NewReader.inFragmented = FALSE /\ NewReader.records = <<>> /\ NewReader.reports = 0
<1>1. <<>> \in Seq(Pair) /\ <<>> \in Seq(Nat) /\ <<>> \in Seq(Seq(Nat)) /\ Len(<<>>) = 0
  BY EmptySeq
<1> QED
  BY <1>1 DEF NewReader, ReaderType

\* What the reader has of the file.
BufferInv ==
    /\ BufferOK
    /\ pc = "reading" /\ reader.eof => reader.pos = Len(file)
    /\ reader.inFragmented <=> reader.scratch # <<>>

\* The types of the writer's side.
LEMMA TypedWriter ==
    ASSUME Typed, WriterOK,
           \/ \E length \in Lengths : AddRecord(length)
           \/ EmitPhysicalRecord \/ EmitFails \/ Crash \/ Reuse
    PROVE  Typed'
<1>1. /\ file \in Seq(Pair) /\ added \in Seq({"adding", "ok", "failed"})
      /\ emitted \in Seq(PhysicalRecord) /\ reader \in ReaderType
      /\ writer \in [offset : 0..BlockSize, left : Nat, begin : BOOLEAN]
      /\ failed \in [appends : Nat, reads : Nat]
      /\ crash \in [count : Nat, machine : BOOLEAN, torn : BOOLEAN]
  BY DEF Typed
<1>e. /\ Fragment \in PhysicalRecord /\ Fragment.length \in Nat /\ Fragment.length <= writer.left
      /\ Advanced(Fragment.length) \in 0..BlockSize
  <2> DEFINE o == Offset
             k == Fragment.length
  <2>1. o \in Nat /\ k \in Nat /\ o + HeaderSize + k <= BlockSize
    BY NextFragment
  <2>2. Advanced(k) = o + HeaderSize + k
    BY DEF Advanced
  <2> HIDE DEF o, k
  <2>3. Advanced(k) \in 0..BlockSize
    BY <2>1, <2>2, SizesOfBlocks
  <2> QED
    BY <2>3, NextFragment DEF k
<1>f. Append(emitted, Fragment) \in Seq(PhysicalRecord)
  BY <1>1, <1>e, AppendProperties
<1>w. \A v \in {"adding", "ok", "failed"} :
          [added EXCEPT ![Len(added)] = v] \in Seq({"adding", "ok", "failed"})
  BY <1>1, ExceptIsSeq
<1>2. ASSUME NEW length \in Lengths, AddRecord(length) PROVE Typed'
  <2>1. length \in Nat
    BY LogFormatAssumption
  <2>2. Append(added, "adding") \in Seq({"adding", "ok", "failed"})
    BY <1>1, AppendProperties
  <2>3. writer' \in [offset : 0..BlockSize, left : Nat, begin : BOOLEAN]
    BY <1>1, <1>2, <2>1 DEF AddRecord
  <2> QED
    BY <1>1, <1>2, <2>2, <2>3 DEF AddRecord, Typed
<1>3. CASE EmitPhysicalRecord
  <2>1. file' \in Seq(Pair)
    BY <1>3, EmissionSteps DEF EmitPhysicalRecord
  <2>2. writer' \in [offset : 0..BlockSize, left : Nat, begin : BOOLEAN]
    <3> DEFINE o == Advanced(Fragment.length)
               l == writer.left - Fragment.length
    <3>1. writer' = [offset |-> o, left |-> l, begin |-> FALSE]
      BY <1>3 DEF EmitPhysicalRecord
    <3>2. o \in 0..BlockSize /\ l \in Nat
      BY <1>1, <1>e
    <3> HIDE DEF o, l
    <3> QED
      BY <3>1, <3>2
  <2>3. added' \in Seq({"adding", "ok", "failed"}) /\ pc' \in {"idle", "adding", "reading", "done"}
    BY <1>1, <1>w, <1>3 DEF EmitPhysicalRecord, Typed
  <2>4. emitted' \in Seq(PhysicalRecord)
    BY <1>f, <1>3 DEF EmitPhysicalRecord
  <2> QED
    BY <1>1, <1>3, <2>1, <2>2, <2>3, <2>4 DEF EmitPhysicalRecord, Typed
<1>4. CASE EmitFails
  <2>1. file' \in Seq(Pair)
    BY <1>4, EmissionSteps DEF Emission, Cut
  <2>2. writer' \in [offset : 0..BlockSize, left : Nat, begin : BOOLEAN]
    <3> DEFINE o == Advanced(Fragment.length)
    <3>1. writer' = [writer EXCEPT !.offset = o]
      BY <1>4 DEF EmitFails
    <3>2. o \in 0..BlockSize
      BY <1>e
    <3> HIDE DEF o
    <3> QED
      BY <1>1, <3>1, <3>2
  <2>3. added' \in Seq({"adding", "ok", "failed"}) /\ pc' \in {"idle", "adding", "reading", "done"}
    BY <1>1, <1>w, <1>4 DEF EmitFails
  <2>4. emitted' \in Seq(PhysicalRecord)
    BY <1>f, <1>4 DEF EmitFails
  <2>5. failed' \in [appends : Nat, reads : Nat]
    <3> DEFINE k == failed.appends + 1
    <3>0. failed' = [failed EXCEPT !.appends = @ + 1]
      BY <1>4 DEF EmitFails
    <3>1. k \in Nat /\ failed' = [failed EXCEPT !.appends = k]
      BY <1>1, <3>0
    <3> HIDE DEF k
    <3> QED
      BY <1>1, <3>1
  <2> QED
    BY <1>1, <1>4, <2>1, <2>2, <2>3, <2>4, <2>5 DEF EmitFails, Typed
<1>5. CASE Crash
  <2>1. file' \in Seq(Pair)
    BY <1>5, EmissionSteps DEF Emission, Cut
  <2>2. emitted' \in Seq(PhysicalRecord) /\ added' \in Seq({"adding", "ok", "failed"})
    BY <1>1, <1>f, <1>w, <1>5 DEF Crash
  <2>3. crash' \in [count : Nat, machine : BOOLEAN, torn : BOOLEAN]
    <3>1. PICK n : crash' = [crash EXCEPT !.count = @ + 1, !.machine = @ \/ n < Len(file)]
      BY <1>5 DEF Crash
    <3> DEFINE b == crash.machine \/ n < Len(file)
               k == crash.count + 1
    <3>2. b \in BOOLEAN /\ k \in Nat /\ crash' = [crash EXCEPT !.count = k, !.machine = b]
      BY <1>1, <3>1
    <3> HIDE DEF b, k
    <3> QED
      BY <1>1, <3>2
  <2>4. reader' \in ReaderType /\ pc' = "reading" /\ UNCHANGED <<writer, failed>>
    BY <1>5, NewReaderIs DEF Crash
  <2> QED
    BY <1>1, <2>1, <2>2, <2>3, <2>4 DEF Typed
<1>6. CASE Reuse
  <2>1. writer' \in [offset : 0..BlockSize, left : Nat, begin : BOOLEAN]
    <3> DEFINE o == Len(file) % BlockSize
    <3>1. o \in 0..BlockSize
      BY <1>1, SizesOfBlocks, LenProperties
    <3>2. writer' = [offset |-> o, left |-> 0, begin |-> TRUE]
      BY <1>6 DEF Reuse
    <3> HIDE DEF o
    <3> QED
      BY <3>1, <3>2
  <2>2. crash' \in [count : Nat, machine : BOOLEAN, torn : BOOLEAN]
    <3> DEFINE b == crash.torn \/ ~EndsWhole
    <3>1. b \in BOOLEAN /\ crash' = [crash EXCEPT !.torn = b]
      BY <1>1, <1>6 DEF Reuse
    <3> HIDE DEF b
    <3> QED
      BY <1>1, <3>1
  <2> QED
    BY <1>1, <1>6, <2>1, <2>2, NewReaderIs DEF Reuse, Typed
<1> QED
  BY <1>2, <1>3, <1>4, <1>5, <1>6

\* Every step keeps the types.
LEMMA TypedNext ==
    ASSUME Typed, WriterOK, BufferInv, FileOK(file, emitted), [Next]_vars
    PROVE  Typed'
<1>1. CASE FillBuffer
  BY <1>1, FilledBuffer DEF FillBuffer, Typed, BufferInv
<1>2. CASE ReadFails
  <2>1. reader' \in ReaderType
    <3> DEFINE k == reader.reports + 1
               b == <<>>
    <3>1. reader' = [reader EXCEPT !.buffer = b, !.eof = TRUE, !.reports = k] /\ k \in Nat
      BY <1>2 DEF ReadFails, Typed, ReaderType
    <3>2. b \in Seq(Pair) /\ reader \in ReaderType
      BY EmptySeq DEF Typed
    <3> HIDE DEF k, b
    <3> QED
      BY <3>1, <3>2 DEF ReaderType
  <2>2. failed' \in [appends : Nat, reads : Nat]
    BY <1>2 DEF ReadFails, Typed
  <2> QED
    BY <1>2, <2>1, <2>2 DEF ReadFails, Typed
<1>3. CASE ReadPhysicalRecord
  <2>1. /\ UNCHANGED <<file, writer, added, emitted, failed, crash>>
        /\ pc' \in {"idle", "adding", "reading", "done"} /\ reader' \in ReaderType
    <3>1. pc = "reading" /\ (pc' = pc \/ pc' = "done")
      BY <1>3, ReadSteps DEF BufferInv, FileOK
    <3>2. reader' \in ReaderType
      BY <1>3, ReadSteps, TakesIntact, TakesBad, TakesEof DEF BufferInv, FileOK, Reads
    <3> QED
      BY <1>3, <3>1, <3>2 DEF ReadPhysicalRecord
  <2> QED
    BY <2>1 DEF Typed
<1>4. CASE UNCHANGED vars
  BY <1>4 DEF vars, Typed
<1> QED
  BY <1>1, <1>2, <1>3, <1>4, TypedWriter DEF Next

\* After a turn of the loop that leaves something of the record.
LEMMA WriterGoesOn ==
    ASSUME Typed, WriterOK, pc = "adding"
    PROVE  LET e == Append(emitted, Fragment)
               g == file \o Bytes
           IN  /\ \A p \in DOMAIN e : e[p].record >= 1 /\ e[p].record <= Len(added)
               /\ e # <<>> /\ e[Len(e)].record = Len(added)
               /\ e[Len(e)].type \in {"full", "last"} <=> writer.left = Fragment.length
               /\ e[Len(e)].type \in Types
               /\ EndsAt(g, e, Len(g), Len(e))
               /\ Len(e) = Len(emitted) + 1
<1> DEFINE e == Append(emitted, Fragment)
           g == file \o Bytes
           n == Len(emitted) + 1
           t == Len(Trailer)
           m == Len(file)
           size == HeaderSize + Fragment.length
<1>1. /\ file \in Seq(Pair) /\ emitted \in Seq(PhysicalRecord) /\ m \in Nat
      /\ Len(added) \in Nat /\ Len(added) >= 1
  <2>1. added \in Seq({"adding", "ok", "failed"}) /\ added # <<>>
    BY DEF WriterOK, Typed
  <2>2. Len(added) \in Nat /\ Len(added) >= 1
    BY <2>1, EmptySeq, LenProperties
  <2> QED
    BY <2>2, LenProperties DEF Typed
<1>2. /\ Fragment \in PhysicalRecord /\ Fragment.record = Len(added) /\ Fragment.type \in Types
      /\ Fragment.type \in {"full", "last"} <=> writer.left = Fragment.length
      /\ size \in Nat /\ size >= 1
  <2> DEFINE k == Fragment.length
  <2>1. k \in Nat
    BY NextFragment
  <2> HIDE DEF k
  <2>2. HeaderSize + k \in Nat /\ HeaderSize + k >= 1
    BY <2>1, SizesOfBlocks
  <2> QED
    BY <2>2, NextFragment DEF PhysicalRecord, k
<1>3. /\ Longer(e, emitted) /\ Len(e) = n /\ e[n] = Fragment /\ n \in DOMAIN e /\ n \in Nat
      /\ \A p \in DOMAIN e : p = n \/ p \in DOMAIN emitted
      /\ e \in Seq(PhysicalRecord)
  BY <1>1, <1>2, AppendIsLonger DEF Longer
<1>4. Extended(g, file, t, n, size) /\ t \in Nat
  BY NextBytes
<1>5. SizeIn(e, n) = size
  BY <1>3 DEF SizeIn
<1> HIDE DEF e, g, n, t, size, m
<1>m. m = Len(file)
  BY DEF m
<1>6. Len(g) = m + t + size /\ g \in Seq(Pair)
  BY <1>4, <1>m DEF Extended
<1> DEFINE k == Len(g)
<1>7. k \in DOMAIN g /\ m + t < k /\ k - m - t = size
  <2>1. DOMAIN g = 1..k
    BY <1>6, LenProperties
  <2> HIDE DEF k
  <2>2. k = m + t + size
    BY <1>6 DEF k
  <2> QED
    BY <2>1, <2>2, <1>1, <1>2, <1>4
<1> HIDE DEF k
<1>8. g[k] = <<n, size>>
  BY <1>4, <1>7, <1>m DEF Extended
<1>9. EndsAt(g, e, k, n)
  BY <1>5, <1>7, <1>8 DEF EndsAt
<1>10. \A p \in DOMAIN e : e[p].record >= 1 /\ e[p].record <= Len(added)
  BY <1>1, <1>2, <1>3 DEF Longer, WriterOK
<1>11. e # <<>>
  BY <1>3
<1> QED
  BY <1>2, <1>3, <1>9, <1>10, <1>11 DEF e, g, n, k

\* Every step keeps what is known of the writer.
LEMMA WriterNext ==
    ASSUME Typed, WriterOK, Typed', [Next]_vars
    PROVE  WriterOK'
<1> DEFINE RecordsOf(e, n) == \A p \in DOMAIN e : e[p].record >= 1 /\ e[p].record <= n
<1>1. RecordsOf(emitted, Len(added)) /\ Len(added) \in Nat
  BY LenProperties DEF WriterOK, Typed
<1>2. ASSUME NEW length \in Lengths, AddRecord(length) PROVE WriterOK'
  <2>1. /\ pc = "idle" /\ emitted' = emitted /\ reader' = reader
        /\ added' = Append(added, "adding") /\ writer'.begin = TRUE
    BY <1>2 DEF AddRecord, Typed
  <2>2. Len(added') = Len(added) + 1 /\ added' # <<>>
    <3> DEFINE S == {"adding", "ok", "failed"}
               v == "adding"
    <3>1. added \in Seq(S) /\ v \in S /\ added' = Append(added, v)
      BY <2>1 DEF Typed
    <3> HIDE DEF S, v
    <3> QED
      BY <3>1, AppendProperties
  <2>3. \A p \in DOMAIN emitted : emitted[p].record \in Nat
    BY SizeOfRecord DEF Typed
  <2>4. RecordsOf(emitted, Len(added')) /\ \A p \in DOMAIN emitted : emitted[p].record < Len(added')
    BY <1>1, <2>2, <2>3
  <2> QED
    BY <2>1, <2>2, <2>4 DEF WriterOK
<1>3. CASE EmitPhysicalRecord
  <2>1. /\ pc = "adding" /\ emitted' = Append(emitted, Fragment) /\ file' = file \o Bytes
        /\ reader' = reader /\ writer'.begin = FALSE
        /\ writer'.left = writer.left - Fragment.length
        /\ pc' = "idle" \/ (pc' = pc /\ added' = added /\ writer'.left # 0)
        /\ Len(added') = Len(added)
    BY <1>3, EmissionSteps DEF EmitPhysicalRecord, Emission
  <2>2. /\ RecordsOf(emitted', Len(added)) /\ emitted' # <<>>
        /\ emitted'[Len(emitted')].record = Len(added)
        /\ emitted'[Len(emitted')].type \in {"full", "last"} <=> writer.left = Fragment.length
        /\ emitted'[Len(emitted')].type \in Types
        /\ EndsAt(file', emitted', Len(file'), Len(emitted'))
    BY <2>1, WriterGoesOn
  <2>3. pc' = "adding" => emitted'[Len(emitted')].type \in {"first", "middle"}
    <3> DEFINE l == writer.left
               k == Fragment.length
    <3>1. l \in Nat /\ k \in Nat
      BY NextFragment DEF Typed
    <3>2. pc' = "adding" => l - k # 0
      BY <2>1
    <3>3. (l = k) => l - k = 0
      BY <3>1
    <3> HIDE DEF l, k
    <3>4. pc' = "adding" => l # k
      BY <3>2, <3>3
    <3> QED
      BY <3>4, <2>2 DEF Types, l, k
  <2>4. reader' = NewReader
    BY <2>1 DEF WriterOK
  <2>5. EndsAt(file, emitted, Len(file), Len(emitted))'
    BY <2>2 DEF EndsAt, SizeIn
  <2>6. pc' = "adding" => added' # <<>>
    BY <2>1 DEF WriterOK
  <2> QED
    BY <2>1, <2>2, <2>3, <2>4, <2>5, <2>6 DEF WriterOK
<1>4. CASE EmitFails
  <2>1. /\ pc = "adding" /\ emitted' = Append(emitted, Fragment)
        /\ reader' = reader /\ pc' = "idle" /\ Len(added') = Len(added)
    BY <1>4, EmissionSteps DEF EmitFails, Emission
  <2>2. RecordsOf(emitted', Len(added))
    BY <2>1, WriterGoesOn
  <2> QED
    BY <2>1, <2>2 DEF WriterOK
<1>5. CASE Crash
  <2>1. pc' = "reading"
    BY <1>5 DEF Crash
  <2>2. RecordsOf(emitted', Len(added'))
    <3>1. CASE pc = "adding"
      <4>1. emitted' = Append(emitted, Fragment) /\ Len(added') = Len(added)
        BY <1>5, <3>1, EmissionSteps DEF Emission
      <4> QED
        BY <3>1, <4>1, WriterGoesOn
    <3>2. CASE pc # "adding"
      BY <1>1, <1>5, <3>2, EmissionSteps
    <3> QED
      BY <3>1, <3>2
  <2> QED
    BY <2>1, <2>2 DEF WriterOK
<1>6. CASE FillBuffer \/ ReadFails \/ ReadPhysicalRecord
  <2>1. pc' \in {"reading", "done"} /\ emitted' = emitted /\ added' = added
    <3>1. CASE ReadPhysicalRecord
      BY <3>1 DEF ReadPhysicalRecord
    <3> QED
      BY <1>6, <3>1 DEF FillBuffer, ReadFails
  <2> QED
    BY <1>1, <2>1 DEF WriterOK
<1>7. CASE Reuse
  BY <1>1, <1>7 DEF Reuse, WriterOK
<1>8. CASE UNCHANGED vars
  BY <1>8 DEF vars, WriterOK, EndsAt, SizeIn
<1> QED
  BY <1>2, <1>3, <1>4, <1>5, <1>6, <1>7, <1>8 DEF Next

\* Every step keeps what is known of the buffer of the reader.
LEMMA BufferNext ==
    ASSUME Typed, WriterOK, BufferInv, FileOK(file, emitted), Typed', WriterOK', [Next]_vars
    PROVE  BufferInv'
<1>0. Len(file') \in Nat /\ Len(file) \in Nat
  BY LenProperties DEF Typed
<1>1. CASE reader' = NewReader
  <2>1. reader'.pos = 0 /\ Len(reader'.buffer) = 0 /\ DOMAIN reader'.buffer = {}
    BY <1>1, NewReaderIs
  <2>2. BufferOK'
    BY <1>0, <2>1, SizesOfBlocks DEF BufferOK
  <2>3. reader'.eof = FALSE /\ reader'.scratch = <<>> /\ reader'.inFragmented = FALSE
    BY <1>1, NewReaderIs
  <2> QED
    BY <2>2, <2>3 DEF BufferInv
<1>2. CASE FillBuffer
  <2>1. /\ pc' = pc /\ file' = file
    BY <1>2 DEF FillBuffer
  <2>2. BufferOK /\ (reader.inFragmented <=> reader.scratch # <<>>)
    BY DEF BufferInv
  <2> DEFINE b == reader'.buffer
             k == Len(b)
             pos == reader.pos
  <2>3. /\ k \in Nat /\ reader'.pos = pos + k /\ pos \in Nat
        /\ pos + k <= Len(file) /\ k <= BlockSize
        /\ reader'.eof => pos + k = Len(file)
        /\ \A i \in DOMAIN b : pos + i \in DOMAIN file /\ b[i] = file[pos + i]
        /\ reader'.scratch = reader.scratch /\ reader'.inFragmented = reader.inFragmented
    BY <1>2, <2>2, FilledBuffer DEF Typed, ReaderType
  <2>4. At' = pos
    <3>1. At' = reader'.pos - k
      BY DEF At
    <3> HIDE DEF k, pos
    <3> QED
      BY <3>1, <2>3
  <2> HIDE DEF b, k, pos
  <2>5. k <= pos + k
    BY <2>3
  <2>6. BufferOK'
    BY <2>1, <2>3, <2>4, <2>5 DEF BufferOK, b, k
  <2>7. reader'.eof => reader'.pos = Len(file')
    BY <2>1, <2>3
  <2> QED
    BY <2>2, <2>3, <2>6, <2>7 DEF BufferInv
<1>3. CASE ReadFails
  <2>1. /\ pc' = "done" /\ file' = file
        /\ reader' = [reader EXCEPT !.buffer = <<>>, !.eof = TRUE, !.reports = @ + 1]
    BY <1>3 DEF ReadFails
  <2>2. /\ reader'.pos = reader.pos /\ reader'.buffer = <<>> /\ reader'.scratch = reader.scratch
    BY <2>1 DEF Typed, ReaderType
  <2>3. reader'.inFragmented = reader.inFragmented
    BY <2>1 DEF Typed, ReaderType
  <2>4. Len(reader'.buffer) = 0 /\ DOMAIN reader'.buffer = {} /\ reader.pos \in Nat
    BY <2>2 DEF Typed, ReaderType
  <2>5. BufferOK'
    BY <2>1, <2>2, <2>4, SizesOfBlocks DEF BufferOK, BufferInv
  <2> QED
    BY <2>1, <2>2, <2>3, <2>5 DEF BufferInv
<1>4. CASE ReadPhysicalRecord
  <2>1. /\ BufferOK /\ BytesOK(file, emitted) /\ (reader.inFragmented <=> reader.scratch # <<>>)
    BY DEF BufferInv, FileOK
  <2>2. pc = "reading" /\ UNCHANGED <<file, writer, added, emitted, failed, crash>>
    BY <1>4, <2>1, ReadSteps
  <2>3. ASSUME reader'.buffer = <<>>, reader'.pos = reader.pos PROVE BufferOK'
    <3>1. Len(reader'.buffer) = 0 /\ DOMAIN reader'.buffer = {} /\ reader.pos \in Nat
      BY <2>3 DEF Typed, ReaderType
    <3> QED
      BY <2>1, <2>2, <2>3, <3>1, SizesOfBlocks DEF BufferOK
  <2>4. CASE pc' = pc /\ \E f \in Physical : IsIntact(f) /\ reader' = Take(f)
    <3>1. PICK f \in Physical : IsIntact(f) /\ reader' = Take(f)
      BY <2>4
    <3> DEFINE p == f.p
               rest == f.rest
               size == SizeIn(emitted, p)
               pos == reader.pos
               b == reader.buffer
               l == Len(b)
    <3>2. /\ rest \in Seq(Pair) /\ Len(rest) = l - size /\ size \in Nat /\ size <= l /\ Len(rest) \in Nat
          /\ \A i \in DOMAIN rest : size + i \in DOMAIN b /\ rest[i] = b[size + i]
      BY <2>1, <3>1, RestOfBuffer
    <3>3. reader'.buffer = rest /\ reader'.pos = pos /\ reader'.eof = reader.eof
      BY <2>1, <3>1, TakesIntact
    <3>4. /\ pos \in Nat /\ l \in Nat /\ At = pos - l /\ pos <= Len(file) /\ l <= pos /\ l <= BlockSize
          /\ \A i \in DOMAIN b : At + i \in DOMAIN file /\ b[i] = file[At + i]
      BY <2>1, LenProperties DEF Typed, ReaderType, BufferOK, At
    <3>5. At' = pos - Len(rest)
      BY <3>3 DEF At
    <3>i. reader'.inFragmented <=> reader'.scratch # <<>>
      <4>1. /\ \A q : <<q>> # <<>>
            /\ reader.scratch \in Seq(Nat) /\ p \in Nat
        <5>1. p \in DOMAIN emitted
          BY <3>1 DEF IsIntact
        <5>2. emitted \in Seq(PhysicalRecord) /\ reader.scratch \in Seq(Nat)
          BY DEF Typed, ReaderType
        <5> HIDE DEF p
        <5>3. p \in Nat
          BY <5>1, <5>2, LenProperties
        <5> QED
          BY <5>2, <5>3
      <4> HIDE DEF p
      <4>2. Append(reader.scratch, p) # <<>>
        <5> DEFINE s == reader.scratch
        <5>1. s \in Seq(Nat)
          BY <4>1
        <5> HIDE DEF s
        <5>2. Append(s, p) # <<>>
          BY <4>1, <5>1, AppendProperties
        <5> QED
          BY <5>2 DEF s
      <4> QED
        BY <2>1, <3>1, <4>1, <4>2, TakesIntact DEF Reads, Types, p
    <3> HIDE DEF rest, size, pos, l, p, b
    <3>6. \A i \in DOMAIN rest : i \in Nat
      BY <3>2, LenProperties
    <3>7. At' = At + size /\ Len(rest) <= pos /\ Len(rest) <= BlockSize
      BY <3>2, <3>4, <3>5, SizesOfBlocks
    <3>8. ASSUME NEW i \in DOMAIN rest
          PROVE  At' + i \in DOMAIN file /\ rest[i] = file[At' + i]
      <4>1. At' + i = At + (size + i)
        BY <3>2, <3>4, <3>6, <3>7
      <4> QED
        BY <4>1, <3>2, <3>4
    <3>9. BufferOK'
      BY <2>2, <3>3, <3>4, <3>7, <3>8 DEF BufferOK
    <3> QED
      BY <2>2, <2>4, <3>3, <3>9, <3>i DEF BufferInv, pos
  <2>5. CASE \E report \in BOOLEAN : reader' = Take(BadRecord(report))
    <3>1. Reads(reader', <<>>, <<>>, FALSE, reader.records)
      BY <2>1, <2>5, TakesBad
    <3>2. BufferOK'
      BY <2>3, <3>1 DEF Reads
    <3> QED
      BY <2>2, <3>1, <3>2 DEF Reads, BufferInv
  <2>6. CASE pc' = "done" /\ reader' = Take(Eof)
    <3>1. Reads(reader', <<>>, reader.scratch, reader.inFragmented, reader.records)
      BY <2>6, TakesEof
    <3>2. BufferOK'
      BY <2>3, <3>1 DEF Reads
    <3> QED
      BY <2>1, <2>6, <3>1, <3>2 DEF Reads, BufferInv
  <2> QED
    BY <1>4, <2>1, <2>4, <2>5, <2>6, ReadSteps
<1>5. CASE UNCHANGED vars
  BY <1>5 DEF vars, BufferInv, BufferOK, At
<1>6. CASE Crash \/ Reuse
  BY <1>1, <1>6 DEF Crash, Reuse
<1>7. CASE (\E length \in Lengths : AddRecord(length)) \/ EmitPhysicalRecord \/ EmitFails
  <2>1. reader' = reader /\ pc \in {"idle", "adding"}
    BY <1>7 DEF AddRecord, EmitPhysicalRecord, EmitFails
  <2> QED
    BY <1>1, <2>1 DEF WriterOK
<1> QED
  BY <1>2, <1>3, <1>4, <1>5, <1>6, <1>7 DEF Next

\* A nonempty set of natural numbers has a least element.
LEMMA LeastNat ==
    ASSUME NEW T \in SUBSET Nat, T # {}
    PROVE  \E n \in T : \A m \in T : n <= m
<1>1. \E n \in T : \A m \in T : <<m, n>> \notin OpToRel(<, Nat)
  BY NatLessThanWellFounded, WFMin
<1>2. PICK n \in T : \A m \in T : <<m, n>> \notin OpToRel(<, Nat)
  BY <1>1
<1>3. \A m \in T : n <= m
  <2>1. SUFFICES ASSUME NEW m \in T, m < n PROVE FALSE
    OBVIOUS
  <2>2. <<m, n>> \in OpToRel(<, Nat)
    BY <2>1 DEF OpToRel
  <2> QED
    BY <1>2, <2>2
<1> QED
  BY <1>3

\* The bytes of a physical record before one that is in the file are there.
LEMMA Backwards ==
    ASSUME NEW f \in Seq(Pair), NEW e, BytesOK(f, e), NEW x \in DOMAIN f, NEW k \in Nat, k < f[x][2]
    PROVE  x - k \in DOMAIN f /\ f[x - k] = <<f[x][1], f[x][2] - k>>
<1> DEFINE p == f[x][1]
           i == f[x][2]
           P(n) == x - n \in DOMAIN f /\ f[x - n] = <<p, i - n>>
           T == {n \in Nat : n < i /\ ~P(n)}
<1>1. x \in Nat /\ p \in Nat /\ i \in Nat /\ f[x] = <<p, i>>
  BY BytePair
<1> HIDE DEF p, i
<1>2. SUFFICES ASSUME T # {} PROVE FALSE
  BY DEF p, i
<1>3. PICK n \in T : \A m \in T : n <= m
  BY <1>2, LeastNat
<1>4. n \in Nat /\ n < i /\ ~P(n)
  BY <1>3
<1>5. n # 0
  <2>1. x - 0 = x /\ i - 0 = i
    BY <1>1
  <2>2. P(0)
    BY <1>1, <2>1
  <2> QED
    BY <1>4, <2>2
<1>6. P(n - 1)
  <2>1. n - 1 \in Nat /\ n - 1 < i /\ ~(n <= n - 1)
    BY <1>1, <1>4, <1>5
  <2>2. n - 1 \notin T
    BY <1>3, <2>1
  <2> QED
    BY <2>1, <2>2
<1> DEFINE y == x - (n - 1)
           j == i - (n - 1)
<1>7. y \in DOMAIN f /\ f[y] = <<p, j>>
  BY <1>6
<1>8. j > 1 /\ y - 1 = x - n /\ j - 1 = i - n
  BY <1>1, <1>4, <1>5
<1> HIDE DEF y, j
<1>9. f[y][2] > 1 /\ f[y][1] = p /\ f[y][2] = j
  BY <1>7, <1>8
<1>10. y - 1 \in DOMAIN f /\ f[y - 1] = <<p, j - 1>>
  BY <1>7, <1>9 DEF BytesOK
<1> QED
  BY <1>4, <1>8, <1>10

\* A fragment that continues a record follows the one that the reader had
\* last: nothing but padding fits between them.
LEMMA NextIsNext ==
    ASSUME NEW f \in Seq(Pair), NEW e \in Seq(PhysicalRecord), BytesOK(f, e),
           NEW a \in Nat, NEW p \in DOMAIN e, NEW q \in DOMAIN e, NEW y, NEW z,
           EndsAt(f, e, z, p - 1), z <= a, Padding(f, z, a + 1), p - 1 \in DOMAIN e,
           EndsAt(f, e, y, q), y <= a, a - y < HeaderSize
    PROVE  q = p - 1
<1>1. /\ y \in DOMAIN f /\ f[y] = <<q, SizeIn(e, q)>>
      /\ z \in DOMAIN f /\ f[z] = <<p - 1, SizeIn(e, p - 1)>>
  BY DEF EndsAt
<1>2. y \in Nat /\ z \in Nat
  BY <1>1, LenProperties
<1> DEFINE sq == SizeIn(e, q)
           sp == SizeIn(e, p - 1)
<1>3. sq \in Nat /\ sq >= HeaderSize /\ sp \in Nat /\ sp >= HeaderSize
  BY SizeOfRecord
<1>4. f[y][2] = sq /\ f[y][1] = q /\ f[z][1] = p - 1 /\ f[z][2] = sp
  BY <1>1
<1> HIDE DEF sq, sp
<1>5. HeaderSize \in Nat /\ HeaderSize >= 1
  BY SizesOfBlocks
<1>6. CASE z < y
  <2>1. y < a + 1
    BY <1>2
  <2>2. f[y] = Zero
    BY <1>1, <1>6, <2>1 DEF Padding
  <2> QED
    BY <2>2, <1>3, <1>4, <1>5 DEF Zero
<1>7. CASE z = y
  BY <1>7, <1>4
<1>8. CASE y < z
  <2> DEFINE k == z - y
  <2>1. k \in Nat /\ k < sp /\ z - k = y
    BY <1>2, <1>3, <1>5, <1>8
  <2> HIDE DEF k
  <2>2. k < f[z][2]
    BY <1>4, <2>1
  <2>3. f[z - k] = <<f[z][1], f[z][2] - k>>
    BY <1>1, <2>1, <2>2, Backwards
  <2> QED
    BY <2>1, <2>3, <1>4
<1> QED
  BY <1>2, <1>6, <1>7, <1>8

\* A fragment that continues a record is behind the one before it.
LEMMA ContinuesAt ==
    ASSUME NEW f \in Seq(Pair), NEW e \in Seq(PhysicalRecord), FileOK(f, e),
           NEW a \in Nat, NEW p \in DOMAIN e,
           a + 1 \in DOMAIN f, f[a + 1] = <<p, 1>>, e[p].type \in {"middle", "last"}
    PROVE  /\ p - 1 \in DOMAIN e /\ e[p - 1].record = e[p].record
           /\ e[p - 1].type \in {"first", "middle"}
           /\ \E z \in DOMAIN f : z <= a /\ EndsAt(f, e, z, p - 1) /\ Padding(f, z, a + 1)
<1>1. /\ p - 1 \in DOMAIN e /\ e[p - 1].record = e[p].record
      /\ e[p - 1].type \in {"first", "middle"}
  BY DEF FileOK, InOrder
<1>2. p > 1
  BY <1>1, LenProperties
<1>3. PICK z \in DOMAIN f : z < a + 1 /\ EndsAt(f, e, z, p - 1) /\ Padding(f, z, a + 1)
  BY <1>2 DEF FileOK, Follows
<1>4. z <= a
  <2>1. z \in Nat
    BY LenProperties
  <2> QED
    BY <2>1, <1>3
<1> QED
  BY <1>1, <1>3, <1>4

\* The byte at a later place is of a later physical record, if it is a first one.
LEMMA FirstIsLater ==
    ASSUME NEW f \in Seq(Pair), NEW e, BytesOK(f, e),
           NEW x \in DOMAIN f, NEW y \in DOMAIN f, x < y, NEW p \in Nat, NEW q \in Nat,
           f[x] = <<q, 1>>, f[y] = <<p, 1>>
    PROVE  q < p
<1>1. f[x][1] = q /\ f[x][2] = 1 /\ f[y][1] = p /\ f[y][2] = 1
  OBVIOUS
<1>2. f[x] # Zero /\ f[y] # Zero
  BY <1>1 DEF Zero
<1>3. q < p \/ 1 - 1 = y - x
  BY <1>1, <1>2 DEF BytesOK
<1>4. x \in Nat /\ y \in Nat
  BY LenProperties
<1> QED
  BY <1>3, <1>4

\* The head of the buffer.
LEMMA HeadOfBuffer ==
    ASSUME Typed, BufferOK, NEW f, IsIntact(f)
    PROVE  LET size == SizeIn(emitted, f.p)
           IN  /\ At \in Nat /\ f.p \in DOMAIN emitted /\ f.p \in Nat
               /\ size \in Nat /\ size >= HeaderSize /\ size <= Len(reader.buffer)
               /\ Len(reader.buffer) \in Nat
               /\ At + size \in DOMAIN file /\ file[At + size] = <<f.p, size>>
               /\ At + 1 \in DOMAIN file /\ file[At + 1] = <<f.p, 1>>
               /\ At + size <= reader.pos
               /\ \A i \in 1..size : At + i \in DOMAIN file /\ file[At + i] = <<f.p, i>>
               /\ reader.pos - Len(f.rest) = At + size
<1> DEFINE p == f.p
           size == SizeIn(emitted, p)
           b == reader.buffer
           l == Len(b)
           pos == reader.pos
<1>1. /\ p \in DOMAIN emitted /\ \A i \in 1..size : b[i] = <<p, i>>
      /\ size \in Nat /\ size >= HeaderSize /\ size <= l
      /\ Len(f.rest) = l - size
  BY RestOfBuffer DEF IsIntact
<1>2. p \in Nat
  <2>1. emitted \in Seq(PhysicalRecord) /\ p \in DOMAIN emitted
    BY <1>1 DEF Typed
  <2> HIDE DEF p
  <2> QED
    BY <2>1, LenProperties
<1>3. /\ pos \in Nat /\ l \in Nat /\ At = pos - l /\ l <= pos
      /\ DOMAIN b = 1..l
      /\ \A i \in DOMAIN b : At + i \in DOMAIN file /\ b[i] = file[At + i]
  BY LenProperties DEF Typed, ReaderType, BufferOK, At
<1> HIDE DEF p, size, b, l, pos
<1>4. At \in Nat /\ At + size <= pos
  BY <1>1, <1>3
<1>5. ASSUME NEW i \in 1..size PROVE At + i \in DOMAIN file /\ file[At + i] = <<p, i>>
  <2>1. i \in DOMAIN b
    BY <1>1, <1>3
  <2>2. b[i] = <<p, i>>
    BY <1>1
  <2> QED
    BY <2>1, <2>2, <1>3
<1>6. 1 \in 1..size /\ size \in 1..size
  BY <1>1, SizesOfBlocks
<1>7. pos - (l - size) = At + size
  BY <1>1, <1>3
<1> QED
  BY <1>1, <1>2, <1>3, <1>4, <1>5, <1>6, <1>7 DEF p, size, b, l, pos

\* What ReadRecord has joined so far.
ScratchInv ==
    /\ Begun(file, emitted, reader.scratch)
    /\ reader.scratch # <<>> =>
          /\ emitted[Last(reader.scratch)].type \in {"first", "middle"}
          /\ \E y \in DOMAIN file : y <= At /\ file[y] = <<reader.scratch[1], 1>>
          /\ pc = "reading" =>
                \E y \in DOMAIN file :
                   /\ EndsAt(file, emitted, y, Last(reader.scratch)) /\ y <= At /\ At - y < HeaderSize
                   /\ y = At \/ Len(reader.buffer) >= HeaderSize \/ reader.eof

\* s is all of one record, whole in the file.
EndedIn(f, e, s) ==
    s # <<>> /\ Begun(f, e, s) /\ e[Last(s)].type \in {"full", "last"}

\* What ReadRecord has returned.
RecordsInv ==
    /\ \A n \in DOMAIN reader.records :
          /\ EndedIn(file, emitted, reader.records[n])
          /\ \E y \in DOMAIN file : y <= At /\ file[y] = <<reader.records[n][1], 1>>
          /\ reader.scratch # <<>> => reader.records[n][1] < reader.scratch[1]
    /\ \A m, n \in DOMAIN reader.records : m < n => reader.records[m][1] < reader.records[n][1]

\* Nothing has been joined.
LEMMA BegunNone ==
    ASSUME NEW f, NEW e
    PROVE  Begun(f, e, <<>>)
BY DEF Begun, Run

\* The first fragment of a record.
LEMMA BegunOne ==
    ASSUME NEW f, NEW e, NEW p \in Nat, p \in DOMAIN e, e[p].type \in {"full", "first"},
           NEW y \in DOMAIN f, f[y] = <<p, SizeIn(e, p)>>
    PROVE  Begun(f, e, <<p>>) /\ Last(<<p>>) = p /\ <<p>> # <<>> /\ <<p>>[1] = p
<1> DEFINE s == <<p>>
<1>1. DOMAIN s = {1} /\ s[1] = p /\ s # <<>> /\ Len(s) = 1
  OBVIOUS
<1> HIDE DEF s
<1>2. Last(s) = p
  BY <1>1 DEF Last
<1>3. Run(s)
  BY <1>1 DEF Run
<1>4. Begun(f, e, s)
  BY <1>1, <1>3 DEF Begun
<1> QED
  BY <1>1, <1>2, <1>4 DEF s

\* The next fragment of the record that was begun.
LEMMA BegunMore ==
    ASSUME NEW f, NEW e, NEW s \in Seq(Nat), s # <<>>, Begun(f, e, s), NEW p \in Nat,
           p \in DOMAIN e, Last(s) = p - 1, e[p].record = e[p - 1].record,
           NEW y \in DOMAIN f, f[y] = <<p, SizeIn(e, p)>>
    PROVE  /\ Begun(f, e, Append(s, p)) /\ Last(Append(s, p)) = p
           /\ Append(s, p) # <<>> /\ Append(s, p)[1] = s[1]
<1> DEFINE u == Append(s, p)
           n == Len(s)
<1>1. /\ n \in Nat /\ n >= 1 /\ DOMAIN s = 1..n /\ \A i \in 1..n : s[i] \in Nat
  BY EmptySeq, LenProperties, ElementOfSeq
<1>2. u \in Seq(Nat) /\ u # <<>> /\ Len(u) = n + 1 /\ (\A i \in 1..n : u[i] = s[i]) /\ u[n + 1] = p
  BY AppendProperties
<1>3. s[n] = p - 1
  BY DEF Last
<1> HIDE DEF u, n
<1>4. DOMAIN u = 1..(n + 1)
  BY <1>2, LenProperties
<1>5. 1 \in DOMAIN s /\ n \in DOMAIN s /\ u[1] = s[1] /\ s[1] \in Nat
  BY <1>1, <1>2
<1>6. \A i \in DOMAIN u : i = n + 1 \/ (i \in DOMAIN s /\ u[i] = s[i])
  BY <1>1, <1>2, <1>4
<1>7. p = s[1] + n
  <2>1. s[n] = s[1] + n - 1
    BY <1>5 DEF Begun, Run
  <2> QED
    BY <2>1, <1>1, <1>3, <1>5
<1>8. Run(u)
  <2>1. ASSUME NEW i \in DOMAIN u PROVE u[i] = u[1] + i - 1
    <3>1. CASE i = n + 1
      BY <3>1, <1>1, <1>2, <1>5, <1>7
    <3>2. CASE i \in DOMAIN s /\ u[i] = s[i]
      BY <3>2, <1>5 DEF Begun, Run
    <3> QED
      BY <3>1, <3>2, <1>6
  <2> QED
    BY <2>1 DEF Run
<1>9. Last(u) = p
  BY <1>2 DEF Last
<1>10. e[p].record = e[s[1]].record
  BY <1>3, <1>5 DEF Begun
<1>11. \A i \in DOMAIN u : u[i] \in DOMAIN e /\ e[u[i]].record = e[u[1]].record
  BY <1>2, <1>5, <1>6, <1>10 DEF Begun
<1>12. \A i \in DOMAIN u : \E z \in DOMAIN f : f[z] = <<u[i], SizeIn(e, u[i])>>
  BY <1>2, <1>6 DEF Begun
<1>13. e[u[1]].type \in {"full", "first"}
  BY <1>5 DEF Begun
<1>14. Begun(f, e, u)
  BY <1>8, <1>11, <1>12, <1>13 DEF Begun
<1> QED
  BY <1>2, <1>5, <1>9, <1>14 DEF u

-----------------------------------------------------------------------------
\* What a turn of the reader that returns nothing new needs.
SameRecords ==
    /\ UNCHANGED <<file, emitted>> /\ reader'.records = reader.records
    /\ At \in Nat /\ At' \in Nat /\ At <= At'

\* A step that returns no record keeps what is known of those returned.
LEMMA RecordsStay ==
    ASSUME Typed, RecordsInv, SameRecords,
           reader'.scratch # <<>> =>
              \/ reader.scratch # <<>> /\ reader'.scratch[1] = reader.scratch[1]
              \/ \A n \in DOMAIN reader.records : reader.records[n][1] < reader'.scratch[1]
    PROVE  RecordsInv'
<1>1. file' = file /\ emitted' = emitted /\ reader'.records = reader.records
  BY DEF SameRecords
<1>2. ASSUME NEW n \in DOMAIN reader.records
      PROVE  /\ EndedIn(file', emitted', reader'.records[n])
             /\ \E y \in DOMAIN file' : y <= At' /\ file'[y] = <<reader'.records[n][1], 1>>
             /\ reader'.scratch # <<>> => reader'.records[n][1] < reader'.scratch[1]
  <2>1. EndedIn(file, emitted, reader.records[n])
    BY DEF RecordsInv
  <2>2. PICK y \in DOMAIN file : y <= At /\ file[y] = <<reader.records[n][1], 1>>
    BY DEF RecordsInv
  <2>3. y <= At'
    <3>1. y \in Nat
      BY LenProperties DEF Typed
    <3> QED
      BY <2>2, <3>1 DEF SameRecords
  <2>4. reader'.scratch # <<>> => reader.records[n][1] < reader'.scratch[1]
    BY DEF RecordsInv
  <2> QED
    BY <1>1, <2>1, <2>2, <2>3, <2>4
<1> QED
  BY <1>1, <1>2 DEF RecordsInv

\* A record is returned.
LEMMA RecordsGrow ==
    ASSUME Typed, RecordsInv, UNCHANGED <<file, emitted>>, At \in Nat, At' \in Nat, At <= At',
           NEW s \in Seq(Nat), reader'.records = Append(reader.records, s), reader'.scratch = <<>>,
           EndedIn(file, emitted, s),
           NEW x \in DOMAIN file, x <= At', file[x] = <<s[1], 1>>,
           \A n \in DOMAIN reader.records : reader.records[n][1] < s[1]
    PROVE  RecordsInv'
<1> DEFINE rs == reader.records
           n == Len(rs)
           new == Append(rs, s)
<1>1. rs \in Seq(Seq(Nat)) /\ n \in Nat /\ DOMAIN rs = 1..n
  BY LenProperties DEF Typed, ReaderType
<1> HIDE DEF rs
<1>2. new \in Seq(Seq(Nat)) /\ Len(new) = n + 1 /\ (\A i \in 1..n : new[i] = rs[i]) /\ new[n + 1] = s
  BY <1>1, AppendProperties
<1> HIDE DEF n, new
<1>3. DOMAIN new = 1..(n + 1)
  BY <1>2, LenProperties
<1>4. \A i \in DOMAIN new : (i = n + 1 /\ new[i] = s) \/ (i \in DOMAIN rs /\ new[i] = rs[i])
  BY <1>1, <1>2, <1>3
<1>5. file' = file /\ emitted' = emitted /\ reader'.records = new /\ reader'.scratch = <<>>
  BY DEF new, rs
<1>6. \A y \in DOMAIN file : y <= At => y <= At'
  <2>1. \A y \in DOMAIN file : y \in Nat
    BY LenProperties DEF Typed
  <2> QED
    BY <2>1
<1>7. ASSUME NEW i \in DOMAIN new
      PROVE  /\ EndedIn(file, emitted, new[i])
             /\ \E y \in DOMAIN file : y <= At' /\ file[y] = <<new[i][1], 1>>
  <2>1. CASE new[i] = s
    BY <2>1
  <2>2. CASE i \in DOMAIN rs /\ new[i] = rs[i]
    BY <2>2, <1>6 DEF RecordsInv, rs
  <2> QED
    BY <1>4, <2>1, <2>2
<1>8. ASSUME NEW i \in DOMAIN new, NEW j \in DOMAIN new, i < j
      PROVE  new[i][1] < new[j][1]
  <2>1. i \in DOMAIN rs /\ new[i] = rs[i]
    BY <1>1, <1>3, <1>4, <1>8
  <2>2. CASE new[j] = s
    BY <2>1, <2>2 DEF rs
  <2>3. CASE j \in DOMAIN rs /\ new[j] = rs[j]
    BY <2>1, <2>3, <1>8 DEF RecordsInv, rs
  <2> QED
    BY <1>4, <2>2, <2>3
<1> QED
  BY <1>5, <1>7, <1>8 DEF RecordsInv

\* What ReadRecord does with a whole physical record keeps scratch a run, and
\* what it returns a whole record.
LEMMA ScratchOfIntact ==
    ASSUME Typed, BufferInv, FileOK(file, emitted), ScratchInv, RecordsInv, pc = "reading",
           UNCHANGED <<pc, file, emitted>>, NEW f, IsIntact(f), reader' = Take(f)
    PROVE  ScratchInv' /\ RecordsInv'
<1> DEFINE p == f.p
           size == SizeIn(emitted, p)
           t == emitted[p].type
           s == reader.scratch
           a == At
           z == At + size
           pos == reader.pos
<1>1. /\ file \in Seq(Pair) /\ emitted \in Seq(PhysicalRecord) /\ s \in Seq(Nat)
      /\ BytesOK(file, emitted) /\ InOrder(emitted) /\ BufferOK
      /\ reader.inFragmented <=> s # <<>>
  BY DEF Typed, ReaderType, FileOK, BufferInv
<1>2. /\ a \in Nat /\ p \in DOMAIN emitted /\ p \in Nat /\ size \in Nat /\ size >= HeaderSize
      /\ z \in DOMAIN file /\ file[z] = <<p, size>>
      /\ a + 1 \in DOMAIN file /\ file[a + 1] = <<p, 1>>
      /\ reader.pos - Len(f.rest) = z
  BY <1>1, HeadOfBuffer
<1>3. At' = z
  BY <1>1, <1>2, TakesIntact DEF At
<1>4. z \in Nat /\ a <= z /\ a + 1 <= z /\ z = a + size
  <2> HIDE DEF size, a
  <2> QED
    BY <1>2, SizesOfBlocks DEF a
<1>5. t \in Types /\ size = SizeIn(emitted, p)
  BY <1>2, SizeOfRecord, <1>1
<1>6. \A n \in DOMAIN reader.records : reader.records[n][1] < p
  <2>1. ASSUME NEW n \in DOMAIN reader.records
        PROVE  reader.records[n][1] < p
    <3>1. PICK y \in DOMAIN file : y <= At /\ file[y] = <<reader.records[n][1], 1>>
      BY DEF RecordsInv
    <3> DEFINE q == reader.records[n][1]
               x == a + 1
    <3>2. q \in Nat
      <4>1. file[y][1] \in Nat
        BY <1>1, BytePair
      <4> QED
        BY <3>1, <4>1
    <3>3. y \in Nat /\ y < x
      BY <1>1, <1>2, <3>1, LenProperties
    <3>4. file[y] = <<q, 1>> /\ x \in DOMAIN file /\ file[x] = <<p, 1>>
      BY <1>2, <3>1
    <3> HIDE DEF q, x, p
    <3> QED
      BY <1>1, <1>2, <3>2, <3>3, <3>4, FirstIsLater DEF q
  <2> QED
    BY <2>1
<1>7. t \in {"middle", "last"} /\ s # <<>> =>
        /\ Last(s) = p - 1 /\ Last(s) \in DOMAIN emitted
        /\ emitted[p].record = emitted[p - 1].record
  <2>1. SUFFICES ASSUME t \in {"middle", "last"}, s # <<>>
                 PROVE  /\ Last(s) = p - 1 /\ Last(s) \in DOMAIN emitted
                        /\ emitted[p].record = emitted[p - 1].record
    OBVIOUS
  <2> DEFINE q == Last(s)
  <2>2. PICK y \in DOMAIN file : EndsAt(file, emitted, y, q) /\ y <= a /\ a - y < HeaderSize
    BY <2>1 DEF ScratchInv
  <2>3. q \in DOMAIN emitted
    <3>1. Len(s) \in DOMAIN s
      BY <1>1, <2>1, EmptySeq, LenProperties
    <3> QED
      BY <3>1 DEF ScratchInv, Begun, Last
  <2> HIDE DEF q, p, a
  <2>4. q = p - 1
    <3>1. /\ p - 1 \in DOMAIN emitted
          /\ \E x \in DOMAIN file : /\ x <= a /\ EndsAt(file, emitted, x, p - 1)
                                    /\ Padding(file, x, a + 1)
      BY <1>1, <1>2, <2>1, ContinuesAt
    <3> QED
      BY <1>1, <1>2, <2>2, <2>3, <3>1, NextIsNext
  <2>5. emitted[p].record = emitted[p - 1].record
    BY <1>1, <1>2, <2>1 DEF InOrder
  <2> QED
    BY <2>3, <2>4, <2>5 DEF q
<1>8. /\ t = "full" =>
           reader'.scratch = <<>> /\ reader'.records = Append(reader.records, <<p>>)
      /\ t = "first" =>
           reader'.scratch = <<p>> /\ reader'.records = reader.records
      /\ t = "middle" /\ s # <<>> =>
           reader'.scratch = Append(s, p) /\ reader'.records = reader.records
      /\ t = "last" /\ s # <<>> =>
           reader'.scratch = <<>> /\ reader'.records = Append(reader.records, Append(s, p))
      /\ t \in {"middle", "last"} /\ s = <<>> =>
           reader'.scratch = s /\ reader'.records = reader.records
  BY <1>1, TakesIntact DEF Reads
<1>9. SameRecords <=> reader'.records = reader.records
  BY <1>2, <1>3, <1>4 DEF SameRecords
<1>e. file' = file /\ emitted' = emitted /\ pc' = pc
  OBVIOUS
<1>10. ASSUME reader'.scratch = <<>> PROVE ScratchInv'
  BY <1>10, BegunNone DEF ScratchInv
<1>11. ASSUME reader'.scratch # <<>>, Begun(file, emitted, reader'.scratch),
              Last(reader'.scratch) = p, t \in {"first", "middle"},
              NEW x \in DOMAIN file, x <= z, file[x] = <<reader'.scratch[1], 1>>
       PROVE  ScratchInv'
  <2>1. EndsAt(file, emitted, z, Last(reader'.scratch))
    BY <1>2, <1>11 DEF EndsAt
  <2>2. z <= At' /\ At' - z < HeaderSize /\ z = At'
    <3> HIDE DEF z
    <3> QED
      BY <1>3, <1>4, SizesOfBlocks DEF z
  <2> HIDE DEF z
  <2>4. Begun(file, emitted, reader.scratch)'
    BY <1>e, <1>11
  <2>5. \E y \in DOMAIN file' : /\ EndsAt(file', emitted', y, Last(reader'.scratch)) /\ y <= At' /\ At' - y < HeaderSize
                                /\ y = At' \/ Len(reader'.buffer) >= HeaderSize \/ reader'.eof
    BY <1>2, <1>e, <2>1, <2>2
  <2>6. emitted'[Last(reader'.scratch)].type \in {"first", "middle"}
    BY <1>e, <1>11
  <2>7. \E y \in DOMAIN file' : y <= At' /\ file'[y] = <<reader'.scratch[1], 1>>
    BY <1>e, <1>3, <1>11
  <2> QED
    BY <2>4, <2>5, <2>6, <2>7 DEF ScratchInv
<1> HIDE DEF p, z, a, t, size
<1>12. CASE t = "full"
  <2> DEFINE u == <<p>>
  <2>1. /\ Begun(file, emitted, u) /\ Last(u) = p /\ u # <<>> /\ u[1] = p
    BY <1>2, <1>5, <1>12, BegunOne DEF t
  <2>2. u \in Seq(Nat)
    BY <1>2
  <2> HIDE DEF u
  <2>3. EndedIn(file, emitted, u)
    BY <1>12, <2>1 DEF EndedIn, t
  <2>4. reader'.scratch = <<>> /\ reader'.records = Append(reader.records, u)
    BY <1>8, <1>12 DEF u
  <2>5. a + 1 \in DOMAIN file /\ a + 1 <= At' /\ file[a + 1] = <<u[1], 1>>
    BY <1>2, <1>3, <1>4, <2>1
  <2>6. At \in Nat /\ At' \in Nat /\ At <= At'
    BY <1>2, <1>3, <1>4 DEF a
  <2>7. \A n \in DOMAIN reader.records : reader.records[n][1] < u[1]
    BY <1>6, <2>1
  <2>8. RecordsInv'
    BY <1>e, <2>2, <2>3, <2>4, <2>5, <2>6, <2>7, RecordsGrow
  <2> QED
    BY <1>10, <2>4, <2>8
<1>13. CASE t = "first"
  <2> DEFINE u == <<p>>
  <2>1. /\ Begun(file, emitted, u) /\ Last(u) = p /\ u # <<>> /\ u[1] = p
    BY <1>2, <1>5, <1>13, BegunOne DEF t
  <2>2. reader'.scratch = u /\ reader'.records = reader.records
    BY <1>8, <1>13
  <2> HIDE DEF u
  <2>3. a + 1 \in DOMAIN file /\ a + 1 <= z /\ file[a + 1] = <<u[1], 1>>
    BY <1>2, <1>4, <2>1
  <2>4. ScratchInv'
    BY <1>11, <1>13, <2>1, <2>2, <2>3
  <2>5. \A n \in DOMAIN reader.records : reader.records[n][1] < reader'.scratch[1]
    BY <1>6, <2>1, <2>2
  <2>6. RecordsInv'
    BY <1>9, <2>2, <2>5, RecordsStay
  <2> QED
    BY <2>4, <2>6
<1>14. CASE t \in {"middle", "last"} /\ s # <<>>
  <2> DEFINE u == Append(s, p)
  <2>1. Begun(file, emitted, s)
    BY DEF ScratchInv
  <2> HIDE DEF s
  <2>2. /\ Begun(file, emitted, u) /\ Last(u) = p /\ u # <<>> /\ u[1] = s[1]
    BY <1>1, <1>2, <1>5, <1>7, <1>14, <2>1, BegunMore
  <2>3. u \in Seq(Nat)
    BY <1>1, <1>2, AppendProperties
  <2> HIDE DEF u
  <2>4. PICK x \in DOMAIN file : x <= a /\ file[x] = <<s[1], 1>>
    BY <1>14 DEF ScratchInv, a, s
  <2>5. x <= z
    <3>1. x \in Nat
      BY <1>1, LenProperties
    <3> QED
      BY <1>2, <1>4, <2>4, <3>1
  <2>6. CASE t = "middle"
    <3>1. reader'.scratch = u /\ reader'.records = reader.records
      BY <1>8, <1>14, <2>6 DEF u
    <3>2. ScratchInv'
      BY <1>11, <2>2, <2>4, <2>5, <2>6, <3>1
    <3>3. reader.scratch # <<>> /\ reader'.scratch[1] = reader.scratch[1]
      BY <1>14, <2>2, <3>1 DEF s
    <3>4. RecordsInv'
      BY <1>9, <3>1, <3>3, RecordsStay
    <3> QED
      BY <3>2, <3>4
  <2>7. CASE t = "last"
    <3>1. reader'.scratch = <<>> /\ reader'.records = Append(reader.records, u)
      BY <1>8, <1>14, <2>7 DEF u
    <3>2. EndedIn(file, emitted, u)
      BY <2>2, <2>7 DEF EndedIn, t
    <3>3. file[x] = <<u[1], 1>> /\ x <= At'
      BY <1>3, <2>2, <2>4, <2>5
    <3>4. At \in Nat /\ At' \in Nat /\ At <= At'
      BY <1>2, <1>3, <1>4 DEF a
    <3>5. \A n \in DOMAIN reader.records : reader.records[n][1] < u[1]
      BY <1>14, <2>2 DEF RecordsInv, s
    <3>6. RecordsInv'
      BY <1>e, <2>3, <3>1, <3>2, <3>3, <3>4, <3>5, RecordsGrow
    <3> QED
      BY <1>10, <3>1, <3>6
  <2> QED
    BY <1>14, <2>6, <2>7
<1>15. CASE t \in {"middle", "last"} /\ s = <<>>
  <2>1. reader'.scratch = <<>> /\ reader'.records = reader.records
    BY <1>8, <1>15
  <2>2. RecordsInv'
    BY <1>9, <2>1, RecordsStay
  <2> QED
    BY <1>10, <2>1, <2>2
<1> QED
  BY <1>5, <1>12, <1>13, <1>14, <1>15 DEF Types

\* Every step keeps what is known of scratch and of what was returned.
LEMMA ScratchNext ==
    ASSUME Typed, WriterOK, BufferInv, FileOK(file, emitted), ScratchInv, RecordsInv,
           Typed', WriterOK', BufferInv', [Next]_vars
    PROVE  ScratchInv' /\ RecordsInv'
<1>b. BufferOK /\ BytesOK(file, emitted) /\ (reader.inFragmented <=> reader.scratch # <<>>)
  BY DEF BufferInv, FileOK
<1>a. /\ At \in Nat /\ At' \in Nat /\ reader.pos \in Nat /\ Len(reader.buffer) \in Nat
      /\ Len(reader.buffer) <= reader.pos /\ At = reader.pos - Len(reader.buffer)
  <2>1. /\ reader.pos \in Nat /\ Len(reader.buffer) \in Nat /\ Len(reader.buffer) <= reader.pos
    BY <1>b, LenProperties DEF Typed, ReaderType, BufferOK
  <2>2. /\ reader'.pos \in Nat /\ Len(reader'.buffer) \in Nat /\ Len(reader'.buffer) <= reader'.pos
    <3>1. reader'.buffer \in Seq(Pair) /\ reader'.pos \in Nat /\ Len(reader'.buffer) <= reader'.pos
      BY DEF Typed, ReaderType, BufferInv, BufferOK
    <3> QED
      BY <3>1, LenProperties
  <2>3. At = reader.pos - Len(reader.buffer) /\ At' = reader'.pos - Len(reader'.buffer)
    BY DEF At
  <2> QED
    BY <2>1, <2>2, <2>3
<1>1. ASSUME reader' = NewReader PROVE ScratchInv' /\ RecordsInv'
  <2>1. reader'.scratch = <<>> /\ reader'.records = <<>>
    BY <1>1, NewReaderIs
  <2> QED
    BY <2>1, BegunNone DEF ScratchInv, RecordsInv
\* the scratch is kept, but nothing is expected of what follows
<1>2. ASSUME UNCHANGED <<file, emitted>>, pc' = "done", reader'.scratch = reader.scratch,
             reader'.records = reader.records, At <= At'
      PROVE  ScratchInv' /\ RecordsInv'
  <2>1. RecordsInv'
    BY <1>2, <1>a, RecordsStay DEF SameRecords
  <2>2. ASSUME reader.scratch # <<>>
        PROVE  \E y \in DOMAIN file' : y <= At' /\ file'[y] = <<reader'.scratch[1], 1>>
    <3>1. PICK y \in DOMAIN file : y <= At /\ file[y] = <<reader.scratch[1], 1>>
      BY <2>2 DEF ScratchInv
    <3>2. y <= At'
      <4>1. y \in Nat
        BY LenProperties DEF Typed
      <4> QED
        BY <4>1, <3>1, <1>a, <1>2
    <3> QED
      BY <1>2, <3>1, <3>2
  <2>3. ScratchInv'
    BY <1>2, <2>2 DEF ScratchInv
  <2> QED
    BY <2>1, <2>3
<1>3. CASE FillBuffer
  <2>1. /\ file' = file /\ emitted' = emitted /\ pc' = pc /\ pc = "reading"
        /\ Len(reader.buffer) < HeaderSize /\ ~reader.eof
    BY <1>3 DEF FillBuffer
  <2>2. /\ Len(reader'.buffer) \in Nat /\ reader'.pos = reader.pos + Len(reader'.buffer)
        /\ reader'.eof = (Len(reader'.buffer) < BlockSize)
        /\ reader'.scratch = reader.scratch /\ reader'.records = reader.records
    BY <1>3, <1>b, FilledBuffer
  <2>3. At' = reader.pos /\ At <= At' /\ At' - At = Len(reader.buffer)
    <3> DEFINE k == Len(reader'.buffer)
               l == Len(reader.buffer)
               pos == reader.pos
    <3>1. At' = reader'.pos - k
      BY DEF At
    <3>2. k \in Nat /\ l \in Nat /\ pos \in Nat /\ reader'.pos = pos + k /\ At = pos - l
      BY <1>a, <2>2
    <3> HIDE DEF k, l, pos
    <3>3. At' = pos /\ At <= At' /\ At' - At = l
      BY <3>1, <3>2
    <3> QED
      BY <3>3 DEF l, pos
  <2>4. Len(reader'.buffer) >= HeaderSize \/ reader'.eof
    <3> DEFINE k == Len(reader'.buffer)
               short == k < BlockSize
    <3>1. k \in Nat /\ reader'.eof = short
      BY <2>2
    <3> HIDE DEF k
    <3>2. k >= HeaderSize \/ short
      BY <3>1, SizesOfBlocks
    <3> HIDE DEF short
    <3> QED
      BY <3>1, <3>2 DEF k
  <2>5. RecordsInv'
    BY <1>a, <2>1, <2>2, <2>3, RecordsStay DEF SameRecords
  <2>6. ASSUME reader.scratch # <<>>
        PROVE  /\ \E y \in DOMAIN file' : y <= At' /\ file'[y] = <<reader'.scratch[1], 1>>
               /\ \E y \in DOMAIN file' :
                    /\ EndsAt(file', emitted', y, Last(reader'.scratch)) /\ y <= At' /\ At' - y < HeaderSize
                    /\ y = At' \/ Len(reader'.buffer) >= HeaderSize \/ reader'.eof
    <3>1. PICK x \in DOMAIN file : x <= At /\ file[x] = <<reader.scratch[1], 1>>
      BY <2>6 DEF ScratchInv
    <3>2. PICK y \in DOMAIN file :
             /\ EndsAt(file, emitted, y, Last(reader.scratch)) /\ y <= At /\ At - y < HeaderSize
             /\ y = At \/ Len(reader.buffer) >= HeaderSize \/ reader.eof
      BY <2>1, <2>6 DEF ScratchInv
    <3>3. x \in Nat /\ y \in Nat
      <4>1. file \in Seq(Pair)
        BY DEF Typed
      <4> QED
        BY <4>1, <3>1, <3>2, LenProperties
    <3>4. y = At
      BY <1>a, <2>1, <3>2, SizesOfBlocks
    <3>5. x <= At' /\ y <= At' /\ At' - y < HeaderSize
      BY <1>a, <2>1, <2>3, <3>1, <3>3, <3>4
    <3> QED
      BY <2>1, <2>2, <2>4, <3>1, <3>2, <3>5
  <2>7. ScratchInv'
    BY <2>1, <2>2, <2>6 DEF ScratchInv
  <2> QED
    BY <2>5, <2>7
<1>4. CASE ReadFails
  <2>1. /\ pc' = "done" /\ file' = file /\ emitted' = emitted
        /\ reader' = [reader EXCEPT !.buffer = <<>>, !.eof = TRUE, !.reports = @ + 1]
    BY <1>4 DEF ReadFails
  <2>2. /\ reader'.pos = reader.pos /\ reader'.buffer = <<>> /\ reader'.scratch = reader.scratch
        /\ reader'.records = reader.records
    BY <2>1 DEF Typed, ReaderType
  <2>3. At <= At'
    BY <1>a, <2>2 DEF At
  <2> QED
    BY <1>2, <2>1, <2>2, <2>3
<1>5. CASE ReadPhysicalRecord
  <2>1. pc = "reading" /\ UNCHANGED <<file, writer, added, emitted, failed, crash>>
    BY <1>5, <1>b, ReadSteps
  <2>2. CASE pc' = pc /\ \E f \in Physical : IsIntact(f) /\ reader' = Take(f)
    BY <2>1, <2>2, ScratchOfIntact
  <2>3. CASE pc' = pc /\ \E report \in BOOLEAN : reader' = Take(BadRecord(report))
    <3>1. Reads(reader', <<>>, <<>>, FALSE, reader.records)
      BY <1>b, <2>3, TakesBad
    <3>2. /\ reader'.scratch = <<>> /\ reader'.records = reader.records
          /\ reader'.buffer = <<>> /\ reader'.pos = reader.pos
      BY <3>1 DEF Reads
    <3>3. At <= At'
      BY <1>a, <3>2 DEF At
    <3>4. RecordsInv'
      BY <1>a, <2>1, <3>2, <3>3, RecordsStay DEF SameRecords
    <3> QED
      BY <3>2, <3>4, BegunNone DEF ScratchInv
  <2>4. CASE pc' = "done" /\ reader' = Take(Eof)
    <3>1. Reads(reader', <<>>, reader.scratch, reader.inFragmented, reader.records)
      BY <2>4, TakesEof
    <3>2. /\ reader'.scratch = reader.scratch /\ reader'.records = reader.records
          /\ reader'.buffer = <<>> /\ reader'.pos = reader.pos
      BY <3>1 DEF Reads
    <3>3. At <= At'
      BY <1>a, <3>2 DEF At
    <3> QED
      BY <1>2, <2>1, <2>4, <3>2, <3>3
  <2> QED
    BY <1>5, <1>b, <2>2, <2>3, <2>4, ReadSteps
<1>6. CASE UNCHANGED vars
  BY <1>6 DEF vars, ScratchInv, RecordsInv, At
<1>7. CASE Crash \/ Reuse
  BY <1>1, <1>7 DEF Crash, Reuse
<1>8. CASE (\E length \in Lengths : AddRecord(length)) \/ EmitPhysicalRecord \/ EmitFails
  <2>1. reader' = reader /\ pc \in {"idle", "adding"}
    BY <1>8 DEF AddRecord, EmitPhysicalRecord, EmitFails
  <2> QED
    BY <1>1, <2>1 DEF WriterOK
<1> QED
  BY <1>3, <1>4, <1>5, <1>6, <1>7, <1>8 DEF Next

-----------------------------------------------------------------------------
\* The inductive invariant, whatever fails or crashes.
LogInv ==
    /\ Typed /\ FileOK(file, emitted) /\ WriterOK
    /\ BufferInv /\ ScratchInv /\ RecordsInv

\* It holds before the first call of AddRecord.
LEMMA LogInit ==
    ASSUME Init PROVE LogInv
<1>1. /\ file = <<>> /\ emitted = <<>> /\ added = <<>> /\ pc = "idle" /\ reader = NewReader
      /\ <<>> \in Seq(Pair) /\ <<>> \in Seq(PhysicalRecord)
      /\ <<>> \in Seq({"adding", "ok", "failed"}) /\ Len(<<>>) = 0
  BY EmptySeq DEF Init
<1>2. Typed
  <2>1. writer \in [offset : 0..BlockSize, left : Nat, begin : BOOLEAN]
    BY SizesOfBlocks DEF Init
  <2>2. /\ failed \in [appends : Nat, reads : Nat]
        /\ crash \in [count : Nat, machine : BOOLEAN, torn : BOOLEAN]
    BY DEF Init
  <2> QED
    BY <1>1, <2>1, <2>2, NewReaderIs DEF Typed
<1>3. FileOK(file, emitted)
  BY <1>1 DEF FileOK, InOrder, BytesOK, Follows
<1>4. WriterOK
  BY <1>1 DEF WriterOK
<1>5. BufferInv
  <2>1. DOMAIN reader.buffer = {} /\ Len(file) = 0
    BY <1>1, NewReaderIs
  <2> QED
    BY <1>1, <2>1, NewReaderIs, SizesOfBlocks DEF BufferInv, BufferOK
<1>6. ScratchInv /\ RecordsInv
  BY <1>1, NewReaderIs, BegunNone DEF ScratchInv, RecordsInv
<1> QED
  BY <1>2, <1>3, <1>4, <1>5, <1>6 DEF LogInv

\* Every step keeps it.
LEMMA LogNext ==
    ASSUME LogInv, [Next]_vars PROVE LogInv'
<1>1. Typed'
  BY TypedNext DEF LogInv
<1>2. WriterOK'
  BY <1>1, WriterNext DEF LogInv
<1>3. FileOK(file, emitted)'
  BY FileNext DEF LogInv
<1>4. BufferInv'
  BY <1>1, <1>2, BufferNext DEF LogInv
<1>5. ScratchInv' /\ RecordsInv'
  BY <1>1, <1>2, <1>4, ScratchNext DEF LogInv
<1> QED
  BY <1>1, <1>2, <1>3, <1>4, <1>5 DEF LogInv

\* LogInv holds in every state of log_writer.cc and log_reader.cc: failed
\* appends, failed reads, crashes and a log that is gone on with included.
THEOREM LogInvariant == Spec => []LogInv
<1>1. Init => LogInv
  BY LogInit
<1>2. LogInv /\ [Next]_vars => LogInv'
  BY LogNext
<1> QED
  BY <1>1, <1>2, PTL DEF Spec

\* What was joined from the first to the last fragment is a whole record.
LEMMA EndedIsWhole ==
    ASSUME LogInv, NEW s \in Seq(Nat), EndedIn(file, emitted, s)
    PROVE  \E r \in DOMAIN added : Whole(r) /\ Joins(s, r)
<1> DEFINE n == Len(s)
           a == s[1]
           z == s[n]
           r == emitted[a].record
<1>1. /\ n \in Nat /\ n >= 1 /\ DOMAIN s = 1..n /\ 1 \in DOMAIN s /\ n \in DOMAIN s
  BY EmptySeq, LenProperties DEF EndedIn
<1>2. /\ \A i \in DOMAIN s : s[i] = a + i - 1
      /\ \A i \in DOMAIN s : s[i] \in DOMAIN emitted /\ emitted[s[i]].record = r
      /\ \A i \in DOMAIN s : \E y \in DOMAIN file : file[y] = <<s[i], SizeIn(emitted, s[i])>>
      /\ emitted[a].type \in {"full", "first"} /\ emitted[z].type \in {"full", "last"}
  BY DEF EndedIn, Begun, Run, Last
<1>3. a \in DOMAIN emitted /\ z \in DOMAIN emitted /\ emitted[z].record = r
  BY <1>1, <1>2
<1>4. /\ InOrder(emitted) /\ BytesOK(file, emitted) /\ file \in Seq(Pair)
      /\ emitted \in Seq(PhysicalRecord) /\ DOMAIN emitted = 1..Len(emitted) /\ Len(emitted) \in Nat
      /\ DOMAIN added = 1..Len(added) /\ Len(added) \in Nat
  BY LenProperties DEF LogInv, FileOK, Typed
<1>5. r \in DOMAIN added
  <2>1. r >= 1 /\ r <= Len(added)
    BY <1>3 DEF LogInv, WriterOK
  <2>2. r \in Nat
    BY <1>3, <1>4, SizeOfRecord
  <2> QED
    BY <1>4, <2>1, <2>2
<1>6. z = a + n - 1 /\ a \in Nat /\ z \in Nat
  <2>1. a \in Nat /\ z \in Nat
    BY <1>3, <1>4
  <2>2. s[n] = a + n - 1
    BY <1>1, <1>2
  <2> QED
    BY <2>1, <2>2
<1> HIDE DEF n, a, z
<1>7. ASSUME NEW p \in DOMAIN emitted, emitted[p].record = r
      PROVE  \E i \in DOMAIN s : p = s[i]
  <2>0. p \in Nat
    BY <1>4
  <2>1. a <= p
    <3>1. SUFFICES ASSUME p < a PROVE FALSE
      BY <2>0, <1>6
    <3>2. emitted[p].record < emitted[a].record
      BY <1>2, <1>3, <1>4, <3>1 DEF InOrder
    <3>3. emitted[p].record \in Nat
      BY <1>4, SizeOfRecord
    <3> QED
      BY <1>7, <3>2, <3>3
  <2>2. p <= z
    <3>1. SUFFICES ASSUME z < p PROVE FALSE
      BY <2>0, <1>6
    <3> DEFINE q == z + 1
    <3>2. q \in DOMAIN emitted /\ q <= p /\ q \in Nat /\ z < q /\ q - 1 = z
      BY <2>0, <3>1, <1>3, <1>4, <1>6
    <3> HIDE DEF q
    <3>3. emitted[q].type \in Types /\ emitted[q].record \in Nat
      BY <1>4, <3>2, SizeOfRecord
    <3>4. CASE emitted[q].type \in {"middle", "last"}
      <4>1. emitted[z].type \in {"first", "middle"}
        BY <1>4, <3>2, <3>4 DEF InOrder
      <4> QED
        BY <4>1, <1>2
    <3>5. CASE emitted[q].type \in {"full", "first"}
      <4>1. r < emitted[q].record
        BY <1>3, <1>4, <3>2, <3>5 DEF InOrder
      <4>2. emitted[q].record <= emitted[p].record
        <5>1. CASE q = p
          BY <3>3, <5>1
        <5>2. CASE q < p
          BY <1>4, <3>2, <5>2 DEF InOrder
        <5> QED
          BY <2>0, <3>2, <5>1, <5>2
      <4>3. r \in Nat
        BY <1>7, <1>4, SizeOfRecord
      <4> HIDE DEF r
      <4> QED
        BY <4>1, <4>2, <4>3, <3>3, <1>7
    <3> QED
      BY <3>3, <3>4, <3>5 DEF Types
  <2> DEFINE i == p - a + 1
  <2>3. i \in DOMAIN s /\ a + i - 1 = p
    BY <2>0, <2>1, <2>2, <1>1, <1>6
  <2> QED
    BY <2>3, <1>2
<1>8. ToSet(s) = Parts(r)
  <2>1. \A x \in ToSet(s) : x \in Parts(r)
    BY <1>2 DEF ToSet, Parts
  <2>2. \A p \in Parts(r) : p \in ToSet(s)
    BY <1>7 DEF ToSet, Parts
  <2> QED
    BY <2>1, <2>2
<1>9. Joins(s, r)
  <2>1. ASSUME NEW i \in DOMAIN s, NEW j \in DOMAIN s, i < j PROVE s[i] < s[j]
    <3>1. i \in Nat /\ j \in Nat
      BY <1>1
    <3>2. s[i] = a + i - 1 /\ s[j] = a + j - 1
      BY <1>2
    <3> QED
      BY <2>1, <3>1, <3>2, <1>6
  <2> QED
    BY <1>8, <2>1 DEF Joins
<1>10. Whole(r)
  <2>1. ASSUME NEW p \in Parts(r), NEW i \in 1..(HeaderSize + emitted[p].length)
        PROVE  Contains(file, <<p, i>>)
    <3> DEFINE size == SizeIn(emitted, p)
    <3>1. p \in DOMAIN emitted /\ emitted[p].record = r
      BY DEF Parts
    <3>2. PICK y \in DOMAIN file : file[y] = <<p, size>>
      BY <1>2, <1>7, <3>1
    <3>3. size \in Nat /\ i \in 1..size
      BY <1>4, <3>1, SizeOfRecord DEF SizeIn
    <3> DEFINE k == size - i
    <3> HIDE DEF size
    <3>4. k \in Nat /\ k < size /\ size - k = i
      BY <3>3
    <3> HIDE DEF k
    <3>5. file[y][1] = p /\ file[y][2] = size
      BY <3>2
    <3>6. y - k \in DOMAIN file /\ file[y - k] = <<p, i>>
      BY <1>4, <3>2, <3>4, <3>5, Backwards
    <3>7. y - k \in 1..Len(file)
      BY <1>4, <3>6, LenProperties
    <3> QED
      BY <3>6, <3>7 DEF Contains
  <2>2. z \in Parts(r)
    BY <1>3 DEF Parts
  <2> QED
    BY <1>2, <2>1, <2>2 DEF Whole
<1> QED
  BY <1>5, <1>9, <1>10

\* What the invariant says of the records returned.
LEMMA LogGivesWholeRecords ==
    ASSUME LogInv PROVE RecordsAreWhole
<1>1. reader.records \in Seq(Seq(Nat))
  BY DEF LogInv, Typed, ReaderType
<1>2. ASSUME NEW n \in DOMAIN reader.records
      PROVE  \E r \in DOMAIN added : Whole(r) /\ Joins(reader.records[n], r)
  <2> DEFINE s == reader.records[n]
  <2>1. s \in Seq(Nat)
    BY <1>1, ElementOfSeq, LenProperties
  <2>2. EndedIn(file, emitted, s)
    BY DEF LogInv, RecordsInv
  <2> HIDE DEF s
  <2> QED
    BY <2>1, <2>2, EndedIsWhole DEF s
<1> QED
  BY <1>2 DEF RecordsAreWhole, LogInv, RecordsInv

\* What the invariant says of the types and of the sizes in a block.
LEMMA LogGivesTypeOK ==
    ASSUME LogInv PROVE TypeOK
<1>1. \A n \in DOMAIN file : file[n] = Zero \/ file[n][1] \in DOMAIN emitted
  BY DEF LogInv, FileOK, BytesOK
<1>2. \A p \in DOMAIN emitted : emitted[p].length \in 0..(BlockSize - HeaderSize)
  <2>1. \A p \in DOMAIN emitted : emitted[p] \in PhysicalRecord
    BY SizeOfRecord DEF LogInv, Typed
  <2> QED
    BY <2>1 DEF PhysicalRecord
<1>3. writer.offset \in 0..BlockSize /\ writer.left \in Nat
  BY DEF LogInv, Typed
<1> QED
  BY <1>1, <1>2, <1>3 DEF TypeOK, LogInv, Typed, BufferInv, BufferOK

\* Every byte of the file is of a physical record that the writer emitted or
\* padding, and no physical record is longer than a block has room for
\* (log_writer.cc:48 and EmitPhysicalRecord).
THEOREM LogTypeCorrect == Spec => []TypeOK
  BY LogInvariant, LogGivesTypeOK, PTL

\* ReadRecord (log_reader.cc:56) returns only whole records that AddRecord was
\* given, in their order and each once, whatever failed or crashed before.
THEOREM RecordsReadAreWhole == Spec => []RecordsAreWhole
  BY LogInvariant, LogGivesWholeRecords, PTL

\* Places in a block.
LEMMA Remainder ==
    ASSUME NEW B \in Nat, B > 0, NEW x \in Nat
    PROVE  (x % B) \in Nat /\ x % B < B /\ \E q \in Int : x = B * q + (x % B)
<1>1. (x % B) \in 0..(B - 1)
  OBVIOUS
<1>2. x = B * (x \div B) + (x % B) /\ x \div B \in Int
  OBVIOUS
<1> QED
  BY <1>1, <1>2

\* A remainder is determined by a multiple below.
LEMMA RemainderIs ==
    ASSUME NEW B \in Nat, B > 0, NEW q \in Int, NEW r \in Nat, r < B
    PROVE  (B * q + r) % B = r
OBVIOUS

\* Some bytes further on in a block.
LEMMA Further ==
    ASSUME NEW x \in Nat, NEW d \in Nat
    PROVE  LET o == x % BlockSize
           IN  /\ o \in Nat /\ o < BlockSize
               /\ o + d < BlockSize => (x + d) % BlockSize = o + d
               /\ o + d = BlockSize => (x + d) % BlockSize = 0
<1> DEFINE B == BlockSize
           o == x % B
<1>1. B \in Nat /\ B > 0
  BY SizesOfBlocks
<1> HIDE DEF B
<1>2. o \in Nat /\ o < B /\ \E q \in Int : x = B * q + o
  BY <1>1, Remainder
<1> HIDE DEF o
<1>3. PICK q \in Int : x = B * q + o
  BY <1>2
<1>4. ASSUME o + d < B PROVE (x + d) % B = o + d
  <2> DEFINE r == o + d
  <2>1. r \in Nat /\ r < B
    BY <1>2, <1>4
  <2>2. x + d = B * q + r
    BY <1>1, <1>2, <1>3
  <2> HIDE DEF r
  <2>3. (B * q + r) % B = r
    BY <1>1, <2>1, RemainderIs
  <2> QED
    BY <2>2, <2>3 DEF r
<1>5. ASSUME o + d = B PROVE (x + d) % B = 0
  <2> DEFINE p == q + 1
  <2>1. p \in Int /\ x + d = B * p + 0
    BY <1>1, <1>2, <1>3, <1>5
  <2> HIDE DEF p
  <2>2. (B * p + 0) % B = 0
    BY <1>1, <2>1, RemainderIs
  <2> QED
    BY <2>1, <2>2
<1> QED
  BY <1>2, <1>4, <1>5 DEF o, B

\* A whole block further on.
LEMMA NextBlock ==
    ASSUME NEW x \in Nat, x % BlockSize = 0
    PROVE  (x + BlockSize) % BlockSize = 0
<1>1. BlockSize \in Nat
  BY SizesOfBlocks
<1>2. (x % BlockSize) + BlockSize = BlockSize
  BY <1>1
<1> QED
  BY <1>1, <1>2, Further

\* A beginning of an aligned file is aligned.
LEMMA CutIsAligned ==
    ASSUME NEW f \in Seq(Pair), NEW g, NEW e, Cut(g, f), Aligned(f, e)
    PROVE  Aligned(g, e)
<1>1. g \in Seq(Pair) /\ \A x \in DOMAIN g : x \in DOMAIN f /\ g[x] = f[x]
  BY DEF Cut
<1>2. DOMAIN g = 1..Len(g) /\ Len(g) \in Nat
  BY <1>1, LenProperties
<1>3. ASSUME NEW x \in DOMAIN g, g[x][2] <= 1
      PROVE  /\ Boundary(g, e, x - 1)
             /\ g[x] = Zero => ((x - 1) % BlockSize) + HeaderSize > BlockSize
             /\ g[x] # Zero => ((x - 1) % BlockSize) + SizeIn(e, g[x][1]) <= BlockSize
  <2>1. /\ Boundary(f, e, x - 1)
        /\ f[x] = Zero => ((x - 1) % BlockSize) + HeaderSize > BlockSize
        /\ f[x] # Zero => ((x - 1) % BlockSize) + SizeIn(e, f[x][1]) <= BlockSize
    BY <1>1, <1>3 DEF Aligned
  <2>2. x - 1 = 0 \/ x - 1 \in DOMAIN g
    BY <1>2
  <2> QED
    BY <1>1, <2>1, <2>2 DEF Boundary
<1> QED
  BY <1>3 DEF Aligned

\* The alignment does not mind that there are more physical records.
LEMMA LongerIsAligned ==
    ASSUME NEW f \in Seq(Pair), NEW e, NEW e2, Longer(e2, e), BytesOK(f, e)
    PROVE  /\ Aligned(f, e) => Aligned(f, e2)
           /\ \A x \in {0} \cup DOMAIN f : Boundary(f, e, x) => Boundary(f, e2, x)
<1>1. \A x \in DOMAIN f : f[x] # Zero => SizeIn(e2, f[x][1]) = SizeIn(e, f[x][1])
  BY DEF Longer, BytesOK
<1>2. \A x \in {0} \cup DOMAIN f : Boundary(f, e, x) => Boundary(f, e2, x)
  BY <1>1 DEF Boundary
<1>3. ASSUME NEW x \in DOMAIN f, f[x][2] <= 1, Aligned(f, e)
      PROVE  /\ Boundary(f, e2, x - 1)
             /\ f[x] = Zero => ((x - 1) % BlockSize) + HeaderSize > BlockSize
             /\ f[x] # Zero => ((x - 1) % BlockSize) + SizeIn(e2, f[x][1]) <= BlockSize
  <2>1. /\ Boundary(f, e, x - 1)
        /\ f[x] = Zero => ((x - 1) % BlockSize) + HeaderSize > BlockSize
        /\ f[x] # Zero => ((x - 1) % BlockSize) + SizeIn(e, f[x][1]) <= BlockSize
    BY <1>3 DEF Aligned
  <2>2. x - 1 \in {0} \cup DOMAIN f
    <3>1. DOMAIN f = 1..Len(f) /\ Len(f) \in Nat
      BY LenProperties
    <3> QED
      BY <3>1
  <2> QED
    BY <1>1, <1>2, <2>1, <2>2
<1> QED
  BY <1>2, <1>3 DEF Aligned

\* Where the writer is in its block: block_offset_ of a file of n bytes.
OffsetOf(offset, n) == offset = n % BlockSize \/ (offset = BlockSize /\ n % BlockSize = 0)

\* The padding leads to where the next physical record starts in its block.
LEMMA PaddingLeads ==
    ASSUME Typed, OffsetOf(writer.offset, Len(file))
    PROVE  LET m == Len(file)
               t == Len(Trailer)
           IN  /\ (m + t) % BlockSize = Offset
               /\ \A i \in Nat : i < t => ((m + i) % BlockSize) + HeaderSize > BlockSize
<1> DEFINE m == Len(file)
           t == Len(Trailer)
           off == writer.offset
           o == m % BlockSize
<1>1. m \in Nat /\ off \in 0..BlockSize
  BY LenProperties DEF Typed
<1>2. /\ t = IF BlockSize - off < HeaderSize THEN BlockSize - off ELSE 0
      /\ Offset = IF BlockSize - off < HeaderSize THEN 0 ELSE off
  BY NextBytes DEF Offset, Leftover
<1>3. off = o \/ (off = BlockSize /\ o = 0)
  BY DEF OffsetOf
<1> HIDE DEF m, off, t
<1>4. /\ o \in Nat /\ o < BlockSize
      /\ \A d \in Nat : /\ o + d < BlockSize => (m + d) % BlockSize = o + d
                        /\ o + d = BlockSize => (m + d) % BlockSize = 0
  BY <1>1, Further
<1>5. m + 0 = m
  BY <1>1
<1> HIDE DEF o
<1>6. CASE off = BlockSize /\ o = 0
  <2>1. t = 0 /\ Offset = 0
    BY <1>2, <1>6, SizesOfBlocks
  <2>2. (m + 0) % BlockSize = 0
    <3>1. o + 0 < BlockSize /\ o + 0 = 0
      BY <1>4, <1>6
    <3> QED
      BY <1>4, <3>1
  <2> QED
    BY <2>1, <2>2 DEF m, t
<1>7. CASE off = o /\ BlockSize - off < HeaderSize
  <2>1. t \in Nat /\ o + t = BlockSize /\ Offset = 0
    BY <1>1, <1>2, <1>7, SizesOfBlocks
  <2>2. (m + t) % BlockSize = 0
    BY <1>4, <2>1
  <2>3. ASSUME NEW i \in Nat, i < t
        PROVE  ((m + i) % BlockSize) + HeaderSize > BlockSize
    <3>1. o + i < BlockSize /\ (o + i) + HeaderSize > BlockSize
      BY <1>4, <1>7, <2>1, <2>3, SizesOfBlocks
    <3> QED
      BY <1>4, <3>1
  <2> QED
    BY <2>1, <2>2, <2>3 DEF m, t
<1>8. CASE off = o /\ ~(BlockSize - off < HeaderSize)
  <2>1. t = 0 /\ Offset = o
    BY <1>2, <1>8
  <2>2. (m + 0) % BlockSize = o
    <3>1. o + 0 < BlockSize /\ o + 0 = o
      BY <1>4
    <3> QED
      BY <1>4, <3>1
  <2> QED
    BY <2>1, <2>2 DEF m, t
<1> QED
  BY <1>3, <1>6, <1>7, <1>8

\* The next physical record is aligned when it fits behind the padding.
LEMMA ExtendedIsAligned ==
    ASSUME NEW f \in Seq(Pair), NEW e \in Seq(PhysicalRecord), NEW t \in Nat, NEW n \in DOMAIN e,
           NEW g, Extended(g, f, t, n, SizeIn(e, n)), Aligned(f, e), Boundary(f, e, Len(f)),
           \A i \in Nat : i < t => ((Len(f) + i) % BlockSize) + HeaderSize > BlockSize,
           ((Len(f) + t) % BlockSize) + SizeIn(e, n) <= BlockSize
    PROVE  /\ Aligned(g, e) /\ Boundary(g, e, Len(g))
           /\ OffsetOf(((Len(f) + t) % BlockSize) + SizeIn(e, n), Len(g))
<1> DEFINE m == Len(f)
           size == SizeIn(e, n)
           o == (m + t) % BlockSize
<1>1. m \in Nat /\ DOMAIN f = 1..m /\ n \in Nat
  BY LenProperties
<1>2. size \in Nat /\ size >= 1
  <2>1. SizeIn(e, n) \in Nat /\ SizeIn(e, n) >= HeaderSize
    BY SizeOfRecord
  <2> HIDE DEF size
  <2> QED
    BY <2>1, SizesOfBlocks DEF size
<1>3. /\ g \in Seq(Pair) /\ Len(g) = m + t + size
      /\ \A x \in DOMAIN g :
          /\ x <= m => x \in DOMAIN f /\ g[x] = f[x]
          /\ m < x /\ x <= m + t => g[x] = Zero
          /\ m + t < x => g[x] = <<n, x - m - t>>
  BY DEF Extended
<1>4. DOMAIN g = 1..(m + t + size)
  BY <1>3, LenProperties
<1>5. Boundary(f, e, m) /\ o + size <= BlockSize
  OBVIOUS
<1>6. \A i \in Nat : i < t => ((m + i) % BlockSize) + HeaderSize > BlockSize
  OBVIOUS
<1>p. size = SizeIn(e, n) /\ m = Len(f)
  OBVIOUS
<1> HIDE DEF m, size
<1>7. \A x \in DOMAIN g : x \in Nat /\ x >= 1 /\ x <= m + t + size
  BY <1>1, <1>2, <1>4
<1>8. \A x \in Nat : x >= 1 /\ x <= m + t + size => x \in DOMAIN g
  BY <1>1, <1>2, <1>4
<1>9. ASSUME NEW x \in Nat, m <= x, x <= m + t PROVE Boundary(g, e, x)
  <2>1. CASE x = m
    <3>1. m = 0 \/ (m \in DOMAIN g /\ g[m] = f[m])
      BY <1>1, <1>2, <1>3, <1>8
    <3> QED
      BY <2>1, <3>1, <1>5 DEF Boundary
  <2>2. CASE x > m
    <3>1. x \in DOMAIN g
      BY <1>1, <1>2, <1>8, <1>9, <2>2
    <3>2. g[x] = Zero
      BY <1>3, <1>9, <2>2, <3>1
    <3> QED
      BY <3>2 DEF Boundary
  <2> QED
    BY <1>1, <1>9, <2>1, <2>2
<1>10. ASSUME NEW x \in DOMAIN g, g[x][2] <= 1
       PROVE  /\ Boundary(g, e, x - 1)
              /\ g[x] = Zero => ((x - 1) % BlockSize) + HeaderSize > BlockSize
              /\ g[x] # Zero => ((x - 1) % BlockSize) + SizeIn(e, g[x][1]) <= BlockSize
  <2>1. CASE x <= m
    <3>1. x \in DOMAIN f /\ g[x] = f[x]
      BY <2>1, <1>3
    <3>2. /\ Boundary(f, e, x - 1)
          /\ f[x] = Zero => ((x - 1) % BlockSize) + HeaderSize > BlockSize
          /\ f[x] # Zero => ((x - 1) % BlockSize) + SizeIn(e, f[x][1]) <= BlockSize
      BY <1>10, <3>1 DEF Aligned
    <3>3. x - 1 = 0 \/ (x - 1 \in DOMAIN g /\ x - 1 <= m)
      BY <2>1, <1>1, <1>2, <1>7, <1>8
    <3>4. x - 1 = 0 \/ g[x - 1] = f[x - 1]
      BY <3>3, <1>3
    <3> QED
      BY <3>1, <3>2, <3>4 DEF Boundary
  <2>2. CASE m < x /\ x <= m + t
    <3>1. g[x] = Zero
      BY <2>2, <1>3
    <3> DEFINE i == x - 1 - m
    <3>2. i \in Nat /\ i < t /\ m + i = x - 1 /\ x - 1 \in Nat /\ m <= x - 1 /\ x - 1 <= m + t
      BY <2>2, <1>1, <1>7
    <3> HIDE DEF i
    <3>3. ((m + i) % BlockSize) + HeaderSize > BlockSize
      BY <3>2, <1>6
    <3>4. Boundary(g, e, x - 1)
      BY <3>2, <1>9
    <3> QED
      BY <3>1, <3>2, <3>3, <3>4
  <2>3. CASE m + t < x
    <3>1. g[x] = <<n, x - m - t>>
      BY <2>3, <1>3
    <3>2. x - 1 = m + t
      <4>1. g[x][2] = x - m - t
        BY <3>1
      <4>2. x - m - t <= 1
        BY <4>1, <1>10
      <4>3. x \in Nat /\ m \in Nat /\ m + t < x
        BY <2>3, <1>1, <1>7
      <4>4. \A i \in Nat, j \in Nat, k \in Nat : i - j - k <= 1 /\ j + k < i => i - 1 = j + k
        OBVIOUS
      <4> QED
        BY <4>2, <4>3, <4>4
    <3>3. Boundary(g, e, m + t)
      BY <1>1, <1>9
    <3>4. g[x][1] = n
      BY <3>1
    <3>5. g[x] # Zero
      <4>1. x - m - t = 1
        BY <3>2, <1>1, <1>7
      <4> QED
        BY <3>1, <4>1 DEF Zero
    <3>6. ((x - 1) % BlockSize) + SizeIn(e, n) <= BlockSize
      BY <3>2, <1>5, <1>p
    <3> QED
      BY <3>2, <3>3, <3>4, <3>5, <3>6
  <2> QED
    BY <1>1, <1>7, <2>1, <2>2, <2>3
<1>11. Boundary(g, e, Len(g))
  <2> DEFINE k == m + t + size
  <2>1. k \in DOMAIN g /\ m + t < k /\ k - m - t = size
    BY <1>1, <1>2, <1>4
  <2> HIDE DEF k
  <2>2. g[k] = <<n, size>>
    BY <2>1, <1>3
  <2>3. Boundary(g, e, k)
    BY <2>2, <1>p DEF Boundary
  <2> QED
    BY <2>3, <1>3 DEF k
<1>12. OffsetOf(o + size, Len(g))
  <2> DEFINE x == m + t
             k == o + size
  <2>1. x \in Nat /\ Len(g) = x + size
    BY <1>1, <1>3
  <2>2. o = x % BlockSize
    OBVIOUS
  <2> HIDE DEF x, o
  <2>3. /\ o \in Nat /\ o + size < BlockSize => (x + size) % BlockSize = o + size
        /\ o + size = BlockSize => (x + size) % BlockSize = 0
    BY <2>1, <2>2, <1>2, Further
  <2>4. o \in Nat
    BY <2>1, <2>2, Further, <1>2
  <2>5. o + size < BlockSize \/ o + size = BlockSize
    BY <2>4, <1>2, <1>5, SizesOfBlocks
  <2> QED
    BY <2>1, <2>3, <2>4, <2>5 DEF OffsetOf
<1> QED
  BY <1>10, <1>11, <1>12, <1>p DEF Aligned

\* The blocks of a log that no operation on the file has failed for.
AlignInv ==
    Clean => /\ Aligned(file, emitted)
             /\ pc \in {"idle", "adding"} =>
                   Boundary(file, emitted, Len(file)) /\ OffsetOf(writer.offset, Len(file))

\* What fails stays known.
LEMMA CleanBefore ==
    ASSUME Typed, [Next]_vars, Clean'
    PROVE  Clean /\ ~EmitFails /\ ~ReadFails /\ (Reuse => EndsWhole)
<1>1. /\ failed \in [appends : Nat, reads : Nat]
      /\ crash \in [count : Nat, machine : BOOLEAN, torn : BOOLEAN]
  BY DEF Typed
<1>2. failed'.appends = 0 /\ failed'.reads = 0 /\ ~crash'.torn
  BY DEF Clean
<1>3. ~EmitFails
  <2>1. SUFFICES ASSUME EmitFails PROVE FALSE
    OBVIOUS
  <2>2. failed' = [failed EXCEPT !.appends = @ + 1]
    BY <2>1 DEF EmitFails
  <2>3. failed'.appends = failed.appends + 1 /\ failed.appends \in Nat
    BY <1>1, <2>2
  <2> QED
    BY <1>2, <2>3
<1>4. ~ReadFails
  <2>1. SUFFICES ASSUME ReadFails PROVE FALSE
    OBVIOUS
  <2>2. failed' = [failed EXCEPT !.reads = @ + 1]
    BY <2>1 DEF ReadFails
  <2>3. failed'.reads = failed.reads + 1 /\ failed.reads \in Nat
    BY <1>1, <2>2
  <2> QED
    BY <1>2, <2>3
<1>5. CASE Crash
  <2>1. PICK n : crash' = [crash EXCEPT !.count = @ + 1, !.machine = @ \/ n < Len(file)]
    BY <1>5 DEF Crash
  <2>2. crash'.torn = crash.torn /\ failed' = failed
    BY <1>1, <1>5, <2>1 DEF Crash
  <2>3. ~Reuse
    BY <1>5 DEF Crash, Reuse
  <2> QED
    BY <1>2, <1>3, <1>4, <2>2, <2>3 DEF Clean
<1>6. CASE Reuse
  <2>1. failed' = failed /\ crash' = [crash EXCEPT !.torn = @ \/ ~EndsWhole]
    BY <1>6 DEF Reuse
  <2>2. crash'.torn = (crash.torn \/ ~EndsWhole)
    BY <1>1, <2>1
  <2> QED
    BY <1>2, <1>3, <1>4, <2>1, <2>2 DEF Clean
<1>7. CASE \/ (\E length \in Lengths : AddRecord(length)) \/ EmitPhysicalRecord
           \/ FillBuffer \/ ReadPhysicalRecord
  <2>1. failed' = failed /\ crash' = crash /\ pc # "done"
    BY <1>7 DEF AddRecord, EmitPhysicalRecord, FillBuffer, ReadPhysicalRecord
  <2>2. ~Reuse
    BY <2>1 DEF Reuse
  <2> QED
    BY <1>2, <1>3, <1>4, <2>1, <2>2 DEF Clean
<1>8. CASE UNCHANGED vars /\ ~Reuse
  BY <1>2, <1>3, <1>4, <1>8 DEF Clean, vars
<1> QED
  BY <1>3, <1>4, <1>5, <1>6, <1>7, <1>8 DEF Next

\* A turn of the loop of AddRecord.
LEMMA EmissionIsAligned ==
    ASSUME Typed, WriterOK, FileOK(file, emitted), pc = "adding", Aligned(file, emitted),
           Boundary(file, emitted, Len(file)), OffsetOf(writer.offset, Len(file))
    PROVE  LET e == Append(emitted, Fragment)
               g == file \o Bytes
           IN  /\ Aligned(g, e) /\ Boundary(g, e, Len(g))
               /\ OffsetOf(Advanced(Fragment.length), Len(g))
<1> DEFINE e == Append(emitted, Fragment)
           g == file \o Bytes
           n == Len(emitted) + 1
           t == Len(Trailer)
           m == Len(file)
           k == Fragment.length
<1>1. /\ file \in Seq(Pair) /\ emitted \in Seq(PhysicalRecord) /\ Fragment \in PhysicalRecord
      /\ BytesOK(file, emitted) /\ m \in Nat /\ DOMAIN file = 1..m
  BY NextFragment, LenProperties DEF Typed, FileOK
<1>2. Longer(e, emitted) /\ n \in DOMAIN e /\ e[n] = Fragment /\ e \in Seq(PhysicalRecord)
  BY <1>1, AppendIsLonger DEF Longer
<1>3. SizeIn(e, n) = HeaderSize + k
  BY <1>2 DEF SizeIn
<1>4. Extended(g, file, t, n, SizeIn(e, n)) /\ t \in Nat
  BY <1>3, NextBytes
<1>5. /\ (m + t) % BlockSize = Offset
      /\ \A i \in Nat : i < t => ((m + i) % BlockSize) + HeaderSize > BlockSize
  BY PaddingLeads
<1>6. Offset + SizeIn(e, n) <= BlockSize /\ Advanced(k) = Offset + SizeIn(e, n)
  <2> DEFINE o == Offset
  <2>1. o \in Nat /\ k \in Nat /\ o + HeaderSize + k <= BlockSize /\ Advanced(k) = o + HeaderSize + k
    BY NextFragment DEF Advanced
  <2> HIDE DEF o, k
  <2> QED
    BY <1>3, <2>1, SizesOfBlocks DEF o
<1> HIDE DEF e, g, n, t, k, m
<1>7. Aligned(file, e) /\ Boundary(file, e, m)
  <2>1. m \in {0} \cup DOMAIN file
    BY <1>1
  <2> QED
    BY <1>1, <1>2, <2>1, LongerIsAligned DEF m
<1>8. ((m + t) % BlockSize) + SizeIn(e, n) <= BlockSize
  BY <1>5, <1>6
<1>9. /\ Aligned(g, e) /\ Boundary(g, e, Len(g))
      /\ OffsetOf(((m + t) % BlockSize) + SizeIn(e, n), Len(g))
  BY <1>1, <1>2, <1>4, <1>5, <1>7, <1>8, ExtendedIsAligned DEF m
<1> QED
  BY <1>5, <1>6, <1>9 DEF e, g, k

\* Every step keeps the writer aligned with the blocks of the file.
LEMMA AlignNext ==
    ASSUME Typed, WriterOK, FileOK(file, emitted), AlignInv, [Next]_vars
    PROVE  AlignInv'
<1>1. SUFFICES ASSUME Clean'
               PROVE  /\ Aligned(file', emitted')
                      /\ pc' \in {"idle", "adding"} =>
                            /\ Boundary(file', emitted', Len(file'))
                            /\ OffsetOf(writer'.offset, Len(file'))
  BY DEF AlignInv, Aligned, Boundary, SizeIn, OffsetOf
<1>2. Clean /\ ~EmitFails /\ ~ReadFails /\ (Reuse => EndsWhole)
  BY <1>1, CleanBefore
<1>3. /\ Aligned(file, emitted)
      /\ pc \in {"idle", "adding"} =>
            Boundary(file, emitted, Len(file)) /\ OffsetOf(writer.offset, Len(file))
  BY <1>2 DEF AlignInv
<1>s. file \in Seq(Pair) /\ emitted \in Seq(PhysicalRecord) /\ BytesOK(file, emitted)
  BY DEF Typed, FileOK
<1>4. ASSUME NEW length \in Lengths, AddRecord(length)
      PROVE  /\ file' = file /\ emitted' = emitted /\ pc = "idle" /\ writer'.offset = writer.offset
  BY <1>4 DEF AddRecord, Typed
<1>5. CASE EmitPhysicalRecord
  <2>1. /\ pc = "adding" /\ file' = file \o Bytes /\ emitted' = Append(emitted, Fragment)
        /\ writer'.offset = Advanced(Fragment.length)
    BY <1>5 DEF EmitPhysicalRecord
  <2> QED
    BY <1>3, <2>1, EmissionIsAligned
<1>6. CASE Crash
  <2>1. pc' = "reading"
    BY <1>6 DEF Crash
  <2>2. CASE pc = "adding"
    <3> DEFINE e == Append(emitted, Fragment)
               g == file \o Bytes
    <3>1. Cut(file', g) /\ emitted' = e
      BY <1>6, <2>2, EmissionSteps DEF Emission
    <3>2. Aligned(g, e) /\ g \in Seq(Pair)
      BY <1>3, <2>2, EmissionIsAligned, EmissionSteps
    <3> HIDE DEF e, g
    <3>3. Aligned(file', e)
      BY <3>1, <3>2, CutIsAligned
    <3> QED
      BY <2>1, <3>1, <3>3
  <2>3. CASE pc # "adding"
    <3>1. Cut(file', file) /\ emitted' = emitted
      BY <1>6, <2>3, EmissionSteps
    <3>2. Aligned(file', emitted)
      BY <1>3, <1>s, <3>1, CutIsAligned
    <3> QED
      BY <2>1, <3>1, <3>2
  <2> QED
    BY <2>2, <2>3
<1>7. CASE FillBuffer \/ ReadPhysicalRecord
  <2>1. file' = file /\ emitted' = emitted /\ pc' \in {"reading", "done"}
    <3>1. CASE ReadPhysicalRecord
      BY <3>1 DEF ReadPhysicalRecord
    <3> QED
      BY <1>7, <3>1 DEF FillBuffer
  <2> QED
    BY <1>3, <2>1
<1>8. CASE Reuse
  <2> DEFINE m == Len(file)
  <2>1. file' = file /\ emitted' = emitted /\ EndsWhole /\ writer'.offset = m % BlockSize
    BY <1>2, <1>8 DEF Reuse
  <2>2. Boundary(file, emitted, m)
    <3>1. CASE file = <<>>
      BY <3>1 DEF Boundary
    <3>2. CASE file # <<>>
      BY <2>1, <3>2 DEF EndsWhole, Boundary, SizeIn, Last
    <3> QED
      BY <3>1, <3>2
  <2>3. OffsetOf(writer'.offset, m)
    BY <2>1 DEF OffsetOf
  <2> QED
    BY <1>3, <2>1, <2>2, <2>3
<1>9. CASE UNCHANGED vars
  BY <1>3, <1>9 DEF vars
<1> QED
  BY <1>2, <1>3, <1>4, <1>5, <1>6, <1>7, <1>8, <1>9 DEF Next

\* At a boundary there is padding, or a physical record begins.
LEMMA BoundaryNext ==
    ASSUME NEW f \in Seq(Pair), NEW e, BytesOK(f, e), NEW a \in Nat, Boundary(f, e, a), a + 1 \in DOMAIN f
    PROVE  \/ f[a + 1] = Zero
           \/ f[a + 1][1] \in DOMAIN e /\ f[a + 1][2] = 1 /\ f[a + 1] = <<f[a + 1][1], 1>>
<1> DEFINE x == a + 1
           p == f[x][1]
           i == f[x][2]
<1>1. SUFFICES ASSUME f[x] # Zero
               PROVE  p \in DOMAIN e /\ i = 1 /\ f[x] = <<p, 1>>
  OBVIOUS
<1>2. x \in DOMAIN f /\ p \in Nat /\ i \in Nat /\ f[x] = <<p, i>>
  BY BytePair
<1>3. p \in DOMAIN e /\ i >= 1 /\ i <= SizeIn(e, p)
  BY <1>1, <1>2 DEF BytesOK
<1>4. i = 1
  <2>1. SUFFICES ASSUME i # 1 PROVE FALSE
    OBVIOUS
  <2>2. i > 1
    BY <1>2, <1>3, <2>1
  <2>3. x - 1 \in DOMAIN f /\ f[x - 1] = <<p, i - 1>>
    BY <1>2, <2>2 DEF BytesOK
  <2>4. x - 1 = a
    OBVIOUS
  <2> HIDE DEF x, p, i
  <2>5. a \in DOMAIN f /\ f[a] = <<p, i - 1>>
    BY <2>3, <2>4
  <2>6. a # 0
    BY <2>5, BytePair
  <2>7. f[a] # Zero /\ f[a][1] = p /\ f[a][2] = i - 1
    BY <2>5, <2>2, <1>2 DEF Zero
  <2>8. i - 1 = SizeIn(e, p)
    BY <2>6, <2>7 DEF Boundary
  <2> HIDE DEF Boundary
  <2> QED
    BY <2>8, <1>2, <1>3
<1> QED
  BY <1>2, <1>3, <1>4

\* A physical record that has begun goes on to its end, or the end of the file.
LEMMA Onwards ==
    ASSUME NEW f \in Seq(Pair), NEW e, BytesOK(f, e), Aligned(f, e),
           NEW x \in DOMAIN f, NEW p, f[x] = <<p, 1>>, NEW k \in Nat, k < SizeIn(e, p), SizeIn(e, p) \in Nat,
           x + k \in DOMAIN f
    PROVE  f[x + k] = <<p, 1 + k>>
<1> DEFINE size == SizeIn(e, p)
           T == {n \in Nat : n < size /\ x + n \in DOMAIN f /\ f[x + n] # <<p, 1 + n>>}
<1>1. x \in Nat /\ x >= 1 /\ DOMAIN f = 1..Len(f) /\ Len(f) \in Nat /\ size \in Nat
  BY LenProperties
<1>p. p \in Nat
  <2>1. f[x][1] = p
    OBVIOUS
  <2> QED
    BY <2>1, BytePair
<1>2. SUFFICES ASSUME T # {} PROVE FALSE
  OBVIOUS
<1>3. PICK n \in T : \A m \in T : n <= m
  BY <1>2, LeastNat
<1>4. n \in Nat /\ n < size /\ x + n \in DOMAIN f /\ f[x + n] # <<p, 1 + n>>
  BY <1>3
<1>s. size = SizeIn(e, p)
  OBVIOUS
<1> HIDE DEF size
<1>5. n # 0
  <2>1. x + 0 = x /\ 1 + 0 = 1
    BY <1>1
  <2> QED
    BY <1>4, <2>1
<1>6. f[x + (n - 1)] = <<p, n>> /\ x + (n - 1) \in DOMAIN f
  <2> DEFINE j == n - 1
  <2>1. j \in Nat /\ j < size /\ x + j \in DOMAIN f /\ ~(n <= j) /\ 1 + j = n
    BY <1>1, <1>4, <1>5
  <2> HIDE DEF j
  <2>2. j \notin T
    BY <1>3, <2>1
  <2>3. f[x + j] = <<p, 1 + j>>
    BY <2>1, <2>2
  <2> QED
    BY <2>1, <2>3 DEF j
<1> DEFINE z == x + n
           y == x + (n - 1)
<1>7. z \in DOMAIN f /\ z - 1 = y /\ f[y] = <<p, n>> /\ y >= 1 /\ y \in DOMAIN f /\ f[z] # <<p, 1 + n>>
  BY <1>1, <1>4, <1>5, <1>6
<1> HIDE DEF z, y, T
<1>8. f[y][1] = p /\ f[y][2] = n /\ f[y] # Zero
  BY <1>4, <1>5, <1>7 DEF Zero
<1>9. f[z][2] > 1
  <2>1. SUFFICES ASSUME f[z][2] <= 1 PROVE FALSE
    BY <1>7, BytePair
  <2>2. Boundary(f, e, y)
    BY <2>1, <1>7 DEF Aligned
  <2>3. n = size
    BY <2>2, <1>7, <1>8, <1>s DEF Boundary
  <2> QED
    BY <2>3, <1>1, <1>4
<1>10. f[y] = <<f[z][1], f[z][2] - 1>>
  BY <1>7, <1>9 DEF BytesOK
<1>11. f[z] = <<f[z][1], f[z][2]>> /\ f[z][1] = p /\ f[z][2] - 1 = n /\ f[z][2] \in Nat
  BY <1>7, <1>10, BytePair
<1> QED
  BY <1>4, <1>7, <1>11

\* Padding goes on to the end of its block, or of the file.
LEMMA PaddingGoesOn ==
    ASSUME NEW f \in Seq(Pair), NEW e \in Seq(PhysicalRecord), BytesOK(f, e), Aligned(f, e),
           NEW a \in Nat, a + 1 \in DOMAIN f, f[a + 1] = Zero,
           NEW l \in Nat, (a % BlockSize) + l <= BlockSize,
           NEW i \in 1..l, a + i \in DOMAIN f
    PROVE  f[a + i] = Zero
<1> DEFINE o == a % BlockSize
           T == {n \in Nat : n >= 1 /\ n <= l /\ a + n \in DOMAIN f /\ f[a + n] # Zero}
<1>1. DOMAIN f = 1..Len(f) /\ Len(f) \in Nat
  BY LenProperties
<1>2. SUFFICES ASSUME T # {} PROVE FALSE
  <2>1. i \in Nat /\ i >= 1 /\ i <= l
    OBVIOUS
  <2> QED
    BY <2>1
<1>3. PICK n \in T : \A m \in T : n <= m
  BY <1>2, LeastNat
<1>4. n \in Nat /\ n >= 1 /\ n <= l /\ a + n \in DOMAIN f /\ f[a + n] # Zero
  BY <1>3
<1>5. n # 1
  BY <1>4
<1> DEFINE z == a + n
           y == a + (n - 1)
<1>6. f[y] = Zero /\ y \in DOMAIN f
  <2> DEFINE j == n - 1
  <2>1. j \in Nat /\ j >= 1 /\ j <= l /\ a + j \in DOMAIN f /\ ~(n <= j)
    BY <1>1, <1>4, <1>5
  <2> HIDE DEF j
  <2>2. j \notin T
    BY <1>3, <2>1
  <2>3. f[a + j] = Zero
    BY <2>1, <2>2
  <2> QED
    BY <2>1, <2>3 DEF j
<1>7. z \in DOMAIN f /\ z - 1 = y /\ f[z] # Zero /\ y = a + (n - 1)
  BY <1>4
<1>8. o + HeaderSize > BlockSize
  <2> DEFINE x == a + 1
  <2>1. x \in DOMAIN f /\ f[x] = Zero /\ x - 1 = a /\ f[x][2] <= 1
    BY DEF Zero
  <2> HIDE DEF x
  <2>2. ((x - 1) % BlockSize) + HeaderSize > BlockSize
    BY <2>1 DEF Aligned
  <2> QED
    BY <2>1, <2>2
<1> HIDE DEF T, z, y
<1>9. f[z][2] <= 1
  <2>1. SUFFICES ASSUME f[z][2] > 1 PROVE FALSE
    BY <1>7, BytePair
  <2>2. f[y] = <<f[z][1], f[z][2] - 1>>
    BY <2>1, <1>7 DEF BytesOK
  <2> DEFINE j == f[z][2] - 1
             p == f[z][1]
  <2>3. f[y] = <<p, j>>
    BY <2>2
  <2> HIDE DEF j, p
  <2>4. j = 0
    BY <2>3, <1>6 DEF Zero
  <2>5. f[z][2] - 1 = 0
    BY <2>4 DEF j
  <2> QED
    BY <2>1, <2>5, <1>7, BytePair
<1>10. (y % BlockSize) + SizeIn(e, f[z][1]) <= BlockSize
  BY <1>7, <1>9 DEF Aligned
<1>11. f[z][1] \in DOMAIN e
  BY <1>7 DEF BytesOK
<1>12. SizeIn(e, f[z][1]) \in Nat /\ SizeIn(e, f[z][1]) >= HeaderSize
  BY <1>11, SizeOfRecord
<1>13. y % BlockSize = o + (n - 1)
  <2> DEFINE d == n - 1
  <2>1. d \in Nat /\ y = a + d
    BY <1>4, <1>7
  <2>2. o \in Nat /\ o < BlockSize
    BY <2>1, Further
  <2>3. o + d < BlockSize
    <3>1. o + l <= BlockSize
      OBVIOUS
    <3> HIDE DEF o
    <3> QED
      BY <1>4, <2>2, <3>1, SizesOfBlocks
  <2> HIDE DEF d
  <2>4. (a + d) % BlockSize = o + d
    BY <2>1, <2>3, Further
  <2> QED
    BY <2>1, <2>4 DEF d
<1> DEFINE s == SizeIn(e, f[z][1])
<1>14. o \in Nat
  BY Further
<1>15. (o + (n - 1)) + s <= BlockSize /\ s \in Nat /\ s >= HeaderSize
  BY <1>10, <1>12, <1>13
<1> HIDE DEF o, s
<1> QED
  BY <1>4, <1>8, <1>14, <1>15, SizesOfBlocks

\* What there is at a boundary, in the rest of the block.
LEMMA HeadRun ==
    ASSUME NEW f \in Seq(Pair), NEW e \in Seq(PhysicalRecord), BytesOK(f, e), Aligned(f, e),
           NEW a \in Nat, Boundary(f, e, a), NEW l \in Nat, l >= 1, (a % BlockSize) + l <= BlockSize,
           \A i \in 1..l : a + i \in DOMAIN f
    PROVE  \/ (a % BlockSize) + HeaderSize > BlockSize /\ \A i \in 1..l : f[a + i] = Zero
           \/ \E p \in DOMAIN e :
                 /\ (a % BlockSize) + SizeIn(e, p) <= BlockSize /\ f[a + 1] = <<p, 1>>
                 /\ \A i \in 1..l : i <= SizeIn(e, p) => f[a + i] = <<p, i>>
<1> DEFINE x == a + 1
<1>1. x \in DOMAIN f /\ x - 1 = a
  BY 1 \in 1..l
<1>2. CASE f[x] = Zero
  <2>1. \A i \in 1..l : f[a + i] = Zero
    BY <1>1, <1>2, PaddingGoesOn
  <2> HIDE DEF x
  <2>2. f[x][2] <= 1
    BY <1>2 DEF Zero
  <2>3. (a % BlockSize) + HeaderSize > BlockSize
    BY <1>1, <1>2, <2>2 DEF Aligned
  <2> QED
    BY <2>1, <2>3
<1>3. CASE f[x] # Zero
  <2> DEFINE p == f[x][1]
             size == SizeIn(e, p)
  <2>1. p \in DOMAIN e /\ f[x][2] = 1 /\ f[x] = <<p, 1>>
    BY <1>1, <1>3, BoundaryNext
  <2>2. (a % BlockSize) + size <= BlockSize
    <3> HIDE DEF x
    <3> QED
      BY <1>1, <1>3, <2>1 DEF Aligned
  <2> HIDE DEF p
  <2>3. size \in Nat
    BY <2>1, SizeOfRecord
  <2>4. ASSUME NEW i \in 1..l, i <= size PROVE f[a + i] = <<p, i>>
    <3> DEFINE k == i - 1
    <3>1. k \in Nat /\ x + k = a + i /\ k < size /\ 1 + k = i
      BY <2>3, <2>4
    <3> HIDE DEF k, x
    <3>2. x + k \in DOMAIN f
      BY <3>1
    <3>3. f[x + k] = <<p, 1 + k>>
      BY <1>1, <2>1, <2>3, <3>1, <3>2, Onwards
    <3> QED
      BY <3>1, <3>3
  <2> QED
    BY <2>1, <2>2, <2>4
<1> QED
  BY <1>2, <1>3

\* Where the reader is in a log that nothing failed for.
AtInv ==
    Clean /\ pc = "reading" =>
        /\ Boundary(file, emitted, At)
        /\ ~reader.eof => reader.pos % BlockSize = 0
        /\ (At % BlockSize) + Len(reader.buffer) <= BlockSize

\* The reader is at work in a log that nothing failed for.
CleanReading ==
    /\ Typed /\ BufferInv /\ FileOK(file, emitted) /\ AlignInv /\ AtInv
    /\ Clean /\ pc = "reading"

\* What is in the buffer: padding, or a physical record and what follows it.
PaddingAhead ==
    /\ (At % BlockSize) + HeaderSize > BlockSize
    /\ \A i \in 1..Len(reader.buffer) : file[At + i] = Zero

\* Physical record p begins where the reader is, and fits in its block.
RecordAhead(p) ==
    /\ p \in DOMAIN emitted /\ (At % BlockSize) + SizeIn(emitted, p) <= BlockSize
    /\ At + 1 \in DOMAIN file /\ file[At + 1] = <<p, 1>>
    /\ \A i \in 1..Len(reader.buffer) : i <= SizeIn(emitted, p) => file[At + i] = <<p, i>>

\* The buffer is the bytes of the file behind the place of the reader.
LEMMA ReaderIsAt ==
    ASSUME Typed, BufferOK
    PROVE  /\ At \in Nat /\ reader.pos \in Nat /\ Len(reader.buffer) \in Nat
           /\ At + Len(reader.buffer) = reader.pos /\ reader.pos <= Len(file)
           /\ reader.buffer \in Seq(Pair)
           /\ \A i \in 1..Len(reader.buffer) : At + i \in DOMAIN file /\ reader.buffer[i] = file[At + i]
<1>1. reader.buffer \in Seq(Pair) /\ reader.pos \in Nat
  BY DEF Typed, ReaderType
<1>2. DOMAIN reader.buffer = 1..Len(reader.buffer) /\ Len(reader.buffer) \in Nat
  BY <1>1, LenProperties
<1>3. Len(reader.buffer) <= reader.pos /\ reader.pos <= Len(file)
  BY DEF BufferOK
<1>4. At \in Nat /\ At + Len(reader.buffer) = reader.pos
  <2> DEFINE l == Len(reader.buffer)
             pos == reader.pos
  <2>1. At = pos - l /\ l \in Nat /\ pos \in Nat /\ l <= pos
    BY <1>1, <1>2, <1>3 DEF At
  <2> HIDE DEF l, pos
  <2>2. At \in Nat /\ At + l = pos
    BY <2>1
  <2> QED
    BY <2>2 DEF l, pos
<1> QED
  BY <1>1, <1>2, <1>3, <1>4 DEF BufferOK

\* In a clean log there is padding or a physical record ahead, and nothing else.
LEMMA CleanHead ==
    ASSUME CleanReading, Len(reader.buffer) >= 1
    PROVE  PaddingAhead \/ \E p \in DOMAIN emitted : RecordAhead(p)
<1> DEFINE a == At
           l == Len(reader.buffer)
<1>1. /\ file \in Seq(Pair) /\ emitted \in Seq(PhysicalRecord) /\ BytesOK(file, emitted)
      /\ Aligned(file, emitted) /\ Boundary(file, emitted, a)
      /\ (a % BlockSize) + l <= BlockSize
  BY DEF CleanReading, Typed, FileOK, AlignInv, AtInv
<1>2. /\ a \in Nat /\ l \in Nat /\ l >= 1 /\ \A i \in 1..l : a + i \in DOMAIN file
  BY ReaderIsAt DEF CleanReading, BufferInv
<1> HIDE DEF a, l
<1>3. \/ (a % BlockSize) + HeaderSize > BlockSize /\ \A i \in 1..l : file[a + i] = Zero
      \/ \E p \in DOMAIN emitted :
            /\ (a % BlockSize) + SizeIn(emitted, p) <= BlockSize /\ file[a + 1] = <<p, 1>>
            /\ \A i \in 1..l : i <= SizeIn(emitted, p) => file[a + i] = <<p, i>>
  BY <1>1, <1>2, HeadRun
<1>4. a + 1 \in DOMAIN file
  BY <1>2
<1> QED
  BY <1>3, <1>4 DEF PaddingAhead, RecordAhead, a, l

\* Only the end of the file cuts a physical record off.
LEMMA NotCutOff ==
    ASSUME CleanReading, Len(reader.buffer) >= 1, NEW p, RecordAhead(p), ~reader.eof
    PROVE  SizeIn(emitted, p) <= Len(reader.buffer)
<1> DEFINE a == At
           l == Len(reader.buffer)
           size == SizeIn(emitted, p)
           o == a % BlockSize
           pos == reader.pos
<1>1. /\ a \in Nat /\ l \in Nat /\ l >= 1 /\ a + l = pos
  BY ReaderIsAt DEF CleanReading, BufferInv
<1>2. size \in Nat /\ o + size <= BlockSize
  BY SizeOfRecord DEF RecordAhead, CleanReading, Typed
<1>3. pos % BlockSize = 0
  BY DEF CleanReading, AtInv
<1> HIDE DEF a, l, size, pos
<1>4. o \in Nat /\ o + l < BlockSize => (a + l) % BlockSize = o + l
  BY <1>1, Further
<1>o. o \in Nat
  BY <1>1, Further
<1> HIDE DEF o
<1>5. ~(l < size)
  <2>1. SUFFICES ASSUME l < size PROVE FALSE
    OBVIOUS
  <2>2. o + l < BlockSize
    BY <2>1, <1>1, <1>2, <1>o, SizesOfBlocks
  <2>3. o + l = 0
    BY <2>2, <1>1, <1>3, <1>4, <1>o
  <2> QED
    BY <2>3, <1>1, <1>o
<1>6. size <= l
  BY <1>1, <1>2, <1>5
<1> QED
  BY <1>6 DEF size, l

\* What ReadPhysicalRecord finds is whole, or cut off by the end of the file.
LEMMA CleanPhysical ==
    ASSUME CleanReading, Len(reader.buffer) >= HeaderSize, NEW f \in Physical
    PROVE  \E p \in DOMAIN emitted :
              /\ RecordAhead(p)
              /\ \/ IsIntact(f) /\ f.p = p
                 \/ f = Eof /\ reader.eof /\ SizeIn(emitted, p) > Len(reader.buffer)
<1> DEFINE b == reader.buffer
           l == Len(b)
           o == At % BlockSize
<1>1. /\ l \in Nat /\ l >= HeaderSize /\ l >= 1 /\ At \in Nat
      /\ b \in Seq(Pair) /\ \A i \in 1..l : b[i] = file[At + i]
  <2>1. /\ l \in Nat /\ At \in Nat /\ b \in Seq(Pair) /\ \A i \in 1..l : b[i] = file[At + i]
    BY ReaderIsAt DEF CleanReading, BufferInv
  <2>2. l >= HeaderSize
    OBVIOUS
  <2> HIDE DEF l
  <2>3. l >= 1
    BY <2>1, <2>2, SizesOfBlocks
  <2> QED
    BY <2>1, <2>2, <2>3
<1>2. o \in Nat /\ o + l <= BlockSize
  BY <1>1, Further DEF CleanReading, AtInv
<1>3. ~PaddingAhead
  <2>1. SUFFICES ASSUME o + HeaderSize > BlockSize PROVE FALSE
    BY DEF PaddingAhead
  <2> HIDE DEF o, l
  <2> QED
    BY <2>1, <1>1, <1>2, SizesOfBlocks
<1>4. PICK p \in DOMAIN emitted : RecordAhead(p)
  BY <1>1, <1>3, CleanHead
<1> DEFINE size == SizeIn(emitted, p)
<1>5. \A i \in 1..l : i <= size => b[i] = <<p, i>>
  BY <1>1, <1>4 DEF RecordAhead
<1>6. p \in Nat /\ p # 0 /\ size \in Nat /\ size >= HeaderSize /\ size = HeaderSize + emitted[p].length
  <2>1. emitted \in Seq(PhysicalRecord)
    BY DEF CleanReading, Typed
  <2> QED
    BY <2>1, SizeOfRecord, LenProperties DEF SizeIn
<1>7. Head(b) = <<p, 1>> /\ Head(b)[1] = p
  <2>1. 1 \in 1..l /\ 1 <= size
    <3> HIDE DEF size, l
    <3> QED
      BY <1>1, <1>6, SizesOfBlocks
  <2>2. b[1] = <<p, 1>>
    BY <2>1, <1>5
  <2>3. Head(b) = b[1]
    BY <1>1, EmptySeq, HeadTailProperties
  <2> QED
    BY <2>2, <2>3
<1> DEFINE Intact(n) == p # 0 /\ \A i \in 1..n : b[i] = <<p, i>>
           s == HeaderSize + emitted[p].length
<1>8. f \in IF ~Intact(HeaderSize) THEN {TooLong, BadRecord(TRUE), BadRecord(FALSE)}
            ELSE IF s > l THEN {TooLong}
            ELSE IF ~Intact(s) THEN {BadRecord(TRUE)}
            ELSE {Found(emitted[p].type, p, SubSeq(b, s + 1, l), FALSE)}
  BY <1>7 DEF Physical
<1>s. s = size
  BY <1>6
<1> HIDE DEF l, size, s
<1>9. Intact(HeaderSize)
  <2>1. \A i \in 1..HeaderSize : i \in 1..l /\ i <= size
    BY <1>1, <1>6, SizesOfBlocks
  <2> QED
    BY <2>1, <1>5, <1>6
<1>10. CASE s > l
  <2>1. f = TooLong
    BY <1>8, <1>9, <1>10
  <2>2. reader.eof
    <3>1. ~(size <= l)
      BY <1>1, <1>6, <1>10, <1>s
    <3> QED
      BY <3>1, <1>1, <1>4, NotCutOff DEF size, l
  <2>3. f = Eof
    BY <2>1, <2>2 DEF TooLong
  <2>4. size > l
    BY <1>10, <1>s
  <2> QED
    BY <1>4, <2>2, <2>3, <2>4 DEF size, l
<1>11. CASE ~(s > l)
  <2>1. size <= l
    BY <1>1, <1>6, <1>11, <1>s
  <2>2. \A i \in 1..size : i \in 1..l /\ i <= size
    BY <2>1, <1>1, <1>6
  <2>3. Intact(s)
    BY <2>2, <1>5, <1>6, <1>s
  <2>4. f = Found(emitted[p].type, p, SubSeq(b, s + 1, l), FALSE)
    BY <1>8, <1>9, <1>11, <2>3
  <2>5. f.p = p
    BY <2>4 DEF Found
  <2>6. IsIntact(f)
    BY <2>1, <2>3, <2>4, <2>5, <1>s DEF IsIntact, size, l
  <2> QED
    BY <1>4, <2>5, <2>6
<1> QED
  BY <1>10, <1>11

\* What the reader goes over without returning it has no end of a record.
LEMMA NoneAhead ==
    ASSUME CleanReading,
           \/ Len(reader.buffer) < HeaderSize
           \/ \E p \in DOMAIN emitted : RecordAhead(p) /\ SizeIn(emitted, p) > Len(reader.buffer),
           NEW q \in DOMAIN emitted, NEW y \in DOMAIN file, EndsAt(file, emitted, y, q), y <= reader.pos
    PROVE  y <= At
<1> DEFINE a == At
           l == Len(reader.buffer)
           i == y - a
<1>1. /\ a \in Nat /\ l \in Nat /\ a + l = reader.pos /\ y \in Nat
  <2>1. file \in Seq(Pair)
    BY DEF CleanReading, Typed
  <2> QED
    BY <2>1, ReaderIsAt, LenProperties DEF CleanReading, BufferInv
<1>2. SUFFICES ASSUME a < y PROVE FALSE
  BY <1>1
<1>3. i \in 1..l /\ a + i = y /\ l >= 1
  <2>1. y <= reader.pos
    OBVIOUS
  <2> HIDE DEF a, l
  <2> QED
    BY <1>1, <1>2, <2>1
<1>4. \A p \in DOMAIN emitted : SizeIn(emitted, p) \in Nat /\ SizeIn(emitted, p) >= HeaderSize
  BY SizeOfRecord DEF CleanReading, Typed
<1>5. file[y] = <<q, SizeIn(emitted, q)>>
  BY DEF EndsAt
<1>6. CASE PaddingAhead
  <2>1. file[y] = Zero
    BY <1>3, <1>6 DEF PaddingAhead
  <2>2. SizeIn(emitted, q) = 0
    BY <2>1, <1>5 DEF Zero
  <2> QED
    BY <2>2, <1>4, SizesOfBlocks
<1>7. ASSUME NEW p \in DOMAIN emitted, RecordAhead(p), l < SizeIn(emitted, p)
      PROVE  FALSE
  <2>1. i <= SizeIn(emitted, p) /\ i < SizeIn(emitted, p)
    <3> HIDE DEF i, l
    <3> QED
      BY <1>1, <1>3, <1>4, <1>7
  <2>2. file[y] = <<p, i>>
    BY <1>3, <1>7, <2>1 DEF RecordAhead
  <2> HIDE DEF i
  <2>3. p = q /\ i = SizeIn(emitted, q)
    BY <2>2, <1>5
  <2> QED
    BY <2>1, <2>3, <1>4
<1>8. CASE l < HeaderSize
  <2>1. ASSUME NEW p \in DOMAIN emitted, RecordAhead(p) PROVE FALSE
    <3>1. l < SizeIn(emitted, p)
      <4> HIDE DEF l
      <4> QED
        BY <1>1, <1>4, <1>8, SizesOfBlocks
    <3> QED
      BY <2>1, <3>1, <1>7
  <2> QED
    BY <1>3, <1>6, <2>1, CleanHead
<1>9. CASE \E p \in DOMAIN emitted : RecordAhead(p) /\ SizeIn(emitted, p) > l
  <2>1. PICK p \in DOMAIN emitted : RecordAhead(p) /\ SizeIn(emitted, p) > l
    BY <1>9
  <2>2. l < SizeIn(emitted, p)
    <3> HIDE DEF l
    <3> QED
      BY <2>1, <1>1, <1>4
  <2> QED
    BY <2>1, <2>2, <1>7
<1> QED
  BY <1>8, <1>9

\* What is left of a block that the reader is done with is padding.
LEMMA FillSkips ==
    ASSUME CleanReading, Len(reader.buffer) < HeaderSize, ~reader.eof
    PROVE  \A i \in 1..Len(reader.buffer) : file[At + i] = Zero
<1>1. SUFFICES ASSUME NEW i \in 1..Len(reader.buffer) PROVE file[At + i] = Zero
  OBVIOUS
<1> DEFINE l == Len(reader.buffer)
<1>2. l \in Nat
  BY ReaderIsAt DEF CleanReading, BufferInv
<1>3. l >= 1 /\ l < HeaderSize
  BY <1>1, <1>2
<1>4. ~\E p \in DOMAIN emitted : RecordAhead(p)
  <2>1. SUFFICES ASSUME NEW p \in DOMAIN emitted, RecordAhead(p) PROVE FALSE
    OBVIOUS
  <2>2. SizeIn(emitted, p) <= l
    BY <1>3, <2>1, NotCutOff
  <2>3. SizeIn(emitted, p) \in Nat /\ SizeIn(emitted, p) >= HeaderSize
    BY SizeOfRecord DEF CleanReading, Typed
  <2> HIDE DEF l
  <2> QED
    BY <2>2, <2>3, <1>2, <1>3, SizesOfBlocks
<1> QED
  BY <1>1, <1>3, <1>4, CleanHead DEF PaddingAhead

\* A turn of the reader.
LEMMA CleanTurn ==
    ASSUME CleanReading, ReadPhysicalRecord
    PROVE  /\ UNCHANGED <<file, writer, added, emitted, failed, crash>>
           /\ \/ /\ pc' = pc
                 /\ \E f \in Physical : IsIntact(f) /\ RecordAhead(f.p) /\ reader' = Take(f)
              \/ /\ pc' = "done" /\ reader.eof /\ reader' = Take(Eof)
                 /\ \/ Len(reader.buffer) < HeaderSize
                    \/ \E p \in DOMAIN emitted : RecordAhead(p) /\ SizeIn(emitted, p) > Len(reader.buffer)
<1>1. Typed /\ BufferOK /\ BytesOK(file, emitted)
  BY DEF CleanReading, BufferInv, FileOK
<1>2. UNCHANGED <<file, writer, added, emitted, failed, crash>>
  BY <1>1, ReadSteps
<1>n. Len(reader.buffer) \in Nat
  BY <1>1, ReaderIsAt
<1>3. ASSUME Len(reader.buffer) >= HeaderSize, NEW f \in Physical, IsIntact(f)
      PROVE  RecordAhead(f.p)
  <2>1. f.type \in Types
    <3>1. f.type = emitted[f.p].type /\ f.p \in DOMAIN emitted
      BY <1>3 DEF IsIntact, Found
    <3> QED
      BY <1>1, <3>1, SizeOfRecord DEF Typed
  <2>2. f # Eof
    BY <2>1 DEF Eof, Found, Types
  <2> QED
    BY <1>3, <2>2, CleanPhysical
<1>4. ASSUME Len(reader.buffer) >= HeaderSize, NEW report \in BOOLEAN, BadRecord(report) \in Physical
      PROVE  FALSE
  <2> DEFINE f == BadRecord(report)
  <2>1. f.type = "bad"
    BY DEF BadRecord, Found
  <2>2. f # Eof
    BY <2>1 DEF Eof, Found
  <2>3. ~IsIntact(f)
    <3>1. SUFFICES ASSUME IsIntact(f) PROVE FALSE
      OBVIOUS
    <3> HIDE DEF f
    <3>2. f.type = emitted[f.p].type /\ f.p \in DOMAIN emitted
      BY <3>1 DEF IsIntact, Found
    <3>3. f.type \in Types
      BY <1>1, <3>2, SizeOfRecord DEF Typed
    <3> QED
      BY <2>1, <3>3 DEF Types
  <2> HIDE DEF f
  <2> QED
    BY <1>4, <2>2, <2>3, CleanPhysical DEF f
<1>5. ASSUME Len(reader.buffer) >= HeaderSize, Eof \in Physical
      PROVE  \E p \in DOMAIN emitted : RecordAhead(p) /\ SizeIn(emitted, p) > Len(reader.buffer)
  <2>1. ~IsIntact(Eof)
    <3>1. SUFFICES ASSUME IsIntact(Eof) PROVE FALSE
      OBVIOUS
    <3>2. Eof.type = emitted[Eof.p].type /\ Eof.p \in DOMAIN emitted
      BY <3>1 DEF IsIntact, Found
    <3>3. Eof.type \in Types
      BY <1>1, <3>2, SizeOfRecord DEF Typed
    <3> QED
      BY <3>3 DEF Types, Eof, Found
  <2> QED
    BY <1>5, <2>1, CleanPhysical
<1>6. CASE Len(reader.buffer) >= HeaderSize
  BY <1>1, <1>2, <1>3, <1>4, <1>5, <1>6, ReadSteps
<1>7. CASE Len(reader.buffer) < HeaderSize
  <2>1. ~(Len(reader.buffer) >= HeaderSize)
    <3> DEFINE l == Len(reader.buffer)
    <3>1. l \in Nat /\ l < HeaderSize
      BY <1>n, <1>7
    <3> HIDE DEF l
    <3>2. ~(l >= HeaderSize)
      BY <3>1, SizesOfBlocks
    <3> QED
      BY <3>2 DEF l
  <2> QED
    BY <1>1, <1>2, <1>7, <2>1, ReadSteps
<1> QED
  BY <1>6, <1>7, <1>n, SizesOfBlocks

\* Where the reader is after an intact physical record.
LEMMA AfterIntact ==
    ASSUME CleanReading, NEW f, IsIntact(f), RecordAhead(f.p), reader' = Take(f)
    PROVE  LET size == SizeIn(emitted, f.p)
           IN  /\ f.p \in DOMAIN emitted /\ f.p \in Nat /\ size \in Nat /\ size >= HeaderSize
               /\ At \in Nat /\ At' = At + size /\ At' \in Nat /\ At' \in DOMAIN file
               /\ file[At'] = <<f.p, size>>
               /\ \A i \in 1..size : file[At + i] = <<f.p, i>>
               /\ Boundary(file, emitted, At')
               /\ (At' % BlockSize) + Len(reader'.buffer) <= BlockSize
               /\ reader'.pos = reader.pos /\ reader'.eof = reader.eof
<1> DEFINE p == f.p
           size == SizeIn(emitted, p)
           a == At
           l == Len(reader.buffer)
           k == Len(f.rest)
           o == a % BlockSize
<1>1. Typed /\ BufferOK /\ BytesOK(file, emitted)
  BY DEF CleanReading, BufferInv, FileOK
<1>2. /\ a \in Nat /\ p \in DOMAIN emitted /\ p \in Nat /\ size \in Nat /\ size >= HeaderSize
      /\ size <= l /\ l \in Nat /\ a + size \in DOMAIN file /\ file[a + size] = <<p, size>>
      /\ reader.pos - k = a + size
      /\ \A i \in 1..size : file[a + i] = <<p, i>>
  BY <1>1, HeadOfBuffer
<1>3. reader'.pos = reader.pos /\ reader'.eof = reader.eof /\ reader'.buffer = f.rest
  BY <1>1, TakesIntact
<1>4. k = l - size /\ k \in Nat
  BY <1>1, RestOfBuffer
<1>5. At' = a + size
  BY <1>2, <1>3 DEF At
<1>6. o + l <= BlockSize /\ o + size <= BlockSize
  BY DEF CleanReading, AtInv, RecordAhead
<1> HIDE DEF p, size, a, l, k
<1>7. /\ o \in Nat /\ o < BlockSize
      /\ o + size < BlockSize => (a + size) % BlockSize = o + size
      /\ o + size = BlockSize => (a + size) % BlockSize = 0
  BY <1>2, Further
<1> HIDE DEF o
<1>8. (At' % BlockSize) + k <= BlockSize
  <2>1. CASE o + size < BlockSize
    <3>1. At' % BlockSize = o + size
      BY <1>5, <1>7, <2>1
    <3> QED
      BY <3>1, <1>2, <1>4, <1>6, <1>7
  <2>2. CASE o + size = BlockSize
    <3>1. At' % BlockSize = 0
      BY <1>5, <1>7, <2>2
    <3>2. k = 0
      BY <1>2, <1>4, <1>6, <1>7, <2>2, SizesOfBlocks
    <3> QED
      BY <3>1, <3>2, SizesOfBlocks
  <2> QED
    BY <1>2, <1>6, <1>7, <2>1, <2>2, SizesOfBlocks
<1>9. Boundary(file, emitted, a + size)
  BY <1>2 DEF Boundary, size
<1>10. a + size \in Nat
  BY <1>2
<1> QED
  BY <1>2, <1>3, <1>5, <1>8, <1>9, <1>10 DEF p, size, a, k

\* A reader that has read nothing.
LEMMA NewIsAt ==
    /\ NewReader.pos - Len(NewReader.buffer) = 0
    /\ 0 % BlockSize = 0 /\ (0 % BlockSize) + Len(NewReader.buffer) <= BlockSize
<1>1. BlockSize \in Nat /\ BlockSize > 0
  BY SizesOfBlocks
<1>2. (BlockSize * 0 + 0) % BlockSize = 0
  BY <1>1, RemainderIs
<1>3. BlockSize * 0 + 0 = 0
  BY <1>1
<1>4. 0 % BlockSize = 0
  BY <1>2, <1>3
<1>5. NewReader.pos = 0 /\ Len(NewReader.buffer) = 0
  BY NewReaderIs
<1> DEFINE o == 0 % BlockSize
           l == Len(NewReader.buffer)
           pos == NewReader.pos
<1>6. o = 0 /\ l = 0 /\ pos = 0
  BY <1>4, <1>5
<1> HIDE DEF o, l, pos
<1>7. pos - l = 0 /\ o + l <= BlockSize
  BY <1>1, <1>6
<1> QED
  BY <1>4, <1>7 DEF o, l, pos

\* Where the reader is after it has filled its buffer.
LEMMA AfterFill ==
    ASSUME CleanReading, FillBuffer
    PROVE  /\ At' = reader.pos /\ At \in Nat /\ At' \in Nat /\ At <= At'
           /\ \A y \in DOMAIN file : At < y /\ y <= At' => file[y] = Zero
           /\ Boundary(file, emitted, At')
           /\ (At' % BlockSize) + Len(reader'.buffer) <= BlockSize
           /\ ~reader'.eof => reader'.pos % BlockSize = 0
<1> DEFINE a == At
           l == Len(reader.buffer)
           k == Len(reader'.buffer)
           pos == reader.pos
<1>1. Typed /\ BufferOK /\ file \in Seq(Pair)
  BY DEF CleanReading, BufferInv, Typed
<1>2. l < HeaderSize /\ ~reader.eof /\ pc = "reading"
  BY DEF FillBuffer
<1>3. /\ a \in Nat /\ l \in Nat /\ pos \in Nat /\ a + l = pos /\ pos <= Len(file)
  BY <1>1, ReaderIsAt
<1>4. /\ k \in Nat /\ reader'.pos = pos + k /\ k <= BlockSize
      /\ reader'.eof = (k < BlockSize)
  BY <1>1, FilledBuffer
<1>5. At' = pos
  <2>1. At' = reader'.pos - k
    BY DEF At
  <2> HIDE DEF k, pos
  <2> QED
    BY <2>1, <1>3, <1>4
<1>6. \A i \in 1..l : file[a + i] = Zero
  BY <1>2, FillSkips
<1>7. Boundary(file, emitted, a) /\ pos % BlockSize = 0
  BY <1>2 DEF CleanReading, AtInv
<1> HIDE DEF a, l, k, pos
<1>8. \A y \in DOMAIN file : a < y /\ y <= pos => file[y] = Zero
  <2>1. SUFFICES ASSUME NEW y \in DOMAIN file, a < y, y <= pos PROVE file[y] = Zero
    OBVIOUS
  <2> DEFINE i == y - a
  <2>2. i \in 1..l /\ a + i = y
    <3>1. y \in Nat
      BY <1>1, LenProperties
    <3> QED
      BY <3>1, <2>1, <1>3
  <2> HIDE DEF i
  <2> QED
    BY <2>2, <1>6
<1>9. Boundary(file, emitted, pos)
  <2>1. CASE l = 0
    BY <2>1, <1>3, <1>7
  <2>2. CASE l # 0
    <3>1. pos \in DOMAIN file /\ a < pos /\ pos <= pos
      <4>1. DOMAIN file = 1..Len(file) /\ Len(file) \in Nat
        BY <1>1, LenProperties
      <4> QED
        BY <4>1, <2>2, <1>3
    <3>2. file[pos] = Zero
      BY <3>1, <1>8
    <3> QED
      BY <3>2 DEF Boundary
  <2> QED
    BY <2>1, <2>2
<1>10. (pos % BlockSize) + k <= BlockSize
  BY <1>4, <1>7, SizesOfBlocks
<1>11. ~reader'.eof => reader'.pos % BlockSize = 0
  <2>1. SUFFICES ASSUME ~reader'.eof PROVE reader'.pos % BlockSize = 0
    OBVIOUS
  <2>2. ~(k < BlockSize)
    BY <2>1, <1>4
  <2>3. k = BlockSize
    BY <2>2, <1>4, SizesOfBlocks
  <2>4. (pos + BlockSize) % BlockSize = 0
    BY <1>3, <1>7, NextBlock
  <2> QED
    BY <2>3, <2>4, <1>4
<1>12. a <= pos
  BY <1>3
<1> QED
  BY <1>3, <1>5, <1>8, <1>9, <1>10, <1>11, <1>12 DEF a, k, pos

\* Every step keeps the reader at a boundary.
LEMMA AtNext ==
    ASSUME Typed, BufferInv, FileOK(file, emitted), AlignInv, AtInv, [Next]_vars
    PROVE  AtInv'
<1>1. SUFFICES ASSUME Clean', pc' = "reading"
               PROVE  /\ Boundary(file', emitted', At')
                      /\ ~reader'.eof => reader'.pos % BlockSize = 0
                      /\ (At' % BlockSize) + Len(reader'.buffer) <= BlockSize
  BY DEF AtInv, Boundary, SizeIn
<1>2. Clean /\ ~EmitFails /\ ~ReadFails
  BY <1>1, CleanBefore
<1>3. CASE Crash
  <2>1. reader' = NewReader
    BY <1>3 DEF Crash
  <2>2. At' = 0 /\ reader'.pos = 0
    BY <2>1, NewIsAt, NewReaderIs DEF At
  <2> QED
    BY <2>1, <2>2, NewIsAt DEF Boundary
<1>4. CASE FillBuffer
  <2>1. CleanReading /\ file' = file /\ emitted' = emitted
    BY <1>2, <1>4 DEF CleanReading, FillBuffer
  <2> QED
    BY <1>4, <2>1, AfterFill
<1>5. CASE ReadPhysicalRecord
  <2>1. CleanReading
    BY <1>2, <1>5 DEF CleanReading, ReadPhysicalRecord
  <2>2. file' = file /\ emitted' = emitted
    BY <1>5, <2>1, CleanTurn
  <2>3. PICK f \in Physical : IsIntact(f) /\ RecordAhead(f.p) /\ reader' = Take(f)
    BY <1>1, <1>5, <2>1, CleanTurn
  <2>4. /\ Boundary(file, emitted, At') /\ reader'.pos = reader.pos /\ reader'.eof = reader.eof
        /\ (At' % BlockSize) + Len(reader'.buffer) <= BlockSize
    BY <2>1, <2>3, AfterIntact
  <2> QED
    BY <2>1, <2>2, <2>4 DEF CleanReading, AtInv
<1>6. CASE UNCHANGED vars
  BY <1>1, <1>2, <1>6 DEF vars, AtInv, At
<1>7. CASE (\E length \in Lengths : AddRecord(length)) \/ EmitPhysicalRecord \/ Reuse
  BY <1>1, <1>7 DEF AddRecord, EmitPhysicalRecord, Reuse
<1> QED
  BY <1>2, <1>3, <1>4, <1>5, <1>6, <1>7 DEF Next

\* A record that the reader has left unfinished is in scratch.
TailInv ==
    Clean /\ pc = "reading" =>
        \A y \in DOMAIN file :
            y <= At /\ file[y] # Zero /\ Padding(file, y, At + 1)
                /\ emitted[file[y][1]].type \in {"first", "middle"} => reader.scratch # <<>>

\* A record that ends where the reader has been has been returned.
SeenInv ==
    Clean /\ pc \in {"reading", "done"} =>
        /\ \A q \in DOMAIN emitted : emitted[q].type \in {"full", "last"} =>
              \A y \in DOMAIN file : EndsAt(file, emitted, y, q) /\ y <= At =>
                 \E n \in DOMAIN reader.records : Last(reader.records[n]) = q
        /\ pc = "done" => At = Len(file)

\* A "middle" or "last" record finds its beginning in scratch.
LEMMA ScratchGoesOn ==
    ASSUME CleanReading, TailInv, NEW p, RecordAhead(p), emitted[p].type \in {"middle", "last"}
    PROVE  reader.scratch # <<>> /\ reader.inFragmented
<1>1. /\ file \in Seq(Pair) /\ emitted \in Seq(PhysicalRecord) /\ FileOK(file, emitted) /\ At \in Nat
  BY ReaderIsAt DEF CleanReading, BufferInv, Typed
<1>2. p \in DOMAIN emitted /\ At + 1 \in DOMAIN file /\ file[At + 1] = <<p, 1>>
  BY DEF RecordAhead
<1> DEFINE a == At
<1> HIDE DEF a
<1>3. /\ p - 1 \in DOMAIN emitted /\ emitted[p - 1].type \in {"first", "middle"}
      /\ \E z \in DOMAIN file : z <= a /\ EndsAt(file, emitted, z, p - 1) /\ Padding(file, z, a + 1)
  BY <1>1, <1>2, ContinuesAt DEF a
<1>4. PICK z \in DOMAIN file : z <= a /\ EndsAt(file, emitted, z, p - 1) /\ Padding(file, z, a + 1)
  BY <1>3
<1> DEFINE q == p - 1
           size == SizeIn(emitted, q)
<1>5. file[z] = <<q, size>> /\ size \in Nat /\ size >= HeaderSize
  BY <1>1, <1>3, <1>4, SizeOfRecord DEF EndsAt
<1> HIDE DEF q, size
<1>6. file[z] # Zero /\ file[z][1] = q
  BY <1>5, SizesOfBlocks DEF Zero
<1>7. reader.scratch # <<>>
  BY <1>3, <1>4, <1>6 DEF CleanReading, TailInv, a, q
<1> QED
  BY <1>7 DEF CleanReading, BufferInv

\* What the reader makes of an intact physical record.
LEMMA IntactTaken ==
    ASSUME CleanReading, TailInv, NEW f, IsIntact(f), RecordAhead(f.p), reader' = Take(f)
    PROVE  LET t == emitted[f.p].type
           IN  /\ t = "full" => reader'.records = Append(reader.records, <<f.p>>)
               /\ t = "last" => reader'.records = Append(reader.records, Append(reader.scratch, f.p))
               /\ t \in {"first", "middle"} => reader'.records = reader.records /\ reader'.scratch # <<>>
               /\ t \in Types
<1> DEFINE p == f.p
           t == emitted[p].type
           s == reader.scratch
<1>1. Typed /\ BufferOK
  BY DEF CleanReading, BufferInv
<1>2. t \in {"middle", "last"} => reader.inFragmented
  BY ScratchGoesOn
<1>3. s \in Seq(Nat) /\ p \in Nat
  <2>1. s \in Seq(Nat) /\ emitted \in Seq(PhysicalRecord) /\ p \in DOMAIN emitted
    BY <1>1 DEF Typed, ReaderType, RecordAhead
  <2> HIDE DEF p
  <2> QED
    BY <2>1, LenProperties
<1>4. /\ t = "full" => reader'.records = Append(reader.records, <<p>>)
      /\ t = "first" => reader'.records = reader.records /\ reader'.scratch = <<p>>
      /\ t = "middle" => reader'.records = reader.records /\ reader'.scratch = Append(s, p)
      /\ t = "last" => reader'.records = Append(reader.records, Append(s, p))
      /\ t \in Types
  BY <1>1, <1>2, TakesIntact DEF Reads
<1> HIDE DEF p, s, t
<1>5. <<p>> # <<>> /\ Append(s, p) # <<>>
  BY <1>3, AppendProperties
<1> QED
  BY <1>4, <1>5 DEF p, s, t

\* Every step keeps the unfinished record in scratch.
LEMMA TailNext ==
    ASSUME Typed, BufferInv, FileOK(file, emitted), AlignInv, AtInv, TailInv,
           Typed', [Next]_vars
    PROVE  TailInv'
<1>1. SUFFICES ASSUME Clean', pc' = "reading", NEW y \in DOMAIN file', y <= At', file'[y] # Zero,
                      Padding(file', y, At' + 1), emitted'[file'[y][1]].type \in {"first", "middle"}
               PROVE  reader'.scratch # <<>>
  BY DEF TailInv, Padding
<1>2. Clean /\ ~EmitFails /\ ~ReadFails
  BY <1>1, CleanBefore
<1>y. y \in Nat /\ y >= 1
  BY LenProperties DEF Typed
<1>3. CASE Crash
  <2>1. At' = 0
    BY <1>3, NewIsAt DEF Crash, At
  <2> QED
    BY <2>1, <1>1, <1>y
<1>4. CASE FillBuffer
  <2>1. CleanReading /\ file' = file /\ emitted' = emitted
    BY <1>2, <1>4 DEF CleanReading, FillBuffer
  <2>2. /\ At \in Nat /\ At' \in Nat /\ At <= At'
        /\ \A x \in DOMAIN file : At < x /\ x <= At' => file[x] = Zero
    BY <1>4, <2>1, AfterFill
  <2>3. reader'.scratch = reader.scratch
    BY <1>4, <2>1, FilledBuffer DEF CleanReading, BufferInv
  <2>4. y <= At
    BY <1>1, <1>y, <2>1, <2>2
  <2>5. Padding(file, y, At + 1)
    <3>1. ASSUME NEW z \in DOMAIN file, y < z, z < At + 1 PROVE file[z] = Zero
      <4>1. z < At' + 1
        <5>1. z \in Nat
          BY LenProperties DEF Typed
        <5> QED
          BY <5>1, <3>1, <2>2
      <4> QED
        BY <4>1, <3>1, <1>1, <2>1 DEF Padding
    <3> QED
      BY <3>1 DEF Padding
  <2> QED
    BY <1>1, <2>1, <2>3, <2>4, <2>5 DEF TailInv, CleanReading
<1>5. CASE ReadPhysicalRecord
  <2>1. CleanReading
    BY <1>2, <1>5 DEF CleanReading, ReadPhysicalRecord
  <2>2. file' = file /\ emitted' = emitted
    BY <1>5, <2>1, CleanTurn
  <2>3. PICK f \in Physical : IsIntact(f) /\ RecordAhead(f.p) /\ reader' = Take(f)
    BY <1>1, <1>5, <2>1, CleanTurn
  <2> DEFINE size == SizeIn(emitted, f.p)
             x == At'
  <2>4. x \in DOMAIN file /\ x \in Nat /\ file[x] = <<f.p, size>> /\ size \in Nat /\ size >= HeaderSize
    BY <2>1, <2>3, AfterIntact
  <2> HIDE DEF size
  <2>5. file[x] # Zero /\ file[x][1] = f.p
    BY <2>4, SizesOfBlocks DEF Zero
  <2>6. y = x
    <3>1. SUFFICES ASSUME y # x PROVE FALSE
      OBVIOUS
    <3> HIDE DEF x
    <3>2. y < x /\ x < x + 1
      BY <1>1, <1>y, <2>4, <3>1 DEF x
    <3>3. file[x] = Zero
      BY <1>1, <2>2, <2>4, <3>2 DEF Padding, x
    <3> QED
      BY <3>3, <2>5
  <2> HIDE DEF x
  <2>7. emitted[f.p].type \in {"first", "middle"}
    BY <1>1, <2>2, <2>5, <2>6
  <2> QED
    BY <2>1, <2>3, <2>7, IntactTaken
<1>6. CASE UNCHANGED vars
  <2>1. At' = At
    BY <1>6 DEF vars, At
  <2> QED
    BY <1>1, <1>2, <1>6, <2>1 DEF vars, TailInv
<1>7. CASE (\E length \in Lengths : AddRecord(length)) \/ EmitPhysicalRecord \/ Reuse
  BY <1>1, <1>7 DEF AddRecord, EmitPhysicalRecord, Reuse
<1> QED
  BY <1>2, <1>3, <1>4, <1>5, <1>6, <1>7 DEF Next

\* What a sequence has after something is appended.
LEMMA AppendedHas ==
    ASSUME NEW S, NEW s \in Seq(S), NEW x \in S
    PROVE  /\ \E n \in DOMAIN Append(s, x) : Append(s, x)[n] = x
           /\ \A m \in DOMAIN s : m \in DOMAIN Append(s, x) /\ Append(s, x)[m] = s[m]
<1> DEFINE u == Append(s, x)
           n == Len(s)
<1>1. /\ u \in Seq(S) /\ Len(u) = n + 1 /\ u[n + 1] = x /\ \A i \in 1..n : u[i] = s[i]
  BY AppendProperties
<1>2. n \in Nat /\ DOMAIN s = 1..n
  BY LenProperties
<1> HIDE DEF u, n
<1>3. DOMAIN u = 1..(n + 1)
  BY <1>1, LenProperties
<1>4. n + 1 \in DOMAIN u /\ \A m \in DOMAIN s : m \in DOMAIN u /\ u[m] = s[m]
  BY <1>1, <1>2, <1>3
<1> QED
  BY <1>1, <1>4 DEF u

\* A record returned is among those returned, with those before it.
LEMMA RecordReturned ==
    ASSUME NEW rs \in Seq(Seq(Nat)), NEW u \in Seq(Nat)
    PROVE  /\ \E n \in DOMAIN Append(rs, u) : Append(rs, u)[n] = u
           /\ \A m \in DOMAIN rs : m \in DOMAIN Append(rs, u) /\ Append(rs, u)[m] = rs[m]
<1> DEFINE S == Seq(Nat)
<1>1. rs \in Seq(S) /\ u \in S
  OBVIOUS
<1> HIDE DEF S
<1> QED
  BY <1>1, AppendedHas

\* Every step keeps the records that the reader is past among those returned.
LEMMA SeenNext ==
    ASSUME Typed, BufferInv, FileOK(file, emitted), AlignInv, AtInv, TailInv, SeenInv,
           Typed', [Next]_vars
    PROVE  SeenInv'
<1> DEFINE Seen(records, q) == \E n \in DOMAIN records : Last(records[n]) = q
<1>1. SUFFICES ASSUME Clean', pc' \in {"reading", "done"}
               PROVE  /\ \A q \in DOMAIN emitted' : emitted'[q].type \in {"full", "last"} =>
                            \A y \in DOMAIN file' : EndsAt(file', emitted', y, q) /\ y <= At' =>
                               Seen(reader'.records, q)
                      /\ pc' = "done" => At' = Len(file')
  BY DEF SeenInv, EndsAt, SizeIn
<1>2. Clean /\ ~EmitFails /\ ~ReadFails
  BY <1>1, CleanBefore
<1>3. CASE Crash
  <2>1. At' = 0 /\ pc' = "reading"
    BY <1>3, NewIsAt DEF Crash, At
  <2>2. \A y \in DOMAIN file' : ~(y <= At')
    <3>1. \A y \in DOMAIN file' : y >= 1 /\ y \in Nat
      BY LenProperties DEF Typed
    <3> QED
      BY <3>1, <2>1
  <2> QED
    BY <2>1, <2>2
\* a turn that goes to At', and returns what ended on the way
<1>4. ASSUME pc = "reading", UNCHANGED <<file, emitted>>,
             NEW q \in DOMAIN emitted, emitted[q].type \in {"full", "last"},
             NEW y \in DOMAIN file, EndsAt(file, emitted, y, q), y <= At
      PROVE  Seen(reader.records, q)
  BY <1>2, <1>4 DEF SeenInv
<1>5. CASE FillBuffer
  <2>1. CleanReading /\ file' = file /\ emitted' = emitted /\ pc' = "reading" /\ pc = "reading"
    BY <1>2, <1>5 DEF CleanReading, FillBuffer
  <2>2. /\ At \in Nat /\ At' \in Nat /\ At <= At'
        /\ \A x \in DOMAIN file : At < x /\ x <= At' => file[x] = Zero
    BY <1>5, <2>1, AfterFill
  <2>3. reader'.records = reader.records
    BY <1>5, <2>1, FilledBuffer DEF CleanReading, BufferInv
  <2>4. ASSUME NEW q \in DOMAIN emitted, NEW y \in DOMAIN file, EndsAt(file, emitted, y, q), y <= At'
        PROVE  y <= At
    <3>1. file[y] = <<q, SizeIn(emitted, q)>> /\ SizeIn(emitted, q) \in Nat /\ SizeIn(emitted, q) >= HeaderSize
      BY <2>4, SizeOfRecord DEF EndsAt, Typed
    <3>2. file[y] # Zero
      BY <3>1, SizesOfBlocks DEF Zero
    <3>3. y \in Nat
      BY LenProperties DEF Typed
    <3> QED
      BY <2>2, <2>4, <3>2, <3>3
  <2> QED
    BY <1>4, <2>1, <2>3, <2>4
<1>6. CASE ReadPhysicalRecord
  <2>1. CleanReading /\ pc = "reading"
    BY <1>2, <1>6 DEF CleanReading, ReadPhysicalRecord
  <2>2. file' = file /\ emitted' = emitted
    BY <1>6, <2>1, CleanTurn
  <2>n. \A y \in DOMAIN file : y \in Nat
    BY LenProperties DEF Typed
  <2>3. CASE pc' = pc /\ \E f \in Physical : IsIntact(f) /\ RecordAhead(f.p) /\ reader' = Take(f)
    <3>1. PICK f \in Physical : IsIntact(f) /\ RecordAhead(f.p) /\ reader' = Take(f)
      BY <2>3
    <3> DEFINE p == f.p
               size == SizeIn(emitted, p)
               t == emitted[p].type
               rs == reader.records
               s == reader.scratch
    <3>2. /\ p \in DOMAIN emitted /\ p \in Nat /\ size \in Nat /\ At \in Nat /\ At' = At + size
          /\ \A i \in 1..size : file[At + i] = <<p, i>>
      BY <2>1, <3>1, AfterIntact
    <3>3. /\ t = "full" => reader'.records = Append(rs, <<p>>)
          /\ t = "last" => reader'.records = Append(rs, Append(s, p))
          /\ t \in {"first", "middle"} => reader'.records = rs
          /\ t \in Types
      BY <2>1, <3>1, IntactTaken
    <3>4. rs \in Seq(Seq(Nat)) /\ s \in Seq(Nat)
      BY DEF Typed, ReaderType
    <3>s. size = SizeIn(emitted, p) /\ t = emitted[p].type
      OBVIOUS
    <3> HIDE DEF p, size, rs, s, t
    <3>5. <<p>> \in Seq(Nat) /\ Last(<<p>>) = p /\ Append(s, p) \in Seq(Nat) /\ Last(Append(s, p)) = p
      <4>1. <<p>> \in Seq(Nat) /\ Len(<<p>>) = 1 /\ <<p>>[1] = p
        BY <3>2
      <4>2. Append(s, p) \in Seq(Nat) /\ Len(Append(s, p)) = Len(s) + 1 /\ Append(s, p)[Len(s) + 1] = p
        BY <3>2, <3>4, AppendProperties
      <4> QED
        BY <4>1, <4>2 DEF Last
    <3>6. /\ t \in {"full", "last"} => Seen(reader'.records, p)
          /\ \A q : Seen(rs, q) => Seen(reader'.records, q)
      <4>1. ASSUME NEW u \in Seq(Nat), reader'.records = Append(rs, u)
            PROVE  Seen(reader'.records, Last(u)) /\ \A q : Seen(rs, q) => Seen(reader'.records, q)
        <5>1. /\ \E n \in DOMAIN Append(rs, u) : Append(rs, u)[n] = u
              /\ \A m \in DOMAIN rs : m \in DOMAIN Append(rs, u) /\ Append(rs, u)[m] = rs[m]
          BY <3>4, RecordReturned
        <5> QED
          BY <4>1, <5>1
      <4>2. CASE t = "full"
        BY <4>1, <4>2, <3>3, <3>5
      <4>3. CASE t = "last"
        BY <4>1, <4>3, <3>3, <3>5
      <4>4. CASE t \in {"first", "middle"}
        BY <4>4, <3>3
      <4> QED
        BY <3>3, <4>2, <4>3, <4>4 DEF Types
    <3>7. ASSUME NEW q \in DOMAIN emitted, emitted[q].type \in {"full", "last"},
                 NEW y \in DOMAIN file, EndsAt(file, emitted, y, q), y <= At'
          PROVE  Seen(reader'.records, q)
      <4>1. CASE y <= At
        BY <1>4, <2>1, <2>2, <3>6, <3>7, <4>1 DEF rs
      <4>2. CASE At < y
        <5> DEFINE i == y - At
        <5>1. i \in 1..size /\ At + i = y
          BY <2>n, <3>2, <3>7, <4>2
        <5> HIDE DEF i
        <5>2. file[y] = <<p, i>> /\ file[y] = <<q, SizeIn(emitted, q)>>
          BY <3>2, <3>7, <5>1 DEF EndsAt
        <5>3. q = p
          BY <5>2
        <5> QED
          BY <3>6, <3>7, <3>s, <5>3
      <4> QED
        BY <2>n, <3>2, <4>1, <4>2
    <3> QED
      BY <1>1, <2>1, <2>2, <2>3, <3>7
  <2>4. CASE /\ pc' = "done" /\ reader.eof /\ reader' = Take(Eof)
             /\ \/ Len(reader.buffer) < HeaderSize
                \/ \E p \in DOMAIN emitted : RecordAhead(p) /\ SizeIn(emitted, p) > Len(reader.buffer)
    <3>1. reader'.records = reader.records /\ reader'.buffer = <<>> /\ reader'.pos = reader.pos
      BY <2>4, TakesEof DEF Reads
    <3>2. At' = reader.pos /\ reader.pos = Len(file)
      <4>1. reader.pos \in Nat /\ Len(reader'.buffer) = 0
        BY <3>1, ReaderIsAt, EmptySeq DEF BufferInv
      <4>2. At' = reader.pos
        BY <3>1, <4>1 DEF At
      <4> QED
        BY <2>1, <2>4, <4>2 DEF BufferInv
    <3>3. ASSUME NEW q \in DOMAIN emitted, NEW y \in DOMAIN file, EndsAt(file, emitted, y, q), y <= At'
          PROVE  y <= At
      BY <2>1, <2>4, <3>2, <3>3, NoneAhead
    <3> QED
      BY <1>4, <2>1, <2>2, <3>1, <3>2, <3>3
  <2> QED
    BY <1>6, <2>1, <2>3, <2>4, CleanTurn
<1>7. CASE UNCHANGED vars
  <2>1. At' = At
    BY <1>7 DEF vars, At
  <2> QED
    BY <1>1, <1>2, <1>7, <2>1 DEF vars, SeenInv
<1>8. CASE (\E length \in Lengths : AddRecord(length)) \/ EmitPhysicalRecord \/ Reuse
  BY <1>1, <1>8 DEF AddRecord, EmitPhysicalRecord, Reuse
<1> QED
  BY <1>2, <1>3, <1>5, <1>6, <1>7, <1>8 DEF Next

-----------------------------------------------------------------------------
\* The inductive invariant with what holds when nothing failed.
ReadInv == LogInv /\ AlignInv /\ AtInv /\ TailInv /\ SeenInv

\* It holds at the beginning.
LEMMA ReadInit ==
    ASSUME Init PROVE ReadInv
<1>1. /\ file = <<>> /\ emitted = <<>> /\ pc = "idle" /\ writer.offset = 0
      /\ Len(file) = 0
  BY EmptySeq DEF Init
<1>2. AlignInv
  <2>1. Boundary(file, emitted, 0) /\ Aligned(file, emitted)
    BY <1>1 DEF Boundary, Aligned
  <2>2. OffsetOf(0, 0)
    BY NewIsAt DEF OffsetOf
  <2> QED
    BY <1>1, <2>1, <2>2 DEF AlignInv
<1>3. AtInv /\ TailInv /\ SeenInv
  BY <1>1 DEF AtInv, TailInv, SeenInv
<1> QED
  BY <1>2, <1>3, LogInit DEF ReadInv

\* Every step keeps it.
LEMMA ReadNext ==
    ASSUME ReadInv, [Next]_vars PROVE ReadInv'
<1>1. LogInv' /\ Typed' /\ Typed /\ WriterOK /\ BufferInv /\ FileOK(file, emitted)
  BY LogNext DEF ReadInv, LogInv
<1>2. AlignInv'
  BY <1>1, AlignNext DEF ReadInv
<1>3. AtInv'
  BY <1>1, AtNext DEF ReadInv
<1>4. TailInv'
  BY <1>1, TailNext DEF ReadInv
<1>5. SeenInv'
  BY <1>1, SeenNext DEF ReadInv
<1> QED
  BY <1>1, <1>2, <1>3, <1>4, <1>5 DEF ReadInv

\* A record that is in the file has been returned.
LEMMA ReadGivesRecords ==
    ASSUME ReadInv PROVE RecordsAreRead
<1>1. SUFFICES ASSUME pc = "done", failed = [appends |-> 0, reads |-> 0], ~crash.torn,
                      NEW r \in DOMAIN added, Whole(r)
               PROVE  \E n \in DOMAIN reader.records : Joins(reader.records[n], r)
  BY DEF RecordsAreRead
<1>2. Clean /\ LogInv
  BY <1>1 DEF Clean, ReadInv
<1>3. PICK q \in Parts(r) : emitted[q].type \in {"full", "last"}
  BY <1>1 DEF Whole
<1>4. q \in DOMAIN emitted /\ emitted[q].record = r
  BY DEF Parts
<1> DEFINE size == SizeIn(emitted, q)
<1>5. size \in Nat /\ size >= 1 /\ size = HeaderSize + emitted[q].length
  <2>1. size \in Nat /\ size >= HeaderSize /\ size = HeaderSize + emitted[q].length
    BY <1>2, <1>4, SizeOfRecord DEF LogInv, Typed, SizeIn
  <2> HIDE DEF size
  <2> QED
    BY <2>1, SizesOfBlocks
<1>6. Contains(file, <<q, size>>)
  <2>1. size \in 1..(HeaderSize + emitted[q].length)
    BY <1>5
  <2> QED
    BY <1>1, <2>1 DEF Whole
<1>7. PICK y \in DOMAIN file : file[y] = <<q, size>>
  <2>1. DOMAIN file = 1..Len(file)
    BY <1>2, LenProperties DEF LogInv, Typed
  <2> QED
    BY <1>6, <2>1 DEF Contains
<1>8. y <= At
  BY <1>1, <1>2, LenProperties DEF ReadInv, SeenInv, LogInv, Typed
<1>9. PICK n \in DOMAIN reader.records : Last(reader.records[n]) = q
  BY <1>1, <1>2, <1>3, <1>4, <1>7, <1>8 DEF ReadInv, SeenInv, EndsAt
<1> DEFINE s == reader.records[n]
<1>10. s \in Seq(Nat) /\ EndedIn(file, emitted, s)
  <2>1. reader.records \in Seq(Seq(Nat))
    BY <1>2 DEF LogInv, Typed, ReaderType
  <2>2. s \in Seq(Nat)
    BY <2>1, ElementOfSeq, LenProperties
  <2> QED
    BY <1>2, <2>2 DEF LogInv, RecordsInv
<1> HIDE DEF s
<1>11. PICK r2 \in DOMAIN added : Whole(r2) /\ Joins(s, r2)
  BY <1>2, <1>10, EndedIsWhole
<1>12. q \in ToSet(s)
  <2>1. Len(s) \in DOMAIN s
    BY <1>10, EmptySeq, LenProperties DEF EndedIn
  <2> QED
    BY <2>1, <1>9 DEF Last, ToSet, s
<1>13. r2 = r
  BY <1>4, <1>11, <1>12 DEF Joins, Parts
<1> QED
  BY <1>11, <1>13 DEF s

\* When no append and no read failed, ReadRecord (log_reader.cc:56) has
\* returned, at the end of the log, every record that is whole in the file,
\* wherever a crash cut it and also when the log was gone on with (Reuse).
THEOREM RecordsInTheLogAreRead == Spec => []RecordsAreRead
<1>1. Init => ReadInv
  BY ReadInit
<1>2. ReadInv /\ [Next]_vars => ReadInv'
  BY ReadNext
<1>3. ReadInv => RecordsAreRead
  BY ReadGivesRecords
<1> QED
  BY <1>1, <1>2, <1>3, PTL DEF Spec

\* No operation on the file has failed, and there was at most one crash, after
\* which the log is read.
CrashedOnly ==
    /\ failed.appends = 0 /\ failed.reads = 0
    /\ crash.count = 0 \/ (crash.count = 1 /\ pc \in {"reading", "done"})

\* A record begins only where the one before has ended.
Complete(e) ==
    \A p \in DOMAIN e : e[p].type \in {"full", "first"} /\ p > 1 => e[p - 1].type \in {"full", "last"}

\* The last record emitted has its last physical record.
EndsComplete(e) == e = <<>> \/ e[Len(e)].type \in {"full", "last"}

\* The file ends with the last physical record emitted.
EndsWithLast(f, e) == e = <<>> \/ EndsAt(f, e, Len(f), Len(e))

\* The invariant of a log that only a crash has cut.
CrashInv ==
    /\ pc \in {"reading", "done"} => crash.count >= 1
    /\ CrashedOnly =>
          /\ ~crash.torn /\ reader.reports = 0
          /\ Complete(emitted) /\ Follows(file, emitted, Types)
          /\ pc = "idle" \/ (pc = "adding" /\ writer.begin) => EndsComplete(emitted)
          /\ pc \in {"idle", "adding"} => EndsWithLast(file, emitted)

\* A log that only a crash has cut was one before the step.
LEMMA CrashedBefore ==
    ASSUME Typed, CrashInv, [Next]_vars, CrashedOnly'
    PROVE  CrashedOnly /\ ~EmitFails /\ ~ReadFails /\ ~Reuse
<1>1. /\ failed \in [appends : Nat, reads : Nat]
      /\ crash \in [count : Nat, machine : BOOLEAN, torn : BOOLEAN]
  BY DEF Typed
<1>2. /\ failed'.appends = 0 /\ failed'.reads = 0
      /\ crash'.count = 0 \/ (crash'.count = 1 /\ pc' \in {"reading", "done"})
  BY DEF CrashedOnly
<1>3. ~EmitFails
  <2>1. SUFFICES ASSUME EmitFails PROVE FALSE
    OBVIOUS
  <2>2. failed' = [failed EXCEPT !.appends = @ + 1]
    BY <2>1 DEF EmitFails
  <2>3. failed'.appends = failed.appends + 1 /\ failed.appends \in Nat
    BY <1>1, <2>2
  <2> QED
    BY <1>2, <2>3
<1>4. ~ReadFails
  <2>1. SUFFICES ASSUME ReadFails PROVE FALSE
    OBVIOUS
  <2>2. failed' = [failed EXCEPT !.reads = @ + 1]
    BY <2>1 DEF ReadFails
  <2>3. failed'.reads = failed.reads + 1 /\ failed.reads \in Nat
    BY <1>1, <2>2
  <2> QED
    BY <1>2, <2>3
<1>5. ~Reuse
  <2>1. SUFFICES ASSUME Reuse PROVE FALSE
    OBVIOUS
  <2>2. pc = "done" /\ pc' = "idle" /\ crash' = [crash EXCEPT !.torn = @ \/ ~EndsWhole]
    BY <2>1 DEF Reuse
  <2>3. crash'.count = crash.count /\ crash.count >= 1 /\ crash.count \in Nat
    BY <1>1, <2>2 DEF CrashInv
  <2> QED
    BY <1>2, <2>2, <2>3
<1>6. CASE Crash
  <2>1. failed' = failed
    BY <1>6 DEF Crash
  <2>2. PICK n : crash' = [crash EXCEPT !.count = @ + 1, !.machine = @ \/ n < Len(file)]
    BY <1>6 DEF Crash
  <2>3. crash'.count = crash.count + 1 /\ crash.count \in Nat
    BY <1>1, <2>2
  <2>4. crash.count = 0
    BY <1>2, <2>3
  <2> QED
    BY <1>2, <1>3, <1>4, <1>5, <2>1, <2>4 DEF CrashedOnly
<1>7. CASE FillBuffer \/ ReadPhysicalRecord
  <2>1. failed' = failed /\ crash' = crash /\ pc = "reading"
    BY <1>7 DEF FillBuffer, ReadPhysicalRecord
  <2> QED
    BY <1>2, <1>3, <1>4, <1>5, <2>1 DEF CrashedOnly
<1>8. CASE (\E length \in Lengths : AddRecord(length)) \/ EmitPhysicalRecord
  <2>1. failed' = failed /\ crash' = crash /\ pc' \in {"idle", "adding"}
    BY <1>8 DEF AddRecord, EmitPhysicalRecord
  <2> QED
    BY <1>2, <1>3, <1>4, <1>5, <2>1 DEF CrashedOnly
<1>9. CASE UNCHANGED vars
  BY <1>2, <1>3, <1>4, <1>5, <1>9 DEF CrashedOnly, vars
<1> QED
  BY <1>3, <1>4, <1>5, <1>6, <1>7, <1>8, <1>9 DEF Next

\* A turn of the loop of AddRecord, when nothing failed before.
LEMMA EmissionIsComplete ==
    ASSUME Typed, WriterOK, FileOK(file, emitted), pc = "adding", Complete(emitted),
           Follows(file, emitted, Types), writer.begin => EndsComplete(emitted),
           EndsWithLast(file, emitted)
    PROVE  LET e == Append(emitted, Fragment)
               g == file \o Bytes
           IN  /\ Complete(e) /\ BytesOK(g, e) /\ Follows(g, e, Types) /\ EndsWithLast(g, e)
               /\ writer.left = Fragment.length => EndsComplete(e)
<1> DEFINE e == Append(emitted, Fragment)
           g == file \o Bytes
           n == Len(emitted) + 1
           t == Len(Trailer)
<1>1. /\ file \in Seq(Pair) /\ emitted \in Seq(PhysicalRecord) /\ Fragment \in PhysicalRecord
      /\ DOMAIN emitted = 1..Len(emitted) /\ Len(emitted) \in Nat
      /\ BytesOK(file, emitted)
  BY NextFragment, LenProperties DEF Typed, FileOK
<1>2. /\ Longer(e, emitted) /\ Len(e) = n /\ n \in DOMAIN e /\ e[n] = Fragment /\ e \in Seq(PhysicalRecord)
      /\ \A p \in DOMAIN e : p = n \/ p \in DOMAIN emitted
      /\ SizeIn(e, n) = HeaderSize + Fragment.length
  BY <1>1, AppendIsLonger DEF Longer, SizeIn
<1>3. /\ EndsAt(g, e, Len(g), Len(e))
      /\ e[Len(e)].type \in {"full", "last"} <=> writer.left = Fragment.length
  BY WriterGoesOn
<1>4. BytesOK(file, e) /\ Follows(file, e, Types)
  <2> HIDE DEF e
  <2> QED
    BY <1>1, <1>2, LongerIsOK
<1>5. t \in Nat /\ t < HeaderSize /\ Extended(g, file, t, n, SizeIn(e, n))
  BY <1>2, NextBytes
<1>6. \A x \in DOMAIN file : file[x][1] < n
  <2>1. ASSUME NEW x \in DOMAIN file PROVE file[x][1] < n
    <3>1. CASE file[x] = Zero
      BY <3>1, <1>1 DEF Zero
    <3>2. CASE file[x][1] \in DOMAIN emitted
      BY <3>2, <1>1
    <3> QED
      BY <3>1, <3>2, <1>1 DEF BytesOK
  <2> QED
    BY <2>1
<1>7. n > 1 => n - 1 \in DOMAIN emitted /\ n - 1 = Len(emitted) /\ emitted # <<>>
  <2>1. n > 1 => Len(emitted) >= 1 /\ n - 1 = Len(emitted)
    BY <1>1
  <2> QED
    BY <2>1, <1>1, EmptySeq
<1>8. n > 1 => EndsAt(file, e, Len(file), n - 1)
  <2>1. SUFFICES ASSUME n > 1 PROVE EndsAt(file, e, Len(file), n - 1)
    OBVIOUS
  <2>2. EndsAt(file, emitted, Len(file), n - 1)
    BY <2>1, <1>7 DEF EndsWithLast
  <2>3. SizeIn(e, n - 1) = SizeIn(emitted, n - 1)
    BY <2>1, <1>2, <1>7 DEF Longer
  <2> QED
    BY <2>2, <2>3 DEF EndsAt
<1>9. Complete(e)
  <2>1. ASSUME NEW p \in DOMAIN e, e[p].type \in {"full", "first"}, p > 1
        PROVE  e[p - 1].type \in {"full", "last"}
    <3>1. CASE p = n
      <4>1. writer.begin
        BY <2>1, <3>1, <1>2, NextFragment
      <4>2. emitted[n - 1].type \in {"full", "last"}
        BY <4>1, <2>1, <3>1, <1>7 DEF EndsComplete
      <4>3. e[n - 1] = emitted[n - 1]
        BY <2>1, <3>1, <1>2, <1>7 DEF Longer
      <4> QED
        BY <3>1, <4>2, <4>3
    <3>2. CASE p \in DOMAIN emitted
      <4>1. p - 1 \in DOMAIN emitted
        BY <1>1, <2>1, <3>2
      <4>2. e[p] = emitted[p] /\ e[p - 1] = emitted[p - 1]
        BY <1>2, <3>2, <4>1 DEF Longer
      <4> QED
        BY <2>1, <3>2, <4>2 DEF Complete
    <3> QED
      BY <1>2, <3>1, <3>2
  <2> QED
    BY <2>1 DEF Complete
<1> HIDE DEF e, g, n, t
<1>10. BytesOK(g, e) /\ Follows(g, e, Types)
  BY <1>1, <1>2, <1>4, <1>5, <1>6, <1>8, ExtendedIsOK
<1> QED
  BY <1>3, <1>9, <1>10 DEF e, g, EndsComplete, EndsWithLast

\* No record is unfinished where another one begins.
LEMMA NoneUnfinished ==
    ASSUME CleanReading, ScratchInv, Complete(emitted), Follows(file, emitted, Types),
           Len(reader.buffer) >= HeaderSize,
           NEW p, RecordAhead(p), emitted[p].type \in {"full", "first"}
    PROVE  reader.scratch = <<>>
<1>1. SUFFICES ASSUME reader.scratch # <<>> PROVE FALSE
  OBVIOUS
<1> DEFINE a == At
           s == reader.scratch
           q == Last(s)
           x == a + 1
<1>2. /\ file \in Seq(Pair) /\ emitted \in Seq(PhysicalRecord) /\ a \in Nat /\ s \in Seq(Nat)
      /\ BytesOK(file, emitted)
  BY ReaderIsAt DEF CleanReading, BufferInv, Typed, ReaderType, FileOK
<1>3. emitted[q].type \in {"first", "middle"}
  BY <1>1 DEF ScratchInv
<1>4. PICK y \in DOMAIN file : EndsAt(file, emitted, y, q) /\ y <= a /\ a - y < HeaderSize
  BY <1>1 DEF ScratchInv, CleanReading
<1>5. q \in DOMAIN emitted
  <2>1. Len(s) \in DOMAIN s
    BY <1>1, <1>2, EmptySeq, LenProperties
  <2> QED
    BY <2>1 DEF ScratchInv, Begun, Last
<1>6. p \in DOMAIN emitted /\ x \in DOMAIN file /\ file[x] = <<p, 1>>
  BY DEF RecordAhead
<1> HIDE DEF q, a, s
<1>7. file[x][1] = p /\ file[x][2] = 1 /\ file[x] # Zero
  BY <1>6 DEF Zero
<1>8. p \in Nat /\ q \in Nat /\ p >= 1 /\ q >= 1 /\ y \in Nat /\ x \in Nat /\ y < x
  BY <1>2, <1>4, <1>5, <1>6, LenProperties
<1>9. CASE p > 1
  <2>1. emitted[p].type \in Types
    BY <1>2, <1>6, SizeOfRecord
  <2>2. PICK z \in DOMAIN file : /\ z < x /\ EndsAt(file, emitted, z, p - 1) /\ Padding(file, z, x)
    BY <1>6, <1>7, <1>9, <2>1 DEF Follows
  <2>3. z \in Nat /\ z <= a
    BY <1>2, <2>2, LenProperties
  <2>4. p - 1 \in DOMAIN emitted
    <3>1. DOMAIN emitted = 1..Len(emitted) /\ Len(emitted) \in Nat
      BY <1>2, LenProperties
    <3> QED
      BY <3>1, <1>6, <1>9
  <2>5. q = p - 1
    BY <1>2, <1>4, <1>5, <1>6, <2>2, <2>3, <2>4, NextIsNext
  <2>6. emitted[p - 1].type \in {"full", "last"}
    BY <1>6, <1>9 DEF Complete
  <2> QED
    BY <1>3, <2>5, <2>6
<1>10. CASE p = 1
  <2> DEFINE size == SizeIn(emitted, q)
  <2>1. file[y] = <<q, size>> /\ size \in Nat /\ size >= HeaderSize
    BY <1>2, <1>4, <1>5, SizeOfRecord DEF EndsAt
  <2> HIDE DEF size
  <2>2. file[y][1] = q /\ file[y][2] = size /\ file[y] # Zero /\ size >= 1
    BY <2>1, SizesOfBlocks DEF Zero
  <2> HIDE DEF x
  <2>a. /\ file[y][1] < file[x][1]
           \/ (file[y][1] = file[x][1] /\ file[x][2] - file[y][2] = x - y)
    BY <1>2, <1>6, <1>7, <1>8, <2>2 DEF BytesOK
  <2>3. q < p \/ (q = p /\ 1 - size = x - y)
    BY <1>7, <2>2, <2>a
  <2>4. FALSE
    BY <2>1, <2>2, <2>3, <1>8, <1>10
  <2> QED
    BY <2>4
<1> QED
  BY <1>8, <1>9, <1>10

\* The turns of the reader report nothing.
LEMMA NothingIsReported ==
    ASSUME CleanReading, ScratchInv, TailInv, Complete(emitted), Follows(file, emitted, Types),
           FillBuffer \/ ReadPhysicalRecord
    PROVE  reader'.reports = reader.reports
<1>1. Typed /\ BufferOK
  BY DEF CleanReading, BufferInv
<1>2. CASE FillBuffer
  BY <1>1, <1>2, FilledBuffer
<1>3. CASE ReadPhysicalRecord
  <2>1. CASE \E f \in Physical : IsIntact(f) /\ RecordAhead(f.p) /\ reader' = Take(f)
    <3>1. PICK f \in Physical : IsIntact(f) /\ RecordAhead(f.p) /\ reader' = Take(f)
      BY <2>1
    <3> DEFINE p == f.p
               t == emitted[p].type
    <3>2. t \in Types
      BY <1>1, <3>1, TakesIntact
    <3>3. t \in {"middle", "last"} => reader.inFragmented
      BY <3>1, ScratchGoesOn
    <3>4. t \in {"full", "first"} => ~reader.inFragmented
      <4>1. Len(reader.buffer) >= HeaderSize
        <5> DEFINE l == Len(reader.buffer)
                   size == SizeIn(emitted, p)
        <5>1. l \in Nat /\ size \in Nat /\ size >= HeaderSize /\ size <= l
          BY <1>1, <3>1, HeadOfBuffer
        <5> HIDE DEF l, size
        <5>2. l >= HeaderSize
          BY <5>1, SizesOfBlocks
        <5> QED
          BY <5>2 DEF l
      <4>2. t \in {"full", "first"} => reader.scratch = <<>>
        BY <3>1, <4>1, NoneUnfinished
      <4> QED
        BY <4>2 DEF CleanReading, BufferInv
    <3> QED
      BY <1>1, <3>1, <3>2, <3>3, <3>4, TakesIntact DEF Types
  <2>2. CASE reader' = Take(Eof)
    BY <1>1, <2>2, TakesEof
  <2> QED
    BY <1>3, <2>1, <2>2, CleanTurn
<1> QED
  BY <1>2, <1>3

\* Every step keeps it.
LEMMA CrashNext ==
    ASSUME ReadInv, CrashInv, Typed', [Next]_vars
    PROVE  CrashInv'
<1>t. /\ Typed /\ WriterOK /\ FileOK(file, emitted) /\ BytesOK(file, emitted)
      /\ file \in Seq(Pair) /\ emitted \in Seq(PhysicalRecord)
      /\ reader \in ReaderType
      /\ crash \in [count : Nat, machine : BOOLEAN, torn : BOOLEAN]
  BY DEF ReadInv, LogInv, FileOK, Typed
<1>c. pc' \in {"reading", "done"} => crash'.count >= 1
  <2>1. CASE Crash
    <3>1. PICK n : crash' = [crash EXCEPT !.count = @ + 1, !.machine = @ \/ n < Len(file)]
      BY <2>1 DEF Crash
    <3>2. crash'.count = crash.count + 1 /\ crash.count \in Nat
      BY <1>t, <3>1
    <3> QED
      BY <3>2
  <2>2. CASE FillBuffer \/ ReadFails \/ ReadPhysicalRecord
    BY <2>2 DEF FillBuffer, ReadFails, ReadPhysicalRecord, CrashInv
  <2>3. CASE (\E length \in Lengths : AddRecord(length)) \/ EmitPhysicalRecord \/ EmitFails \/ Reuse
    BY <2>3 DEF AddRecord, EmitPhysicalRecord, EmitFails, Reuse
  <2>4. CASE UNCHANGED vars
    BY <2>4 DEF vars, CrashInv
  <2> QED
    BY <2>1, <2>2, <2>3, <2>4 DEF Next
<1>1. SUFFICES ASSUME CrashedOnly'
               PROVE  /\ ~crash'.torn /\ reader'.reports = 0
                      /\ Complete(emitted') /\ Follows(file', emitted', Types)
                      /\ pc' = "idle" \/ (pc' = "adding" /\ writer'.begin) => EndsComplete(emitted')
                      /\ pc' \in {"idle", "adding"} => EndsWithLast(file', emitted')
  BY <1>c DEF CrashInv, Complete, Follows, EndsComplete, EndsWithLast, EndsAt, SizeIn, Padding
<1>2. CrashedOnly /\ ~EmitFails /\ ~ReadFails /\ ~Reuse
  BY <1>1, <1>t, CrashedBefore
<1>3. /\ ~crash.torn /\ reader.reports = 0
      /\ Complete(emitted) /\ Follows(file, emitted, Types)
      /\ pc = "idle" \/ (pc = "adding" /\ writer.begin) => EndsComplete(emitted)
      /\ pc \in {"idle", "adding"} => EndsWithLast(file, emitted)
  BY <1>2 DEF CrashInv
<1>4. ASSUME NEW length \in Lengths, AddRecord(length)
      PROVE  /\ pc = "idle" /\ UNCHANGED <<file, emitted, reader, crash>> /\ pc' = "adding"
  BY <1>4 DEF AddRecord
<1>5. CASE EmitPhysicalRecord
  <2>1. /\ pc = "adding" /\ file' = file \o Bytes /\ emitted' = Append(emitted, Fragment)
        /\ reader' = reader /\ crash' = crash /\ writer'.begin = FALSE
        /\ pc' = "idle" => writer'.left = 0
        /\ writer'.left = writer.left - Fragment.length
    BY <1>5 DEF EmitPhysicalRecord
  <2>2. pc' = "idle" => writer.left = Fragment.length
    <3> DEFINE l == writer.left
               k == Fragment.length
    <3>1. l \in Nat /\ k \in Nat
      BY <1>t, NextFragment DEF Typed
    <3>2. pc' = "idle" => l - k = 0
      BY <2>1
    <3> HIDE DEF l, k
    <3>3. pc' = "idle" => l = k
      BY <3>1, <3>2
    <3> QED
      BY <3>3 DEF l, k
  <2> QED
    BY <1>t, <1>3, <2>1, <2>2, EmissionIsComplete
<1>6. CASE Crash
  <2>1. pc' = "reading" /\ reader' = NewReader
    BY <1>6 DEF Crash
  <2>2. crash'.torn = crash.torn
    <3>1. PICK n : crash' = [crash EXCEPT !.count = @ + 1, !.machine = @ \/ n < Len(file)]
      BY <1>6 DEF Crash
    <3> QED
      BY <1>t, <3>1
  <2>3. Complete(emitted') /\ Follows(file', emitted', Types)
    <3>1. CASE pc = "adding"
      <4> DEFINE e == Append(emitted, Fragment)
                 g == file \o Bytes
      <4>1. Cut(file', g) /\ emitted' = e
        BY <1>6, <1>t, <3>1, EmissionSteps DEF Emission
      <4>2. Complete(e) /\ BytesOK(g, e) /\ Follows(g, e, Types)
        BY <1>t, <1>3, <3>1, EmissionIsComplete
      <4>3. g \in Seq(Pair) /\ e \in Seq(PhysicalRecord)
        BY <1>t, NextFragment, AppendProperties, EmissionSteps
      <4> HIDE DEF e, g
      <4>4. Follows(file', e, Types)
        BY <4>1, <4>2, <4>3, CutIsOK
      <4> QED
        BY <4>1, <4>2, <4>4
    <3>2. CASE pc # "adding"
      <4>1. Cut(file', file) /\ emitted' = emitted
        BY <1>6, <1>t, <3>2, EmissionSteps
      <4>2. Follows(file', emitted, Types)
        BY <1>t, <1>3, <4>1, CutIsOK
      <4> QED
        BY <1>3, <4>1, <4>2
    <3> QED
      BY <3>1, <3>2
  <2> QED
    BY <1>3, <2>1, <2>2, <2>3, NewReaderIs
<1>7. CASE FillBuffer \/ ReadPhysicalRecord
  <2>1. /\ pc = "reading" /\ UNCHANGED <<file, emitted, crash>> /\ pc' \in {"reading", "done"}
    <3>1. CASE ReadPhysicalRecord
      BY <3>1 DEF ReadPhysicalRecord
    <3> QED
      BY <1>7, <3>1 DEF FillBuffer
  <2>2. CleanReading /\ ScratchInv /\ TailInv
    BY <1>2, <1>3, <2>1 DEF CleanReading, ReadInv, LogInv, Clean, CrashedOnly
  <2>3. reader'.reports = reader.reports
    BY <1>3, <1>7, <2>2, NothingIsReported
  <2> QED
    BY <1>3, <2>1, <2>3
<1>8. CASE UNCHANGED vars
  BY <1>3, <1>8 DEF vars
<1> QED
  BY <1>2, <1>3, <1>4, <1>5, <1>6, <1>7, <1>8 DEF Next

\* What the invariant says of the reports.
LEMMA CrashGivesNoReport ==
    ASSUME ReadInv, CrashInv PROVE CrashIsNoCorruption
<1>1. SUFFICES ASSUME failed = [appends |-> 0, reads |-> 0], crash.count = 1
               PROVE  reader.reports = 0
  BY DEF CrashIsNoCorruption
<1>2. pc \in {"idle", "adding"} => reader = NewReader
  BY DEF ReadInv, LogInv, WriterOK
<1>3. pc \in {"reading", "done"} => reader.reports = 0
  BY <1>1 DEF CrashInv, CrashedOnly
<1> QED
  BY <1>2, <1>3, NewReaderIs DEF ReadInv, LogInv, Typed

\* After one crash and no failure the reader reports no corruption
\* (log_reader.cc:229, :207, :146): a record that the crash cut off counts as
\* the end of the file.
THEOREM NoCorruptionReported == Spec => []CrashIsNoCorruption
<1> DEFINE Inv == ReadInv /\ CrashInv
<1>1. Init => Inv
  <2>1. SUFFICES ASSUME Init PROVE CrashInv
    BY ReadInit
  <2>2. /\ emitted = <<>> /\ file = <<>> /\ pc = "idle" /\ reader = NewReader /\ ~crash.torn
    BY <2>1 DEF Init
  <2> QED
    BY <2>2, NewReaderIs DEF CrashInv, Complete, EndsComplete, EndsWithLast, Follows
<1>2. Inv /\ [Next]_vars => Inv'
  <2>1. SUFFICES ASSUME ReadInv, CrashInv, [Next]_vars PROVE ReadInv' /\ CrashInv'
    OBVIOUS
  <2>2. ReadInv' /\ Typed'
    BY <2>1, ReadNext DEF ReadInv, LogInv
  <2> QED
    BY <2>1, <2>2, CrashNext
<1>3. Inv => CrashIsNoCorruption
  BY CrashGivesNoReport
<1> QED
  BY <1>1, <1>2, <1>3, PTL DEF Spec
=============================================================================
