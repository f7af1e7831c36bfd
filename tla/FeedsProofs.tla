----------------------------- MODULE FeedsProofs -----------------------------
(***************************************************************************)
(* FeedsInv is an inductive invariant of Feeds, for lists of any length    *)
(* and any number of screens and changes: the coupon table stays in range, *)
(* and what a screen shows ends with the newest list.                      *)
(***************************************************************************)
EXTENDS FeedsProperties, SequenceTheorems, TLAPS

\* A controller on the stack, and an event on its way to one.
Screens == [topic : Topics, data : Rows, rows : Nat]
Events == [to : DOMAIN stack, list : Lists]

-----------------------------------------------------------------------------
(* Sequences. *)

\* What is appended is a suffix.
LEMMA SuffixOfConcat ==
    ASSUME NEW S, NEW s \in Seq(S), NEW t \in Seq(S)
    PROVE  IsSuffix(t, s \o t)
<1> DEFINE u == s \o t
           n == Len(t)
           m == Len(s)
<1>1. /\ u \in Seq(S) /\ Len(u) = m + n /\ n \in Nat /\ m \in Nat
      /\ \A i \in 1..n : u[m + i] = t[i]
  BY ConcatProperties
<1>2. /\ Reverse(t) \in Seq(S) /\ Len(Reverse(t)) = n
      /\ \A i \in 1..n : Reverse(t)[i] = t[(n - i) + 1]
  BY <1>1 DEF Reverse
<1>3. /\ Reverse(u) \in Seq(S) /\ Len(Reverse(u)) = m + n
      /\ \A i \in 1..m + n : Reverse(u)[i] = u[(m + n - i) + 1]
  BY <1>1 DEF Reverse
<1>4. \A i \in 1..n : Reverse(u)[i] = Reverse(t)[i]
  <2> SUFFICES ASSUME NEW i \in 1..n PROVE Reverse(u)[i] = Reverse(t)[i]
    OBVIOUS
  <2>1. (n - i) + 1 \in 1..n /\ (m + n - i) + 1 = m + ((n - i) + 1) /\ i \in 1..m + n
    BY <1>1
  <2> QED BY <2>1, <1>1, <1>2, <1>3
<1> HIDE DEF u, n, m
<1> DEFINE a == Reverse(t)
           b == Reverse(u)
<1>5. /\ a \in Seq(S) /\ Len(a) = n
      /\ b \in Seq(S) /\ Len(b) = m + n
      /\ \A i \in 1..n : b[i] = a[i]
  BY <1>2, <1>3, <1>4
<1> HIDE DEF a, b
<1>6. SubSeq(a, 1, n) = SubSeq(b, 1, n)
  BY <1>1, <1>5
<1>7. IsPrefix(a, b)
  BY <1>1, <1>5, <1>6 DEF IsPrefix
<1> QED BY <1>7 DEF IsSuffix, a, b, u

\* AgendaVC: all rows but the last blank one.
LEMMA ButLast ==
    ASSUME NEW S, NEW s \in Seq(S), NEW x \in S
    PROVE  SubSeq(Append(s, x), 1, Len(Append(s, x)) - 1) = s
  BY AppendProperties, SubSeqProperties, SeqEqual

\* The lists of the database are sequences of items, and of rows.
LEMMA ListsAreSeqs ==
    ASSUME NEW list \in Lists
    PROVE  list \in Seq(Items) /\ list \in Rows /\ Len(list) \in Nat
<1>1. PICK n \in 0..MaxLength : list \in [1..n -> Items]
  BY BoundsAssumption DEF Lists, BoundedSeq, SeqOf
<1>2. n \in Nat
  BY BoundsAssumption
<1>3. list \in Seq(Items)
  BY <1>1, <1>2
<1> QED BY <1>3 DEF Rows

-----------------------------------------------------------------------------
(* What a step keeps. *)

\* The types, in the form that the steps use.
LEMMA Types ==
    ASSUME TypeOK
    PROVE  /\ stack \in Seq(Screens) /\ table \in Seq(Items) /\ mainq \in Seq(Events)
           /\ \A i \in DOMAIN stack : /\ stack[i] \in Screens /\ stack[i].topic \in Topics
                                      /\ stack[i].data \in Rows /\ stack[i].rows \in Nat
           /\ \A k \in DOMAIN mainq : mainq[k].to \in DOMAIN stack /\ mainq[k].list \in Lists
<1>1. /\ stack \in Seq(Screens) /\ table \in Seq(Items) /\ mainq \in Seq(Events)
  BY DEF TypeOK, Screens, Events
<1>2. \A i \in DOMAIN stack : stack[i] \in Screens
  BY <1>1
<1>3. \A k \in DOMAIN mainq : mainq[k] \in Events
  BY <1>1
<1> QED BY <1>1, <1>2, <1>3 DEF Screens, Events

\* A new controller has nothing on its way, or the copy.
LEMMA VisitInv ==
    ASSUME FeedsInv, NEW f \in Topics, Visit(f)
    PROVE  FeedsInv'
<1>a. TypeOK
  BY DEF FeedsInv
<1>b. Len(stack) \in Nat /\ Len(mainq) \in Nat
  BY <1>a, Types
<1>n. PICK n \in Nat : n = Len(stack) + 1
  BY <1>b
<1>m. PICK m \in Nat : m = Len(mainq) + 1
  BY <1>b
<1> DEFINE event == [to |-> n, list |-> seen[f]]
<1>0. /\ n \in Nat /\ m \in Nat
      /\ \A i \in DOMAIN stack : stack[i].topic \in Topics /\ i < n
      /\ \A k \in DOMAIN mainq : mainq[k].to \in DOMAIN stack /\ k < m
  BY <1>a, <1>n, <1>m, Types
<1>1. /\ stack' \in Seq(Screens) /\ Len(stack') = n /\ stack'[n] = Opened(f)
      /\ DOMAIN stack' = DOMAIN stack \cup {n}
      /\ \A i \in DOMAIN stack : stack'[i] = stack[i]
  <2>1. Opened(f) \in Screens
    BY DEF Opened, Screens, Rows
  <2>2. stack' = Append(stack, Opened(f)) /\ stack \in Seq(Screens)
    BY <1>a, Types DEF Visit
  <2> QED BY <1>n, <2>1, <2>2
<1>2. CASE listen[f] = "synced"
  <2>1. /\ mainq' = Append(mainq, event) /\ listen' = listen /\ seen' = seen
        /\ table' = IF f = "coupons" THEN <<>> ELSE table
    <3>1. listen \in [Topics -> {"none", "wait", "synced"}]
      BY <1>a DEF TypeOK
    <3> QED BY <1>2, <1>n, <3>1 DEF Visit
  <2>2. mainq \in Seq(Events') /\ event \in Events'
    <3>1. seen[f] \in Lists
      BY <1>a DEF TypeOK
    <3>2. event \in Events'
      BY <1>1, <3>1 DEF Events
    <3>3. Events \subseteq Events'
      BY <1>1 DEF Events
    <3> QED BY <1>a, Types, <3>2, <3>3
  <2>3. /\ mainq' \in Seq(Events') /\ Len(mainq') = m /\ mainq'[m] = event
        /\ DOMAIN mainq' = DOMAIN mainq \cup {m}
        /\ \A k \in DOMAIN mainq : mainq'[k] = mainq[k]
    BY <1>m, <2>1, <2>2
  <2>4. TypeOK'
    BY <1>1, <2>1, <2>3, <1>a DEF TypeOK, Visit, Screens, Events
  <2> HIDE DEF event
  <2>5. \A k \in DOMAIN mainq' : listen'[stack'[mainq'[k].to].topic] = "synced"
    BY <1>0, <1>1, <1>2, <2>1, <2>3 DEF FeedsInv, Opened, event
  <2>6. ASSUME NEW i \in DOMAIN stack', stack'[i].topic = "coupons" => i = Len(stack')
        PROVE  UpToDate(i)'
    <3>1. CASE i = n
      <4>1. /\ Fills(m, n)' /\ m \in DOMAIN mainq'
            /\ mainq'[m].to = n /\ mainq'[m].list = seen'[stack'[n].topic]
        BY <1>1, <2>1, <2>3 DEF Fills, event, Opened
      <4>2. \A k \in DOMAIN mainq' : k = m \/ k < m
        BY <1>0, <2>3
      <4>3. \A k \in DOMAIN mainq' : m <= k => k = m
        BY <4>2, <1>0, <2>3
      <4> QED BY <3>1, <4>1, <4>3 DEF UpToDate
    <3>2. CASE i \in DOMAIN stack
      <4>1. stack'[i] = stack[i] /\ i # n /\ stack[i].topic # "coupons"
        BY <3>2, <1>0, <1>1, <2>6
      <4>2. \A k \in DOMAIN mainq : Fills(k, i)' <=> Fills(k, i)
        BY <4>1, <2>3 DEF Fills
      <4>3. ~Fills(m, i)'
        BY <4>1, <2>3 DEF Fills, event
      <4>4. UpToDate(i) /\ (Shown(stack[i]))' = Shown(stack[i])
        BY <3>2, <4>1 DEF FeedsInv, Shown
      <4> QED BY <4>1, <4>2, <4>3, <4>4, <2>1, <2>3 DEF UpToDate
    <3> QED BY <3>1, <3>2, <1>1
  <2>7. RowsInRange'
    <3>1. Top' = Opened(f) /\ (Len(table))' \in Nat
      BY <1>1, <2>4, Types DEF Top, TypeOK
    <3> QED BY <3>1 DEF RowsInRange, Opened
  <2> QED BY <2>4, <2>5, <2>6, <2>7 DEF FeedsInv
<1>3. CASE listen[f] # "synced"
  <2>1. /\ mainq' = mainq /\ seen' = seen
        /\ listen' \in [Topics -> {"none", "wait", "synced"}]
        /\ listen'[f] # "synced"
        /\ \A g \in Topics : g # f => listen'[g] = listen[g]
        /\ f # "coupons" => table' = table
    <3>1. listen \in [Topics -> {"none", "wait", "synced"}]
      BY <1>a DEF TypeOK
    <3> QED BY <1>3, <3>1 DEF Visit
  <2>2. TypeOK'
    <3>1. table' \in Seq(Items)
      BY <1>a DEF TypeOK, Visit
    <3>2. mainq' \in Seq(Events')
      <4>1. Events \subseteq Events'
        BY <1>1 DEF Events
      <4> QED BY <4>1, <2>1, <1>a, Types
    <3> QED BY <1>1, <2>1, <3>1, <3>2, <1>a DEF TypeOK, Visit, Screens, Events
  <2>3. \A k \in DOMAIN mainq' : listen'[stack'[mainq'[k].to].topic] = "synced"
    BY <1>0, <1>1, <1>3, <2>1 DEF FeedsInv
  <2>4. \A k \in DOMAIN mainq : stack[mainq[k].to].topic # f /\ mainq[k].to # n
    BY <1>0, <1>1, <1>3 DEF FeedsInv
  <2>5. ASSUME NEW i \in DOMAIN stack', stack'[i].topic = "coupons" => i = Len(stack')
        PROVE  UpToDate(i)'
    <3>1. CASE i = n
      <4>1. stack'[i].topic = f
        BY <3>1, <1>1 DEF Opened
      <4>2. \A k \in DOMAIN mainq' : ~Fills(k, i)'
        BY <3>1, <4>1, <2>1, <2>4, <1>0, <1>1 DEF Fills
      <4> QED BY <4>1, <4>2, <2>1 DEF UpToDate
    <3>2. CASE i \in DOMAIN stack
      <4>1. stack'[i] = stack[i] /\ i # n /\ stack[i].topic # "coupons" /\ stack[i].topic \in Topics
        BY <3>2, <1>0, <1>1, <2>5
      <4>2. \A k \in DOMAIN mainq : Fills(k, i)' <=> Fills(k, i)
        BY <4>1, <2>1 DEF Fills
      <4>3. UpToDate(i) /\ (Shown(stack[i]))' = Shown(stack[i])
        BY <3>2, <4>1 DEF FeedsInv, Shown
      <4>4. listen'[stack[i].topic] = "synced" => listen[stack[i].topic] = "synced"
        BY <4>1, <2>1
      <4> QED BY <4>1, <4>2, <4>3, <4>4, <2>1 DEF UpToDate
    <3> QED BY <3>1, <3>2, <1>1
  <2>6. RowsInRange'
    <3>1. Top' = Opened(f) /\ (Len(table))' \in Nat
      BY <1>1, <2>2, Types DEF Top, TypeOK
    <3> QED BY <3>1 DEF RowsInRange, Opened
  <2> QED BY <2>2, <2>3, <2>5, <2>6 DEF FeedsInv
<1> QED BY <1>2, <1>3

\* Reloading the coupon table changes nothing that is still to come.
LEMMA ViewDidAppearInv ==
    ASSUME FeedsInv, ViewDidAppear
    PROVE  FeedsInv'
<1>a. TypeOK
  BY DEF FeedsInv
<1>n. PICK n \in Nat : n = Len(stack)
  BY <1>a, Types
<1>t. PICK c \in Screens : c = [stack[n] EXCEPT !.rows = Len(table)]
  <2>1. n \in DOMAIN stack /\ Len(table) \in Nat
    BY <1>a, <1>n, Types DEF ViewDidAppear, Alive, TypeOK
  <2> QED BY <2>1, <1>a, Types DEF Screens
<1>1. /\ stack' \in Seq(Screens) /\ Len(stack') = n /\ DOMAIN stack' = DOMAIN stack
      /\ stack'[n] = c /\ n \in DOMAIN stack
      /\ \A i \in DOMAIN stack : i # n => stack'[i] = stack[i]
  BY <1>a, <1>n, <1>t, Types DEF ViewDidAppear, Alive
<1>2. /\ c.topic = "coupons" /\ c.rows = Len(table)
      /\ \A i \in DOMAIN stack : stack'[i].topic = stack[i].topic
  BY <1>a, <1>n, <1>t, <1>1, Types DEF ViewDidAppear, Top, Screens
<1>3. /\ mainq' = mainq /\ listen' = listen /\ seen' = seen /\ table' = table
      /\ server' = server /\ changes' = changes
  BY DEF ViewDidAppear
<1>4. TypeOK'
  BY <1>a, <1>1, <1>3 DEF TypeOK, Screens
<1>5. \A k \in DOMAIN mainq : \A i \in DOMAIN stack : Fills(k, i)' <=> Fills(k, i)
  BY <1>a, <1>2, <1>3, Types DEF Fills
<1>6. ASSUME NEW i \in DOMAIN stack', stack'[i].topic = "coupons" => i = Len(stack')
      PROVE  UpToDate(i)'
  <2>1. UpToDate(i) /\ i \in DOMAIN stack
    BY <1>1, <1>2, <1>6, <1>n DEF FeedsInv
  <2>2. CASE i = n
    <3>1. stack[n].topic = "coupons"
      BY <1>1, <1>2
    <3>2. stack[n].rows = Len(table) => (Shown(stack[n]))' = Shown(stack[n])
      BY <1>1, <1>2, <1>3, <3>1 DEF Shown
    <3> QED BY <2>1, <2>2, <3>1, <3>2, <1>1, <1>2, <1>3, <1>5 DEF UpToDate
  <2>3. CASE i # n
    <3>1. stack'[i] = stack[i] /\ (Shown(stack[i]))' = Shown(stack[i])
      BY <1>1, <1>3, <2>1, <2>3 DEF Shown
    <3> QED BY <2>1, <3>1, <1>3, <1>5 DEF UpToDate
  <2> QED BY <2>2, <2>3
<1>7. RowsInRange'
  <2>1. Top' = c /\ Len(table) \in Nat
    BY <1>1, <1>a, Types DEF Top
  <2> QED BY <2>1, <1>2, <1>3 DEF RowsInRange
<1>8. \A k \in DOMAIN mainq' : listen'[stack'[mainq'[k].to].topic] = "synced"
  BY <1>a, <1>2, <1>3, Types DEF FeedsInv
<1> QED BY <1>4, <1>6, <1>7, <1>8 DEF FeedsInv

\* The server is not part of what the screens wait for.
LEMMA EditInv ==
    ASSUME FeedsInv, NEW f \in Topics, NEW list \in Lists, Edit(f, list)
    PROVE  FeedsInv'
<1>1. /\ server' \in [Topics -> Lists] /\ changes' \in Nat
      /\ UNCHANGED <<listen, seen, stack, table, mainq>>
  BY DEF FeedsInv, TypeOK, Edit
<1>2. TypeOK'
  BY <1>1 DEF FeedsInv, TypeOK
<1>3. ASSUME NEW i \in DOMAIN stack, UpToDate(i) PROVE UpToDate(i)'
  BY <1>1, <1>3 DEF UpToDate, Fills, Shown
<1> QED BY <1>1, <1>2, <1>3 DEF FeedsInv, RowsInRange, Alive, Top

\* After an event for every controller of the topic, the last that fills a
\* screen of it is the one for the last controller that there is.
LEMMA RaiseInv ==
    ASSUME FeedsInv, NEW f \in Topics, NEW list \in Lists, Raise(f, list),
           stack' = stack, table' = table,
           listen' \in [Topics -> {"none", "wait", "synced"}],
           listen'[f] = "synced", seen'[f] = list,
           \A g \in Topics : g # f => listen'[g] = listen[g] /\ seen'[g] = seen[g],
           seen' \in [Topics -> Lists], server' \in [Topics -> Lists], changes' \in Nat
    PROVE  FeedsInv'
<1>a. TypeOK
  BY DEF FeedsInv
<1>m. PICK m \in Nat : m = Len(mainq)
  BY <1>a, Types
<1> DEFINE observers == {i \in DOMAIN stack : stack[i].topic = f}
<1>r. PICK n \in 0..Len(stack) :
          \E to \in [1..n -> observers] :
              /\ \A j, k \in 1..n : j < k => to[j] < to[k]
              /\ \A i \in observers : \E k \in 1..n : to[k] = i
              /\ mainq' = mainq \o [k \in 1..n |-> [to |-> to[k], list |-> list]]
  BY DEF Raise
<1>n. n \in Nat
  BY <1>r, <1>a, Types
<1>1. PICK to \in [1..n -> observers] :
          /\ \A j, k \in 1..n : j < k => to[j] < to[k]
          /\ \A i \in observers : \E k \in 1..n : to[k] = i
          /\ mainq' = mainq \o [k \in 1..n |-> [to |-> to[k], list |-> list]]
  BY <1>r
<1> DEFINE new == [k \in 1..n |-> [to |-> to[k], list |-> list]]
<1>2. n \in Nat /\ new \in Seq(Events) /\ Len(new) = n
  <2>1. n \in Nat /\ \A k \in 1..n : to[k] \in DOMAIN stack
    BY <1>n, <1>1
  <2>2. \A k \in 1..n : [to |-> to[k], list |-> list] \in Events
    BY <2>1 DEF Events
  <2> QED BY <2>1, <2>2
<1>3. /\ mainq' \in Seq(Events) /\ Len(mainq') = m + n
      /\ \A k \in 1..m : mainq'[k] = mainq[k]
      /\ \A k \in 1..n : mainq'[m + k] = [to |-> to[k], list |-> list]
  <2>1. mainq' = mainq \o new /\ \A k \in 1..n : new[k] = [to |-> to[k], list |-> list]
    BY <1>1, <1>n
  <2> HIDE DEF new
  <2>2. /\ mainq \o new \in Seq(Events) /\ Len(mainq \o new) = m + n
        /\ \A k \in 1..m + n : (mainq \o new)[k] = IF k <= m THEN mainq[k] ELSE new[k - m]
    BY <1>2, <1>a, <1>m, Types, ConcatProperties
  <2>3. ASSUME NEW k \in 1..n PROVE m + k \in 1..m + n /\ ~(m + k <= m) /\ (m + k) - m = k
    BY <1>m, <1>n
  <2>4. \A k \in 1..m : k \in 1..m + n /\ k <= m
    BY <1>m, <1>n
  <2>5. ASSUME NEW k \in 1..n PROVE mainq'[m + k] = [to |-> to[k], list |-> list]
    <3>1. (mainq \o new)[m + k] = new[k]
      BY <2>2, <2>3, <2>5
    <3> QED BY <2>1, <3>1
  <2>6. ASSUME NEW k \in 1..m PROVE mainq'[k] = mainq[k]
    BY <2>1, <2>2, <2>4, <2>6
  <2> QED BY <2>1, <2>2, <2>5, <2>6
<1>4. /\ DOMAIN mainq = 1..m /\ DOMAIN mainq' = 1..m + n
      /\ \A k \in 1..n : m + k \in DOMAIN mainq'
      /\ \A k \in DOMAIN mainq' : k \in 1..m \/ \E j \in 1..n : k = m + j
  <2>1. \A k \in 1..m + n : k \in 1..m \/ (k - m \in 1..n /\ k = m + (k - m))
    BY <1>m, <1>n
  <2>2. \A k \in 1..n : m + k \in 1..m + n
    BY <1>m, <1>n
  <2>3. DOMAIN mainq' = 1..m + n /\ DOMAIN mainq = 1..m
    BY <1>3, <1>a, <1>m, Types
  <2> QED BY <2>1, <2>2, <2>3
<1>5. TypeOK'
  <2>1. Events' = Events
    BY DEF Events
  <2> QED BY <2>1, <1>3, <1>a DEF TypeOK, Events
<1>6. \A k \in DOMAIN mainq' : listen'[stack'[mainq'[k].to].topic] = "synced"
  <2>1. \A k \in 1..m : listen[stack[mainq[k].to].topic] = "synced"
                        /\ stack[mainq[k].to].topic \in Topics
    BY <1>4, <1>a, Types DEF FeedsInv
  <2>2. \A k \in 1..n : stack[to[k]].topic = f
    BY <1>1
  <2>3. ASSUME NEW k \in DOMAIN mainq' PROVE listen'[stack[mainq'[k].to].topic] = "synced"
    <3>1. CASE k \in 1..m
      <4>1. mainq'[k].to = mainq[k].to
        BY <3>1, <1>3
      <4> QED BY <3>1, <4>1, <2>1
    <3>2. ASSUME NEW j \in 1..n, k = m + j PROVE listen'[stack[mainq'[k].to].topic] = "synced"
      <4>1. mainq'[m + j] = [to |-> to[j], list |-> list]
        BY <1>3
      <4>2. mainq'[k].to = to[j]
        BY <3>2, <4>1
      <4> QED BY <4>2, <2>2
    <3> QED BY <3>1, <3>2, <1>4
  <2> QED BY <2>3
<1>7. ASSUME NEW i \in DOMAIN stack', stack'[i].topic = "coupons" => i = Len(stack')
      PROVE  UpToDate(i)'
  <2>1. UpToDate(i) /\ i \in DOMAIN stack /\ stack[i].topic \in Topics
    BY <1>7, <1>a, Types DEF FeedsInv
  <2>2. CASE stack[i].topic = f
    <3>1. PICK j \in 1..n : to[j] = i
      BY <1>1, <2>1, <2>2
    <3>2. /\ m + j \in DOMAIN mainq' /\ mainq'[m + j].to = i /\ mainq'[m + j].list = list
      <4>1. mainq'[m + j] = [to |-> to[j], list |-> list] /\ m + j \in DOMAIN mainq'
        BY <1>3, <1>4, <3>1
      <4> QED BY <4>1, <3>1
    <3>4. \E l \in DOMAIN mainq' : l = m + j /\ Fills(l, i)'
      BY <3>2 DEF Fills
    <3>5. ASSUME NEW k \in DOMAIN mainq', Fills(k, i)',
                 \A l \in DOMAIN mainq' : Fills(l, i)' => l <= k
          PROVE  k = m + j
      <4>1. m + j <= k
        BY <3>4, <3>5
      <4>a. j > 0 /\ ~(k \in 1..m)
        <5>1. m \in Nat /\ j \in 1..n
          BY <1>m, <3>1
        <5> QED BY <5>1, <1>n, <4>1
      <4>2. PICK h \in 1..n : k = m + h
        BY <4>a, <1>4
      <4>3. CASE h = j
        BY <4>2, <4>3
      <4>4. CASE h > j
        <5>a. mainq'[m + h] = [to |-> to[h], list |-> list]
          BY <1>3
        <5>b. to[j] < to[h] /\ to[h] \in observers
          BY <1>1, <1>n, <3>1, <4>2, <4>4
        <5>1. i < to[h] /\ to[h] \in DOMAIN stack /\ stack[to[h]].topic = f /\ mainq'[k].to = to[h]
          BY <3>1, <4>2, <5>a, <5>b
        <5>2. f = "coupons"
          BY <5>1, <2>2, <3>5, <2>1 DEF Fills
        <5>3. i = Len(stack) /\ DOMAIN stack = 1..Len(stack) /\ Len(stack) \in Nat
          BY <5>2, <2>2, <1>7, <1>a, Types
        <5> QED BY <5>1, <5>3
      <4> QED BY <4>1, <4>2, <4>3, <4>4
    <3> QED BY <2>2, <3>2, <3>4, <3>5 DEF UpToDate
  <2>3. CASE stack[i].topic # f
    <3>1. \A k \in 1..m : Fills(k, i)' <=> Fills(k, i)
      BY <1>3 DEF Fills
    <3>2. ASSUME NEW k \in DOMAIN mainq', Fills(k, i)' PROVE k \in 1..m
      <4>1. ASSUME NEW h \in 1..n, k = m + h PROVE FALSE
        <5>a. mainq'[m + h] = [to |-> to[h], list |-> list]
          BY <1>3
        <5>b. to[h] \in observers
          BY <1>1
        <5>1. mainq'[k].to = to[h] /\ stack[to[h]].topic = f /\ i # to[h]
          BY <4>1, <5>a, <5>b, <2>3
        <5> QED BY <5>1, <3>2, <2>3 DEF Fills
      <4> QED BY <4>1, <1>4
    <3>3. (Shown(stack[i]))' = Shown(stack[i])
      BY DEF Shown
    <3>4. 1..m \subseteq DOMAIN mainq' /\ DOMAIN mainq = 1..m
      BY <1>4
    <3> QED BY <2>1, <2>3, <3>1, <3>2, <3>3, <3>4, <1>3 DEF UpToDate
  <2> QED BY <2>2, <2>3
<1>8. RowsInRange'
  BY DEF FeedsInv, RowsInRange, Top, Alive
<1> QED BY <1>5, <1>6, <1>7, <1>8 DEF FeedsInv

\* News of a list.
LEMMA ListUpdateInv ==
    ASSUME FeedsInv, NEW f \in Topics, ListUpdate(f)
    PROVE  FeedsInv'
<1>1. /\ listen \in [Topics -> {"none", "wait", "synced"}] /\ seen \in [Topics -> Lists]
      /\ server \in [Topics -> Lists] /\ changes \in Nat
  BY DEF FeedsInv, TypeOK
<1>2. PICK list \in Lists : list = server[f]
  BY <1>1
<1>3. /\ Raise(f, list) /\ stack' = stack /\ table' = table
      /\ listen' = [listen EXCEPT ![f] = "synced"] /\ seen' = [seen EXCEPT ![f] = list]
      /\ server' = server /\ changes' = changes
  BY <1>2 DEF ListUpdate
<1> QED BY <1>1, <1>3, RaiseInv

\* The same coupons again.
LEMMA AttendanceChangedInv ==
    ASSUME FeedsInv, AttendanceChanged
    PROVE  FeedsInv'
<1>1. /\ listen \in [Topics -> {"none", "wait", "synced"}] /\ seen \in [Topics -> Lists]
      /\ server \in [Topics -> Lists] /\ changes \in Nat /\ "coupons" \in Topics
  BY DEF FeedsInv, TypeOK, Topics
<1>2. PICK list \in Lists : list = seen["coupons"]
  BY <1>1
<1>3. /\ Raise("coupons", list) /\ stack' = stack /\ table' = table
      /\ listen' = listen /\ seen' = seen /\ server' = server /\ changes' = changes + 1
      /\ listen["coupons"] = "synced"
  BY <1>2 DEF AttendanceChanged
<1> QED BY <1>1, <1>2, <1>3, RaiseInv

\* An event adds its list to the rows: if it is the last, the list is the copy.
LEMMA ArrivedInv ==
    ASSUME FeedsInv, Arrived
    PROVE  FeedsInv'
<1>a. TypeOK
  BY DEF FeedsInv
<1>b. mainq \in Seq(Events) /\ mainq # <<>>
  BY <1>a, Types DEF Arrived
<1>m. PICK m \in Nat : m = Len(mainq)
  BY <1>b
<1>0. m # 0 /\ 1 \in DOMAIN mainq /\ Head(mainq) = mainq[1] /\ DOMAIN mainq = 1..m
  BY <1>b, <1>m
<1>i. PICK i \in DOMAIN stack : i = mainq[1].to
  BY <1>a, <1>0, Types
<1>l. PICK list \in Lists : list = mainq[1].list
  BY <1>a, <1>0, Types
<1>s. PICK c \in Screens : c = stack[i]
  BY <1>a, <1>i, Types
<1>c. /\ list \in Seq(Items) /\ list \in Rows /\ Len(list) \in Nat
      /\ c.data \in Rows /\ c.rows \in Nat /\ c.topic \in Topics
      /\ table \in Seq(Items) /\ Len(table) \in Nat /\ Len(c.data) \in Nat
  <2>1. list \in Seq(Items) /\ list \in Rows /\ Len(list) \in Nat
    BY <1>l, ListsAreSeqs
  <2>2. c.data \in Rows /\ c.rows \in Nat /\ c.topic \in Topics
    BY <1>s DEF Screens
  <2>3. Len(c.data) \in Nat
    BY <2>2 DEF Rows
  <2>4. table \in Seq(Items) /\ Len(table) \in Nat
    BY <1>a, Types
  <2> QED BY <2>1, <2>2, <2>3, <2>4
<1>1. /\ mainq' \in Seq(Events) /\ DOMAIN mainq' = 1..m - 1
      /\ \A k \in DOMAIN mainq' : /\ k + 1 \in DOMAIN mainq /\ k + 1 > 1
                                  /\ mainq'[k] = mainq[k + 1]
  <2>1. mainq' = Tail(mainq)
    BY DEF Arrived
  <2> QED BY <2>1, <1>b, <1>m, HeadTailProperties
<1>2. UNCHANGED <<server, listen, seen, changes>>
  BY DEF Arrived
<1>3. PICK d \in Screens :
        /\ stack' = [stack EXCEPT ![i] = d] /\ d.topic = c.topic
        /\ \/ /\ c.topic = "coupons" /\ d.rows = Len(table) + Len(list)
              /\ table' = table \o list
           \/ /\ c.topic # "coupons" /\ table' = table
              /\ SubSeq(d.data, 1, d.rows) = c.data \o list
  <2>1. CASE c.topic = "agenda" /\ UNCHANGED table /\ stack' = [stack EXCEPT ![i] = AgendaLoaded(c, list)]
    <3>1. c.data \o list \in Rows /\ Blank \in Items \cup {Blank}
      BY <1>c DEF Rows
    <3> DEFINE all == Append(c.data \o list, Blank)
    <3>2. SubSeq(all, 1, Len(all) - 1) = c.data \o list
      BY <3>1, ButLast DEF Rows
    <3>3. all \in Rows /\ Len(all) - 1 \in Nat
      BY <3>1 DEF Rows
    <3> HIDE DEF all
    <3>4. PICK d \in Screens : d = [c EXCEPT !.data = all, !.rows = Len(all) - 1]
      BY <3>3 DEF Screens
    <3>5. d.topic = c.topic /\ d.data = all /\ d.rows = Len(all) - 1
      BY <3>4 DEF Screens
    <3>6. AgendaLoaded(c, list) = d
      BY <3>4 DEF AgendaLoaded, all
    <3> QED BY <2>1, <3>2, <3>5, <3>6
  <2>2. CASE c.topic = "sponsors" /\ UNCHANGED table /\ stack' = [stack EXCEPT ![i] = SponsorsLoaded(c, list)]
    <3>1. c.data \o list \in Rows /\ Len(c.data \o list) = Len(c.data) + Len(list)
      BY <1>c, ConcatProperties DEF Rows
    <3>2. SubSeq(c.data \o list, 1, Len(c.data \o list)) = c.data \o list
      BY <3>1, SubSeqFull DEF Rows
    <3> DEFINE all == c.data \o list
               r == Len(c.data) + Len(list)
    <3>a. all \in Rows /\ r \in Nat /\ r = Len(all)
      BY <3>1, <1>c
    <3>b. SponsorsLoaded(c, list) = [c EXCEPT !.data = all, !.rows = r]
      BY DEF SponsorsLoaded
    <3> HIDE DEF all, r
    <3>3. PICK d \in Screens : d = SponsorsLoaded(c, list)
      BY <3>a, <3>b DEF Screens
    <3>c. d.topic = c.topic /\ d.data = all /\ d.rows = Len(all)
      BY <3>a, <3>b, <3>3 DEF Screens
    <3>4. d.topic = c.topic /\ d.data = c.data \o list /\ d.rows = Len(c.data \o list)
      BY <3>c DEF all
    <3> QED BY <2>2, <3>2, <3>3, <3>4
  <2>3. CASE /\ c.topic = "coupons" /\ table' = table \o list
             /\ stack' = [stack EXCEPT ![i].rows = Len(table) + Len(list)]
    <3> DEFINE r == Len(table) + Len(list)
    <3>a. r \in Nat
      BY <1>c
    <3> HIDE DEF r
    <3>b. PICK d \in Screens : d = [c EXCEPT !.rows = r]
      BY <3>a DEF Screens
    <3>1. d = [c EXCEPT !.rows = Len(table) + Len(list)]
      BY <3>b DEF r
    <3>2. d.topic = c.topic /\ d.rows = Len(table) + Len(list)
      BY <3>b DEF Screens, r
    <3>3. stack' = [stack EXCEPT ![i] = d]
      BY <2>3, <3>1, <1>s
    <3> QED BY <2>3, <3>2, <3>3
  <2> QED BY <2>1, <2>2, <2>3, <1>0, <1>i, <1>l, <1>s DEF Arrived
<1>4. /\ stack' \in Seq(Screens) /\ Len(stack') = Len(stack) /\ DOMAIN stack' = DOMAIN stack
      /\ stack'[i] = d
      /\ \A j \in DOMAIN stack : j # i => stack'[j] = stack[j]
      /\ \A j \in DOMAIN stack : stack'[j].topic = stack[j].topic
  <2>1. stack \in Seq(Screens)
    BY <1>a, Types
  <2>2. /\ stack' \in Seq(Screens) /\ Len(stack') = Len(stack) /\ DOMAIN stack' = DOMAIN stack
        /\ stack'[i] = d
        /\ \A j \in DOMAIN stack : j # i => stack'[j] = stack[j]
    BY <2>1, <1>3
  <2> QED BY <2>2, <1>3, <1>s
<1>5. table' \in Seq(Items) /\ Len(table') \in Nat /\ Len(table) <= Len(table')
      /\ (c.topic = "coupons" => Len(table') = Len(table) + Len(list))
  <2>1. CASE c.topic = "coupons"
    <3>1. table' = table \o list
      BY <2>1, <1>3
    <3> QED BY <3>1, <1>c, ConcatProperties
  <2>2. CASE c.topic # "coupons"
    BY <2>2, <1>c, <1>3
  <2> QED BY <2>1, <2>2
<1>6. TypeOK'
  <2>1. Events' = Events
    BY <1>4 DEF Events
  <2> QED BY <2>1, <1>a, <1>1, <1>2, <1>4, <1>5 DEF TypeOK, Screens, Events
<1>7. \A k \in DOMAIN mainq' : listen'[stack'[mainq'[k].to].topic] = "synced"
  <2>1. ASSUME NEW k \in DOMAIN mainq' PROVE listen'[stack'[mainq'[k].to].topic] = "synced"
    <3>1. /\ mainq'[k] = mainq[k + 1] /\ mainq[k + 1].to \in DOMAIN stack
          /\ listen[stack[mainq[k + 1].to].topic] = "synced"
      BY <1>a, <1>1, Types DEF FeedsInv
    <3> QED BY <3>1, <1>2, <1>4
  <2> QED BY <2>1
<1>8. ASSUME NEW j \in DOMAIN stack', stack'[j].topic = "coupons" => j = Len(stack')
      PROVE  UpToDate(j)'
  <2>1. UpToDate(j) /\ j \in DOMAIN stack /\ stack'[j].topic = stack[j].topic
    BY <1>8, <1>4 DEF FeedsInv
  <2>2. \A k \in DOMAIN mainq' : Fills(k, j)' <=> Fills(k + 1, j)
    BY <2>1, <1>a, <1>1, <1>4, Types DEF Fills
  <2>3. ASSUME NEW k \in DOMAIN mainq', Fills(k, j)',
               \A l \in DOMAIN mainq' : Fills(l, j)' => l <= k
        PROVE  mainq'[k].to = j /\ mainq'[k].list = seen'[stack'[j].topic]
    <3>1. ASSUME NEW l \in DOMAIN mainq, Fills(l, j) PROVE l <= k + 1
      <4>1. CASE l = 1
        BY <4>1, <1>1, <1>0
      <4>2. CASE l # 1
        <5>1. l - 1 \in DOMAIN mainq' /\ (l - 1) + 1 = l
          BY <4>2, <1>0, <1>1, <1>m
        <5>2. Fills(l - 1, j)'
          BY <5>1, <2>2, <3>1
        <5>3. l - 1 <= k
          BY <5>1, <5>2, <2>3
        <5> QED BY <5>1, <5>3, <1>0, <1>1, <1>m
      <4> QED BY <4>1, <4>2
    <3>2. Fills(k + 1, j) /\ k + 1 \in DOMAIN mainq /\ mainq'[k] = mainq[k + 1]
      BY <2>2, <2>3, <1>1
    <3> QED BY <2>1, <3>1, <3>2, <1>2 DEF UpToDate
  <2>4. ASSUME listen'[stack'[j].topic] = "synced", \A k \in DOMAIN mainq' : ~Fills(k, j)'
        PROVE  /\ IsSuffix(seen'[stack'[j].topic], (Shown(stack[j]))')
               /\ stack'[j].topic = "coupons" => stack'[j].rows = Len(table')
    <3>1. ASSUME NEW l \in DOMAIN mainq, Fills(l, j) PROVE l = 1
      <4>1. CASE l # 1
        <5>1. l - 1 \in DOMAIN mainq' /\ (l - 1) + 1 = l
          BY <4>1, <1>0, <1>1, <1>m
        <5> QED BY <5>1, <2>2, <2>4, <3>1
      <4> QED BY <4>1
    <3>2. CASE Fills(1, j)
      <4>1. j = i /\ list = seen[c.topic]
        <5>1. \A l \in DOMAIN mainq : Fills(l, j) => l <= 1
          BY <3>1
        <5> QED BY <5>1, <3>2, <2>1, <1>0, <1>i, <1>l, <1>s DEF UpToDate
      <4>2. CASE c.topic = "coupons"
        <5>1. table' = table \o list /\ d.rows = Len(table') /\ d.topic = "coupons"
          BY <4>2, <1>3, <1>5
        <5>2. (Shown(stack[j]))' = table \o list
          BY <5>1, <4>1, <1>4, <1>5, SubSeqFull DEF Shown
        <5>3. IsSuffix(list, table \o list)
          BY <1>c, SuffixOfConcat
        <5> QED BY <5>1, <5>2, <5>3, <4>1, <1>2, <1>3, <1>4
      <4>3. CASE c.topic # "coupons"
        <5>1. (Shown(stack[j]))' = c.data \o list /\ d.topic # "coupons"
          BY <4>1, <4>3, <1>3, <1>4 DEF Shown
        <5>2. IsSuffix(list, c.data \o list)
          BY <1>c, SuffixOfConcat DEF Rows
        <5> QED BY <5>1, <5>2, <4>1, <1>2, <1>3, <1>4
      <4> QED BY <4>2, <4>3
    <3>3. CASE ~Fills(1, j)
      <4>1. \A l \in DOMAIN mainq : ~Fills(l, j)
        BY <3>1, <3>3
      <4>2. j # i /\ (stack[j].topic = "coupons" => c.topic # "coupons")
        BY <3>3, <1>i, <1>s DEF Fills
      <4>3. stack'[j] = stack[j] /\ (stack[j].topic = "coupons" => table' = table)
        BY <4>2, <2>1, <1>3, <1>4
      <4>4. (Shown(stack[j]))' = Shown(stack[j])
        BY <4>3 DEF Shown
      <4>5. /\ IsSuffix(seen[stack[j].topic], Shown(stack[j]))
            /\ stack[j].topic = "coupons" => stack[j].rows = Len(table)
        BY <4>1, <2>1, <2>4, <1>2 DEF UpToDate
      <4> QED BY <4>3, <4>4, <4>5, <1>2
    <3> QED BY <3>2, <3>3
  <2> QED BY <2>3, <2>4 DEF UpToDate
<1>9. RowsInRange'
  <2>1. SUFFICES ASSUME Alive', (Top.topic)' = "coupons" PROVE (Top.rows)' <= Len(table')
    BY DEF RowsInRange
  <2>2. /\ Len(stack) \in DOMAIN stack /\ Top' = stack'[Len(stack)] /\ Top = stack[Len(stack)]
        /\ Alive
    BY <2>1, <1>a, <1>4, Types DEF Top, Alive
  <2>3. CASE i = Len(stack)
    BY <2>1, <2>2, <2>3, <1>c, <1>3, <1>4, <1>5
  <2>4. CASE i # Len(stack)
    <3>1. Top' = Top /\ Top.rows <= Len(table) /\ Top.rows \in Nat
      BY <2>1, <2>2, <2>4, <1>a, <1>4, Types DEF FeedsInv, RowsInRange
    <3> QED BY <3>1, <1>c, <1>5
  <2> QED BY <2>3, <2>4
<1> QED BY <1>6, <1>7, <1>8, <1>9 DEF FeedsInv

\* Nothing is left of a process, and the next one starts on the agenda.
LEMMA DieInv ==
    ASSUME FeedsInv, Die
    PROVE  FeedsInv'
<1>1. <<>> \in Lists
  <2>1. <<>> \in [1..0 -> Items] /\ 0 \in 0..MaxLength
    BY BoundsAssumption
  <2> QED BY <2>1 DEF Lists, BoundedSeq, SeqOf
<1>2. TypeOK'
  BY <1>1 DEF FeedsInv, TypeOK, Die, NoCopy, Topics
<1> QED BY <1>2 DEF FeedsInv, Die, RowsInRange, Alive

\* A new process shows the agenda and has not heard of it yet.
LEMMA LaunchInv ==
    ASSUME FeedsInv, Launch
    PROVE  FeedsInv'
<1>a. TypeOK
  BY DEF FeedsInv
<1>1. mainq = <<>>
  <2>1. \A k \in DOMAIN mainq : mainq[k].to \in DOMAIN stack /\ stack = <<>>
    BY <1>a, Types DEF Launch, Alive
  <2>2. \A k \in DOMAIN mainq : FALSE
    BY <2>1
  <2> QED BY <2>2, <1>a, Types
<1>2. /\ stack' = FirstScreen /\ listen' = FirstListen /\ mainq' = <<>>
      /\ UNCHANGED <<server, seen, table, changes>>
  BY <1>1 DEF Launch
<1>3. Opened("agenda") \in Screens /\ Opened("agenda").topic = "agenda"
  BY DEF Opened, Screens, Topics, Rows
<1>4. /\ FirstScreen \in Seq(Screens) /\ DOMAIN FirstScreen = {1} /\ Len(FirstScreen) = 1
      /\ FirstScreen[1].topic = "agenda"
  BY <1>3 DEF FirstScreen
<1>5. FirstListen["agenda"] = "wait" /\ FirstListen \in [Topics -> {"none", "wait", "synced"}]
  BY DEF FirstListen, Topics
<1>6. TypeOK'
  BY <1>a, <1>2, <1>4, <1>5 DEF TypeOK, Screens
<1>7. UpToDate(1)'
  BY <1>2, <1>4, <1>5 DEF UpToDate
<1>8. RowsInRange'
  BY <1>2, <1>4 DEF RowsInRange, Top
<1> QED BY <1>2, <1>4, <1>6, <1>7, <1>8 DEF FeedsInv

\* The first process likewise.
LEMMA InitInv ==
    ASSUME Init
    PROVE  FeedsInv
<1>1. Opened("agenda") \in Screens /\ Opened("agenda").topic = "agenda"
  BY DEF Opened, Screens, Topics, Rows
<1>2. /\ FirstScreen \in Seq(Screens) /\ DOMAIN FirstScreen = {1} /\ Len(FirstScreen) = 1
      /\ FirstScreen[1].topic = "agenda"
  BY <1>1 DEF FirstScreen
<1>3. FirstListen["agenda"] = "wait" /\ FirstListen \in [Topics -> {"none", "wait", "synced"}]
  BY DEF FirstListen, Topics
<1>4. NoCopy \in [Topics -> Lists]
  <2>1. <<>> \in [1..0 -> Items] /\ 0 \in 0..MaxLength
    BY BoundsAssumption
  <2> QED BY <2>1 DEF Lists, BoundedSeq, SeqOf, NoCopy
<1>5. TypeOK
  BY <1>2, <1>3, <1>4 DEF Init, TypeOK, Screens
<1>6. UpToDate(1)
  BY <1>2, <1>3 DEF Init, UpToDate
<1>7. RowsInRange
  BY <1>2 DEF Init, RowsInRange, Top
<1> QED BY <1>2, <1>5, <1>6, <1>7 DEF Init, FeedsInv

\* Every step of Feeds preserves FeedsInv.
LEMMA NextInv ==
    ASSUME FeedsInv, [Next]_vars
    PROVE  FeedsInv'
<1>1. ASSUME NEW f \in Topics, Visit(f) PROVE FeedsInv'
  BY <1>1, VisitInv
<1>2. ASSUME NEW f \in Topics, ListUpdate(f) PROVE FeedsInv'
  BY <1>2, ListUpdateInv
<1>3. ASSUME NEW f \in Topics, NEW list \in Lists, Edit(f, list) PROVE FeedsInv'
  BY <1>3, EditInv
<1>4. CASE ViewDidAppear
  BY <1>4, ViewDidAppearInv
<1>5. CASE AttendanceChanged
  BY <1>5, AttendanceChangedInv
<1>6. CASE Arrived
  BY <1>6, ArrivedInv
<1>7. CASE Crash \/ Kill
  BY <1>7, DieInv DEF Crash, Kill
<1>8. CASE Launch
  BY <1>8, LaunchInv
<1>9. CASE UNCHANGED vars
  <2>1. UNCHANGED <<server, listen, seen, stack, table, mainq, changes>>
    BY <1>9 DEF vars
  <2>2. ASSUME NEW i \in DOMAIN stack, UpToDate(i) PROVE UpToDate(i)'
    BY <2>1, <2>2 DEF UpToDate, Fills, Shown
  <2> QED BY <2>1, <2>2 DEF FeedsInv, TypeOK, RowsInRange, Alive, Top
<1> QED BY <1>1, <1>2, <1>3, <1>4, <1>5, <1>6, <1>7, <1>8, <1>9 DEF Next

-----------------------------------------------------------------------------
\* Whatever is opened, edited, delivered or killed in whatever order, every
\* event goes to a screen that exists, and every screen knows what it will get.
THEOREM FeedsInvariant == Spec => []FeedsInv
<1>1. Init => FeedsInv
  BY InitInv
<1>2. FeedsInv /\ [Next]_vars => FeedsInv'
  BY NextInv
<1> QED BY <1>1, <1>2, PTL DEF Spec

\* Type correctness of the state: rows, lists and the addressees of events.
THEOREM FeedsTypeCorrect == Spec => []TypeOK
<1>1. FeedsInv => TypeOK
  BY DEF FeedsInv
<1> QED BY <1>1, FeedsInvariant, PTL

\* The coupon table never has a row that tokenArr and its siblings have not,
\* although every instance of FoodCouponsVC fills, and empties, the same arrays.
THEOREM RowsStayInRange == Spec => []RowsInRange
<1>1. FeedsInv => RowsInRange
  BY DEF FeedsInv
<1> QED BY <1>1, FeedsInvariant, PTL

\* When nothing of its topic is under way, a screen ends with the list of the
\* server: the get() of the controllers loses nothing and cuts nothing off.
THEOREM NewestListIsShown == Spec => []NewestIsShown
<1>1. ASSUME FeedsInv PROVE NewestIsShown
  <2>1. ASSUME NEW i \in DOMAIN stack, Quiet(stack[i].topic),
               stack[i].topic = "coupons" => i = Len(stack)
        PROVE  IsSuffix(server[stack[i].topic], Shown(stack[i]))
    <3>1. UpToDate(i)
      BY <1>1, <2>1 DEF FeedsInv
    <3>2. \A k \in DOMAIN mainq : ~Fills(k, i)
      BY <2>1 DEF Quiet, Fills
    <3> QED BY <2>1, <3>1, <3>2 DEF UpToDate, Quiet
  <2> QED BY <2>1 DEF NewestIsShown
<1> QED BY <1>1, FeedsInvariant, PTL
=============================================================================
