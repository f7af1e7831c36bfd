-------------------------- MODULE RedemptionProofs --------------------------
(***************************************************************************)
(* DeskInv is an inductive invariant of Spec, for any number of phones,    *)
(* accounts, coupons and keys, and any length of the queues; the safety    *)
(* properties that hold of every use of the app follow, and that the desk  *)
(* implements CouponLedger.                                                *)
(*                                                                         *)
(* OrderlyInv is an inductive invariant of OrderlySpec: under the          *)
(* discipline of OrderlyRedemption nobody is told twice that a coupon was  *)
(* redeemed, and nothing announced is lost.                                *)
(*                                                                         *)
(* On a phone with one account a coupon is shown as redeemed only if the   *)
(* account has redeemed it, or the rules have refused that: StatusInv is   *)
(* an inductive invariant of PersonalSpec.                                 *)
(***************************************************************************)
EXTENDS OrderlyRedemption, TLAPS

-----------------------------------------------------------------------------
(* Queues: what an operation leaves in one was there, or is its argument. *)

\* What Append puts at the end is the only new element.
LEMMA AppendElements ==
    ASSUME NEW S, NEW q \in Seq(S), NEW x \in S
    PROVE  /\ Append(q, x) \in Seq(S)
           /\ \A i \in DOMAIN Append(q, x) :
                 \/ Append(q, x)[i] = x
                 \/ \E j \in DOMAIN q : Append(q, x)[i] = q[j]
OBVIOUS

\* Tail keeps only what was there.
LEMMA TailElements ==
    ASSUME NEW S, NEW q \in Seq(S), q # <<>>
    PROVE  /\ Head(q) \in S /\ 1 \in DOMAIN q /\ Head(q) = q[1]
           /\ Tail(q) \in Seq(S)
           /\ \A i \in DOMAIN Tail(q) : \E j \in DOMAIN q : Tail(q)[i] = q[j]
<1>1. \A i \in DOMAIN Tail(q) : i + 1 \in DOMAIN q /\ Tail(q)[i] = q[i + 1]
  OBVIOUS
<1> QED BY <1>1

\* Push, too, adds nothing but its argument.
LEMMA PushElements ==
    ASSUME NEW S, NEW q \in Seq(S), NEW x \in S
    PROVE  /\ Push(q, x) \in Seq(S)
           /\ \A i \in DOMAIN Push(q, x) :
                 \/ Push(q, x)[i] = x
                 \/ \E j \in DOMAIN q : Push(q, x)[i] = q[j]
<1>1. CASE Push(q, x) = q
  BY <1>1
<1>2. CASE Push(q, x) = Append(q, x)
  BY <1>2, AppendElements
<1> QED BY <1>1, <1>2 DEF Push

\* Orphan changes nothing but the controller a validation answers to.
LEMMA OrphanCalls ==
    ASSUME NEW q \in Seq(Calls), NEW s
    PROVE  /\ Orphan(q, s) \in Seq(Calls)
           /\ DOMAIN Orphan(q, s) = DOMAIN q
           /\ \A i \in DOMAIN q : /\ Orphan(q, s)[i].op = q[i].op
                                  /\ Orphan(q, s)[i].c = q[i].c
                                  /\ Orphan(q, s)[i].u = q[i].u
<1> DEFINE p == Orphan(q, s)
<1>1. DOMAIN p = 1 .. Len(q) /\ DOMAIN q = 1 .. Len(q) /\ Len(q) \in Nat
  BY DEF Orphan
<1>2. ASSUME NEW i \in DOMAIN q
      PROVE  p[i] \in Calls /\ p[i].op = q[i].op /\ p[i].c = q[i].c /\ p[i].u = q[i].u
  <2>1. q[i] \in Calls
    OBVIOUS
  <2>2. CASE q[i].op = "read" /\ q[i].via = s
    <3>1. p[i] = [q[i] EXCEPT !.via = "gone"]
      BY <2>2 DEF Orphan
    <3>2. q[i] \in [op : {"read"}, u : Users, c : Coupons, via : Givers]
      BY <2>1, <2>2 DEF Calls
    <3> QED BY <3>1, <3>2 DEF Calls, Givers
  <2>3. CASE ~(q[i].op = "read" /\ q[i].via = s)
    BY <2>1, <2>3 DEF Orphan
  <2> QED BY <2>2, <2>3
<1>3. p \in Seq(Calls)
  BY <1>1, <1>2, p = [i \in 1 .. Len(q) |-> p[i]] DEF Orphan
<1> QED BY <1>1, <1>2, <1>3

\* The same for callbacks.
LEMMA OrphanCallbacks ==
    ASSUME NEW q \in Seq(Callbacks), NEW s
    PROVE  /\ Orphan(q, s) \in Seq(Callbacks)
           /\ DOMAIN Orphan(q, s) = DOMAIN q
           /\ \A i \in DOMAIN q : /\ Orphan(q, s)[i].op = q[i].op
                                  /\ Orphan(q, s)[i].c = q[i].c
<1> DEFINE p == Orphan(q, s)
<1>1. DOMAIN p = 1 .. Len(q) /\ DOMAIN q = 1 .. Len(q) /\ Len(q) \in Nat
  BY DEF Orphan
<1>2. ASSUME NEW i \in DOMAIN q
      PROVE  p[i] \in Callbacks /\ p[i].op = q[i].op /\ p[i].c = q[i].c
  <2>1. q[i] \in Callbacks
    OBVIOUS
  <2>2. CASE q[i].op = "read" /\ q[i].via = s
    <3>1. p[i] = [q[i] EXCEPT !.via = "gone"]
      BY <2>2 DEF Orphan
    <3>2. q[i] \in [op : {"read"}, c : Coupons, exists : BOOLEAN, via : Givers]
      BY <2>1, <2>2 DEF Callbacks
    <3> QED BY <3>1, <3>2 DEF Callbacks, Givers
  <2>3. CASE ~(q[i].op = "read" /\ q[i].via = s)
    BY <2>1, <2>3 DEF Orphan
  <2> QED BY <2>2, <2>3
<1>3. p \in Seq(Callbacks)
  BY <1>1, <1>2, p = [i \in 1 .. Len(q) |-> p[i]] DEF Orphan
<1> QED BY <1>1, <1>2, <1>3

\* What \o puts behind a queue are the elements of the other one.
LEMMA ConcatElements ==
    ASSUME NEW S, NEW q \in Seq(S), NEW p \in Seq(S)
    PROVE  /\ q \o p \in Seq(S)
           /\ \A i \in DOMAIN (q \o p) :
                 \/ \E j \in DOMAIN q : (q \o p)[i] = q[j]
                 \/ \E j \in DOMAIN p : (q \o p)[i] = p[j]
<1>1. /\ Len(q) \in Nat /\ Len(p) \in Nat /\ q \o p \in Seq(S)
      /\ Len(q \o p) = Len(q) + Len(p)
      /\ DOMAIN (q \o p) = 1 .. Len(q) + Len(p)
      /\ DOMAIN q = 1 .. Len(q) /\ DOMAIN p = 1 .. Len(p)
  OBVIOUS
<1>2. ASSUME NEW i \in DOMAIN (q \o p)
      PROVE  \/ \E j \in DOMAIN q : (q \o p)[i] = q[j]
             \/ \E j \in DOMAIN p : (q \o p)[i] = p[j]
  <2>1. CASE i <= Len(q)
    <3>1. i \in DOMAIN q /\ (q \o p)[i] = q[i]
      BY <1>1, <2>1
    <3> QED BY <3>1
  <2>2. CASE i > Len(q)
    <3>1. i - Len(q) \in DOMAIN p /\ (q \o p)[i] = p[i - Len(q)]
      BY <1>1, <2>2
    <3> QED BY <3>1
  <2> QED BY <1>1, <2>1, <2>2
<1> QED BY <1>1, <1>2

-----------------------------------------------------------------------------
(* Reads that wait. *)

\* The controller that is gone goes on waiting, for nobody.
LEMMA OrphanWaits ==
    ASSUME NEW w \in [Records -> Seq(Askers)], NEW s \in Givers
    PROVE  /\ OrphanReads(w, s) \in [Records -> Seq(Askers)]
           /\ \A r \in Records :
                 /\ DOMAIN OrphanReads(w, s)[r] = DOMAIN w[r]
                 /\ OrphanReads(w, s)[r] = <<>> <=> w[r] = <<>>
                 /\ \A i \in DOMAIN w[r] :
                       OrphanReads(w, s)[r][i] = "check" <=> w[r][i] = "check"
<1>1. ASSUME NEW r \in Records
      PROVE  /\ OrphanReads(w, s)[r] \in Seq(Askers)
             /\ DOMAIN OrphanReads(w, s)[r] = DOMAIN w[r]
             /\ OrphanReads(w, s)[r] = <<>> <=> w[r] = <<>>
             /\ \A i \in DOMAIN w[r] :
                   OrphanReads(w, s)[r][i] = "check" <=> w[r][i] = "check"
  <2> DEFINE p == OrphanReads(w, s)[r]
  <2>1. p = [i \in DOMAIN w[r] |-> IF w[r][i] = s THEN "gone" ELSE w[r][i]]
    BY DEF OrphanReads
  <2>2. w[r] \in Seq(Askers) /\ DOMAIN w[r] = 1 .. Len(w[r]) /\ Len(w[r]) \in Nat
    OBVIOUS
  <2>3. s # "check" /\ "gone" \in Askers
    BY DEF Askers, Givers
  <2> HIDE DEF p
  <2>4. DOMAIN p = DOMAIN w[r]
        /\ \A i \in DOMAIN w[r] :
              p[i] \in Askers /\ (p[i] = "check" <=> w[r][i] = "check")
    BY <2>1, <2>2, <2>3
  <2>5. p \in Seq(Askers)
    BY <2>1, <2>2, <2>4
  <2>6. p = <<>> <=> w[r] = <<>>
    BY <2>2, <2>4, <2>5
  <2> QED BY <2>4, <2>5, <2>6 DEF p
<1>2. OrphanReads(w, s) \in [Records -> Seq(Askers)]
  BY <1>1 DEF OrphanReads
<1> QED BY <1>1, <1>2

\* check() adds itself to the reads that wait, and once.
LEMMA AskedElements ==
    ASSUME NEW q \in Seq(Askers)
    PROVE  /\ Asked(q) \in Seq(Askers) /\ Asked(q) # <<>>
           /\ \A i \in DOMAIN Asked(q) :
                 \/ Asked(q)[i] = "check"
                 \/ i \in DOMAIN q /\ Asked(q)[i] = q[i]
<1>1. "check" \in Askers
  BY DEF Askers
<1>2. CASE Asked(q) = q /\ \E i \in DOMAIN q : q[i] = "check"
  BY <1>2
<1>3. CASE Asked(q) = Append(q, "check")
  BY <1>1, <1>3
<1> QED BY <1>2, <1>3 DEF Asked

\* The callback of a read is of the record that was read.
LEMMA AnswerType ==
    ASSUME NEW r \in Records, NEW asker \in Askers, NEW exists \in BOOLEAN,
           NEW x, x = Answer(r, asker, exists)
    PROVE  x \in Callbacks
<1>1. r[2] \in Coupons
  BY DEF Records
<1>2. CASE asker = "check"
  BY <1>1, <1>2 DEF Answer, Callbacks
<1>3. CASE asker # "check"
  <2>1. asker \in Givers
    BY <1>3 DEF Askers
  <2> QED BY <1>1, <1>3, <2>1 DEF Answer, Callbacks
<1> QED BY <1>2, <1>3

\* It is a validation's or a check()'s, as the read was.
LEMMA AnswerOf ==
    ASSUME NEW r, NEW asker, NEW exists, NEW x, x = Answer(r, asker, exists)
    PROVE  /\ x.op \in {"read", "check"}
           /\ x.op = "check" <=> asker = "check"
           /\ x.op = "read" => x.c = r[2]
           /\ x.op = "read" /\ ~x.exists => ~exists
           /\ x.op = "check" => x.found \subseteq {r[2]}
           /\ x.op = "check" /\ x.found # {} => exists
<1>1. CASE asker = "check"
  BY <1>1 DEF Answer
<1>2. CASE asker # "check"
  BY <1>2 DEF Answer
<1> QED BY <1>1, <1>2

\* One callback for each of those who waited for r.
LEMMA AnswersElements ==
    ASSUME TypeOK, NEW d \in Devices, NEW r \in Records, NEW exists \in BOOLEAN
    PROVE  /\ Answers(d, r, exists) \in Seq(Callbacks)
           /\ \A i \in DOMAIN Answers(d, r, exists) :
                 /\ i \in DOMAIN waiting[d][r] /\ waiting[d][r][i] \in Askers
                 /\ Answers(d, r, exists)[i] = Answer(r, waiting[d][r][i], exists)
<1> DEFINE w == waiting[d][r]
           p == Answers(d, r, exists)
<1>1. w \in Seq(Askers) /\ DOMAIN w = 1 .. Len(w) /\ Len(w) \in Nat
  BY DEF TypeOK, ServerTypeOK
<1>2. p = [i \in DOMAIN w |-> Answer(r, w[i], exists)]
  BY DEF Answers
<1> HIDE DEF p, w
<1>3. ASSUME NEW i \in DOMAIN w
      PROVE  w[i] \in Askers /\ p[i] \in Callbacks
  <2>1. w[i] \in Askers /\ p[i] = Answer(r, w[i], exists)
    BY <1>1, <1>2
  <2> QED BY <2>1, AnswerType
<1>4. p \in Seq(Callbacks)
  BY <1>1, <1>2, <1>3
<1> QED BY <1>2, <1>3, <1>4 DEF p, w

\* The callbacks that come with the list: each of a read that waited.
ListenedReads(d, n, order) ==
    [i \in 1..n |->
        LET r == order[i][1]
        IN  Answer(r, waiting[d][r][order[i][2]], r \in Current(d))]

LEMMA ListenedElements ==
    ASSUME TypeOK, NEW d \in Devices, NEW n \in Nat,
           NEW order \in [1..n -> Reads(d)]
    PROVE  /\ ListenedReads(d, n, order) \in Seq(Callbacks)
           /\ \A i \in DOMAIN ListenedReads(d, n, order) :
                 \E r \in Records : \E j \in DOMAIN waiting[d][r] :
                     /\ waiting[d][r][j] \in Askers
                     /\ ListenedReads(d, n, order)[i] =
                           Answer(r, waiting[d][r][j], r \in Current(d))
<1> DEFINE p == ListenedReads(d, n, order)
<1>1. ASSUME NEW i \in 1 .. n
      PROVE  /\ p[i] \in Callbacks
             /\ \E r \in Records : \E j \in DOMAIN waiting[d][r] :
                     /\ waiting[d][r][j] \in Askers
                     /\ p[i] = Answer(r, waiting[d][r][j], r \in Current(d))
  <2>1. PICK r \in Records : order[i] \in {r} \X DOMAIN waiting[d][r]
    BY DEF Reads
  <2>2. order[i][1] = r /\ order[i][2] \in DOMAIN waiting[d][r]
    BY <2>1
  <2>3. waiting[d][r] \in Seq(Askers)
    BY DEF TypeOK, ServerTypeOK
  <2>4. waiting[d][r][order[i][2]] \in Askers
    BY <2>2, <2>3
  <2>5. p[i] = Answer(r, waiting[d][r][order[i][2]], r \in Current(d))
    BY <2>2 DEF ListenedReads
  <2> HIDE DEF p
  <2> DEFINE asker == waiting[d][r][order[i][2]]
             there == r \in Current(d)
  <2>6. there \in BOOLEAN /\ asker \in Askers /\ p[i] = Answer(r, asker, there)
    BY <2>4, <2>5
  <2> HIDE DEF asker, there
  <2>7. p[i] \in Callbacks
    BY <2>6, AnswerType
  <2> QED BY <2>2, <2>4, <2>5, <2>7
<1>2. p = [i \in 1 .. n |-> p[i]] /\ DOMAIN p = 1 .. n
  BY DEF ListenedReads
<1> HIDE DEF p
<1>3. p \in Seq(Callbacks)
  BY <1>1, <1>2
<1> QED BY <1>1, <1>2, <1>3 DEF p

-----------------------------------------------------------------------------
(* Steps of one phone. *)

\* A step of d leaves the clients of the other phones alone.
OnlyHere(d) ==
    \A e \in Devices \ {d} :
        /\ listen'[e] = listen[e] /\ cache'[e] = cache[e]
        /\ pending'[e] = pending[e] /\ waiting'[e] = waiting[e]

\* The keys of the calls, of the callbacks and of the reads that wait are in h.
CallsHeard(q, h) ==
    \A i \in DOMAIN q : q[i].op \in {"read", "set"} => KeyOf[q[i].c] \in h
BackHeard(q, h) ==
    \A i \in DOMAIN q : q[i].op = "read" => KeyOf[q[i].c] \in h
WaitsHeard(w, h) ==
    \A r \in Records : \A i \in DOMAIN w[r] :
        w[r][i] # "check" => KeyOf[r[2]] \in h
WritesHeard(p, h) == \A r \in p : KeyOf[r[2]] \in h

\* An action of d leaves the other phones alone; what remains is d itself.
LEMMA OnePhone ==
    ASSUME DeskInv, TypeOK', NEW d \in Devices, OnlyHere(d),
           \A e \in Devices \ {d} :
               /\ app'[e] = app[e] /\ fbq'[e] = fbq[e] /\ mainq'[e] = mainq[e]
               /\ heard'[e] = heard[e],
           heard[d] \subseteq heard'[d], records \subseteq records',
           \A r \in records' :
               r \in records \/ \E e \in Devices : KeyOf[r[2]] \in heard'[e],
           SelectionPaired(d)', CopyIsOld(d)', KeyHeard(d)'
    PROVE  DeskInv'
<1>1. ASSUME NEW e \in Devices \ {d}
      PROVE  SelectionPaired(e)' /\ CopyIsOld(e)' /\ KeyHeard(e)'
  <2>1. SelectionPaired(e) /\ CopyIsOld(e) /\ KeyHeard(e)
    BY DEF DeskInv
  <2>2. /\ app'[e] = app[e] /\ fbq'[e] = fbq[e] /\ mainq'[e] = mainq[e]
        /\ heard'[e] = heard[e]
        /\ listen'[e] = listen[e] /\ cache'[e] = cache[e]
        /\ pending'[e] = pending[e] /\ waiting'[e] = waiting[e]
    BY DEF OnlyHere
  <2>3. SelectionPaired(e)'
    BY <2>1, <2>2 DEF SelectionPaired
  <2>4. CopyIsOld(e)'
    BY <2>1, <2>2 DEF CopyIsOld, Answerable, Synced
  <2>5. KeyHeard(e)'
    BY <2>1, <2>2 DEF KeyHeard
  <2> QED BY <2>3, <2>4, <2>5
<1>2. \A e \in Devices : heard[e] \subseteq heard'[e]
  OBVIOUS
<1>3. NoRecordWithoutKey'
  BY <1>2 DEF DeskInv, NoRecordWithoutKey
<1> QED BY <1>1, <1>3 DEF DeskInv

\* The same, for a step that only changes what d shows, or who is signed in.
LEMMA AppOnly ==
    ASSUME DeskInv, NEW d \in Devices,
           UNCHANGED <<dbVars, fbq, mainq, heard, served>>,
           proc' \in [Devices -> {"running", "killed", "crashed"}],
           user' \in [Devices -> Users \cup {NoUser}],
           status' \in [Devices -> BOOLEAN],
           app' \in [Devices -> AppMemory],
           \A e \in Devices \ {d} : app'[e] = app[e],
           app'[d].currentT # NoCoupon => app'[d].token = KeyOf[app'[d].currentT]
    PROVE  DeskInv'
<1>1. TypeOK'
  BY DEF DeskInv, TypeOK, ServerTypeOK, dbVars
<1>2. SelectionPaired(d)'
  BY DEF SelectionPaired
<1>3. CopyIsOld(d)'
  BY DEF DeskInv, CopyIsOld, Answerable, Synced, dbVars
<1>4. KeyHeard(d)'
  BY DEF DeskInv, KeyHeard, dbVars
<1>5. OnlyHere(d) /\ records' = records
  BY DEF dbVars, OnlyHere
<1> QED BY <1>1, <1>2, <1>3, <1>4, <1>5, OnePhone

\* What a step of d has to show of its new memory, queues, reads and writes.
LEMMA PhoneStep ==
    ASSUME DeskInv, NEW d \in Devices, NEW a \in AppMemory,
           NEW calls \in Seq(Calls), NEW rest \in Seq(Callbacks),
           NEW h \in SUBSET (Keys \cup {NoKey}), heard[d] \subseteq h,
           app' = [app EXCEPT ![d] = a], fbq' = [fbq EXCEPT ![d] = calls],
           mainq' = [mainq EXCEPT ![d] = rest],
           heard' = [heard EXCEPT ![d] = h],
           UNCHANGED <<proc, user, status>>, served' \in [Records -> Nat],
           ServerTypeOK(Askers)', OnlyHere(d), records \subseteq records',
           \A r \in records' :
               r \in records \/ \E e \in Devices : KeyOf[r[2]] \in heard'[e],
           a.currentT # NoCoupon => a.token = KeyOf[a.currentT],
           CopyIsOld(d)',
           CallsHeard(calls, h), BackHeard(rest, h),
           WaitsHeard(waiting'[d], h), WritesHeard(pending'[d], h)
    PROVE  DeskInv'
<1>1. /\ app'[d] = a /\ fbq'[d] = calls /\ mainq'[d] = rest /\ heard'[d] = h
      /\ \A e \in Devices \ {d} :
            /\ app'[e] = app[e] /\ fbq'[e] = fbq[e] /\ mainq'[e] = mainq[e]
            /\ heard'[e] = heard[e]
  BY DEF DeskInv, TypeOK
<1>2. TypeOK'
  BY DEF DeskInv, TypeOK
<1>3. SelectionPaired(d)'
  BY <1>1 DEF SelectionPaired
<1>4. KeyHeard(d)'
  BY <1>1 DEF KeyHeard, CallsHeard, BackHeard, WaitsHeard, WritesHeard
<1> QED BY <1>1, <1>2, <1>3, <1>4, OnePhone

\* What DeskInv says of d, in the form the steps use.
LEMMA PhoneState ==
    ASSUME DeskInv, NEW d \in Devices
    PROVE  /\ TypeOK /\ app[d] \in AppMemory /\ fbq[d] \in Seq(Calls)
           /\ mainq[d] \in Seq(Callbacks)
           /\ heard[d] \in SUBSET (Keys \cup {NoKey})
           /\ waiting[d] \in [Records -> Seq(Askers)]
           /\ pending[d] \in SUBSET Records
           /\ app[d].currentT # NoCoupon => app[d].token = KeyOf[app[d].currentT]
           /\ CopyIsOld(d)
           /\ CallsHeard(fbq[d], heard[d]) /\ BackHeard(mainq[d], heard[d])
           /\ WaitsHeard(waiting[d], heard[d]) /\ WritesHeard(pending[d], heard[d])
           /\ app = [app EXCEPT ![d] = app[d]]
           /\ fbq = [fbq EXCEPT ![d] = fbq[d]]
           /\ mainq = [mainq EXCEPT ![d] = mainq[d]]
           /\ heard = [heard EXCEPT ![d] = heard[d]]
           /\ waiting = [waiting EXCEPT ![d] = waiting[d]]
<1>1. TypeOK /\ SelectionPaired(d) /\ CopyIsOld(d) /\ KeyHeard(d)
  BY DEF DeskInv
<1>2. /\ app \in [Devices -> AppMemory] /\ fbq \in [Devices -> Seq(Calls)]
      /\ mainq \in [Devices -> Seq(Callbacks)]
      /\ heard \in [Devices -> SUBSET (Keys \cup {NoKey})]
      /\ waiting \in [Devices -> [Records -> Seq(Askers)]]
      /\ pending \in [Devices -> SUBSET Records]
  BY <1>1 DEF TypeOK, ServerTypeOK
<1>3. /\ CallsHeard(fbq[d], heard[d]) /\ BackHeard(mainq[d], heard[d])
      /\ WaitsHeard(waiting[d], heard[d]) /\ WritesHeard(pending[d], heard[d])
  BY <1>1 DEF KeyHeard, CallsHeard, BackHeard, WaitsHeard, WritesHeard
<1> QED BY <1>1, <1>2, <1>3 DEF SelectionPaired

\* The memory of a new process.
LEMMA StartedType ==
    ASSUME NEW screen \in Screens
    PROVE  /\ Started(screen) \in AppMemory
           /\ Started(screen).currentT = NoCoupon
           /\ Started(screen).listed = FALSE
BY DEF Started, AppMemory, Alerts

\* Nothing waits, and nothing answers, in a client without reads.
LEMMA NoReadsType ==
    /\ NoReads \in [Records -> Seq(Askers)]
    /\ \A r \in Records : NoReads[r] = <<>> /\ DOMAIN NoReads[r] = {}
BY DEF NoReads

\* A dead process leaves nothing behind that could break the invariant.
LEMMA TerminateInv ==
    ASSUME DeskInv, NEW d \in Devices, NEW how \in {"killed", "crashed"},
           Terminate(d, how)
    PROVE  DeskInv'
<1>1. /\ Started("login") \in AppMemory
      /\ Started("login").currentT = NoCoupon
  BY StartedType DEF Screens
<1>2. /\ proc' = [proc EXCEPT ![d] = how]
      /\ app' = [app EXCEPT ![d] = Started("login")]
      /\ fbq' = [fbq EXCEPT ![d] = <<>>] /\ mainq' = [mainq EXCEPT ![d] = <<>>]
      /\ UNCHANGED <<user, status, heard, served>>
  BY DEF Terminate
<1>3. /\ listen' = [listen EXCEPT ![d] = "none"]
      /\ cache' = [cache EXCEPT ![d] = {}]
      /\ pending' = [pending EXCEPT ![d] = {}]
      /\ waiting' = [waiting EXCEPT ![d] = NoReads]
      /\ UNCHANGED <<records, refused>>
  BY DEF Terminate, ForgetClient
<1>4. TypeOK
  BY DEF DeskInv
<1>5. ServerTypeOK(Askers)' /\ OnlyHere(d)
  BY <1>3, <1>4, NoReadsType DEF TypeOK, ServerTypeOK, OnlyHere
<1>6. /\ TypeOK' /\ app'[d] = Started("login") /\ fbq'[d] = <<>>
      /\ mainq'[d] = <<>>
      /\ \A e \in Devices \ {d} :
            app'[e] = app[e] /\ fbq'[e] = fbq[e] /\ mainq'[e] = mainq[e]
  BY <1>1, <1>2, <1>4, <1>5 DEF TypeOK
<1>7. /\ listen'[d] = "none" /\ cache'[d] = {} /\ pending'[d] = {}
      /\ waiting'[d] = NoReads
  BY <1>3, <1>4 DEF TypeOK, ServerTypeOK
<1>8. SelectionPaired(d)'
  BY <1>1, <1>6 DEF SelectionPaired
<1>9. CopyIsOld(d)'
  BY <1>7, NoReadsType DEF CopyIsOld, Answerable, Synced
<1>10. KeyHeard(d)'
  BY <1>6, <1>7, NoReadsType DEF KeyHeard
<1> QED
  BY <1>2, <1>3, <1>5, <1>6, <1>8, <1>9, <1>10, OnePhone

\* Validations whose controller is gone are of the same coupons.
LEMMA OrphanHeard ==
    ASSUME DeskInv, NEW d \in Devices, NEW s \in Givers
    PROVE  /\ Orphan(fbq[d], s) \in Seq(Calls)
           /\ CallsHeard(Orphan(fbq[d], s), heard[d])
           /\ Orphan(mainq[d], s) \in Seq(Callbacks)
           /\ BackHeard(Orphan(mainq[d], s), heard[d])
           /\ OrphanReads(waiting[d], s) \in [Records -> Seq(Askers)]
           /\ WaitsHeard(OrphanReads(waiting[d], s), heard[d])
           /\ \A r \in Records :
                 OrphanReads(waiting[d], s)[r] = <<>> <=> waiting[d][r] = <<>>
<1>1. /\ Orphan(fbq[d], s) \in Seq(Calls)
      /\ CallsHeard(Orphan(fbq[d], s), heard[d])
  BY PhoneState, OrphanCalls DEF CallsHeard
<1>2. /\ Orphan(mainq[d], s) \in Seq(Callbacks)
      /\ BackHeard(Orphan(mainq[d], s), heard[d])
  <2> DEFINE q == mainq[d]
             o == Orphan(q, s)
  <2>1. q \in Seq(Callbacks) /\ BackHeard(q, heard[d])
    BY PhoneState
  <2> HIDE DEF q
  <2>2. o \in Seq(Callbacks) /\ DOMAIN o = DOMAIN q
        /\ \A i \in DOMAIN q : o[i].op = q[i].op /\ o[i].c = q[i].c
    BY <2>1, OrphanCallbacks
  <2> HIDE DEF o
  <2>3. BackHeard(o, heard[d])
    BY <2>1, <2>2 DEF BackHeard
  <2> QED BY <2>2, <2>3 DEF q, o
<1> DEFINE w == waiting[d]
           p == OrphanReads(w, s)
<1>3. w \in [Records -> Seq(Askers)] /\ WaitsHeard(w, heard[d])
  BY PhoneState
<1> HIDE DEF w
<1>4. /\ p \in [Records -> Seq(Askers)]
      /\ \A r \in Records :
            /\ DOMAIN p[r] = DOMAIN w[r] /\ (p[r] = <<>> <=> w[r] = <<>>)
            /\ \A i \in DOMAIN w[r] : p[r][i] = "check" <=> w[r][i] = "check"
  BY <1>3, OrphanWaits
<1> HIDE DEF p
<1>5. WaitsHeard(p, heard[d])
  BY <1>3, <1>4 DEF WaitsHeard
<1> QED BY <1>1, <1>2, <1>4, <1>5 DEF p, w

\* The client of d, when a step does no more than replace its waiting reads.
LEMMA WaitsReplaced ==
    ASSUME DeskInv, NEW d \in Devices, NEW w \in [Records -> Seq(Askers)],
           waiting' = [waiting EXCEPT ![d] = w],
           UNCHANGED <<records, listen, cache, pending, refused>>
    PROVE  /\ ServerTypeOK(Askers)' /\ OnlyHere(d) /\ waiting'[d] = w
           /\ pending'[d] = pending[d]
           /\ (\A r \in Records : w[r] # <<>> => ~Answerable(d, r))
                 => CopyIsOld(d)'
<1>1. TypeOK /\ CopyIsOld(d)
  BY DEF DeskInv
<1>2. ServerTypeOK(Askers)' /\ OnlyHere(d) /\ waiting'[d] = w
  BY <1>1 DEF TypeOK, ServerTypeOK, OnlyHere
<1>3. (\A r \in Records : w[r] # <<>> => ~Answerable(d, r)) => CopyIsOld(d)'
  BY <1>1, <1>2 DEF CopyIsOld, Answerable, Synced
<1> QED BY <1>2, <1>3

\* A step of the app that leaves the client alone, or only who waits for it.
LEMMA QueueStep ==
    ASSUME DeskInv, NEW d \in Devices, NEW a \in AppMemory,
           NEW calls \in Seq(Calls), NEW rest \in Seq(Callbacks),
           NEW w \in [Records -> Seq(Askers)],
           NEW h \in SUBSET (Keys \cup {NoKey}), heard[d] \subseteq h,
           app' = [app EXCEPT ![d] = a], fbq' = [fbq EXCEPT ![d] = calls],
           mainq' = [mainq EXCEPT ![d] = rest],
           waiting' = [waiting EXCEPT ![d] = w],
           heard' = [heard EXCEPT ![d] = h],
           UNCHANGED <<records, listen, cache, pending, refused>>,
           UNCHANGED <<proc, user, status>>, served' \in [Records -> Nat],
           a.currentT # NoCoupon => a.token = KeyOf[a.currentT],
           CallsHeard(calls, h), BackHeard(rest, h), WaitsHeard(w, h),
           \A r \in Records : w[r] # <<>> => ~Answerable(d, r)
    PROVE  DeskInv'
<1>1. /\ ServerTypeOK(Askers)' /\ OnlyHere(d) /\ CopyIsOld(d)'
      /\ waiting'[d] = w /\ pending'[d] = pending[d]
  BY WaitsReplaced
<1>2. WaitsHeard(waiting'[d], h)
  BY <1>1
<1>3. WritesHeard(pending'[d], h)
  BY <1>1, PhoneState DEF WritesHeard
<1>4. records' = records
  OBVIOUS
<1> QED BY <1>1, <1>2, <1>3, <1>4, PhoneStep

\* check() queues at most one more read, and only of listed coupons.
LEMMA CheckInv ==
    ASSUME DeskInv, NEW d \in Devices,
           NEW a \in AppMemory, NEW calls \in Seq(Calls), NEW rest \in Seq(Callbacks),
           NEW w \in [Records -> Seq(Askers)],
           a.token = app[d].token, a.currentT = app[d].currentT,
           CallsHeard(calls, heard[d]), BackHeard(rest, heard[d]),
           WaitsHeard(w, heard[d]),
           \A r \in Records : w[r] = <<>> <=> waiting[d][r] = <<>>,
           check(d, a, calls, rest, w)
    PROVE  DeskInv'
<1> DEFINE x == [op |-> "check", u |-> user[d]]
           new == IF a.listed THEN Push(calls, x) ELSE calls
<1>1. CASE a.listed /\ user[d] = NoUser /\ Terminate(d, "crashed")
  BY <1>1, TerminateInv
<1>2. CASE /\ a.listed => user[d] # NoUser
           /\ app' = [app EXCEPT ![d] = a]
           /\ mainq' = [mainq EXCEPT ![d] = rest]
           /\ fbq' = [fbq EXCEPT ![d] = new]
           /\ waiting' = [waiting EXCEPT ![d] = w]
           /\ UNCHANGED <<records, listen, cache, pending, refused,
                          proc, user, status, heard, served>>
  <2>1. a.listed => x \in Calls
    BY <1>2 DEF DeskInv, TypeOK, Calls
  <2>2. new \in Seq(Calls) /\ CallsHeard(new, heard[d])
    <3>1. CASE a.listed
      <4>1. /\ new \in Seq(Calls)
            /\ \A i \in DOMAIN new :
                  new[i] = x \/ \E j \in DOMAIN calls : new[i] = calls[j]
        BY <3>1, <2>1, PushElements
      <4>2. x.op = "check"
        OBVIOUS
      <4> HIDE DEF new, x
      <4> QED BY <4>1, <4>2 DEF CallsHeard
    <3>2. CASE ~a.listed
      BY <3>2
    <3> QED BY <3>1, <3>2
  <2> HIDE DEF new
  <2>3. /\ heard' = [heard EXCEPT ![d] = heard[d]]
        /\ heard[d] \in SUBSET (Keys \cup {NoKey})
        /\ served' \in [Records -> Nat]
        /\ a.currentT # NoCoupon => a.token = KeyOf[a.currentT]
    BY <1>2, PhoneState DEF TypeOK
  <2>4. \A r \in Records : w[r] # <<>> => ~Answerable(d, r)
    BY PhoneState DEF CopyIsOld
  <2> QED BY <1>2, <2>2, <2>3, <2>4, QueueStep
<1> QED BY <1>1, <1>2 DEF check

-----------------------------------------------------------------------------
(* The user's steps. *)

\* Screens, alerts and sign-ins: the selection and the queues stay.
LEMMA ScreenInv ==
    ASSUME DeskInv, NEW d \in Devices,
           \/ MicButton(d) \/ SomethingWrong(d) \/ WrongPassword(d)
           \/ DismissAlert(d) \/ HandleTap(d) \/ DownButton(d) \/ VisitOther(d)
           \/ Logout(d) \/ SignOutIfTokenIsInvalid(d)
           \/ \E u \in Users : Login(d, u)
    PROVE  DeskInv'
<1> USE DEF DeskInv, TypeOK
<1>0. /\ app[d] \in AppMemory
      /\ app[d].currentT # NoCoupon =>
            app[d].token = KeyOf[app[d].currentT]
  BY DEF SelectionPaired
<1>1. /\ UNCHANGED <<dbVars, proc, fbq, mainq, heard, served>>
      /\ user' \in [Devices -> Users \cup {NoUser}]
      /\ status' \in [Devices -> BOOLEAN]
  BY DEF MicButton, SomethingWrong, WrongPassword, DismissAlert, HandleTap,
         DownButton, VisitOther, Logout, SignOutIfTokenIsInvalid, Login
<1>2. \E a \in AppMemory :
         /\ app' = [app EXCEPT ![d] = a]
         /\ a.token = app[d].token /\ a.currentT = app[d].currentT
  <2> DEFINE same(a) == /\ a.token = app[d].token
                        /\ a.currentT = app[d].currentT
  <2> SUFFICES \E a \in AppMemory : app' = [app EXCEPT ![d] = a] /\ same(a)
    OBVIOUS
  <2>1. CASE MicButton(d)
    <3> DEFINE a == [app[d] EXCEPT !.listening = ~@]
    <3>1. a \in AppMemory /\ same(a)
      BY <1>0 DEF AppMemory
    <3>2. app' = [app EXCEPT ![d] = a]
      BY <2>1 DEF MicButton
    <3> QED BY <3>1, <3>2
  <2>2. CASE \E screen \in Screens : app' = [app EXCEPT ![d].screen = screen]
    <3>1. PICK screen \in Screens : app' = [app EXCEPT ![d].screen = screen]
      BY <2>2
    <3> DEFINE a == [app[d] EXCEPT !.screen = screen]
    <3>2. a \in AppMemory /\ same(a)
      BY <1>0 DEF AppMemory
    <3>3. app' = [app EXCEPT ![d] = a]
      BY <3>1
    <3> QED BY <3>2, <3>3
  <2>3. CASE HandleTap(d)
    <3> DEFINE a == [app[d] EXCEPT !.screen = "menu", !.listening = FALSE]
    <3>1. a \in AppMemory /\ same(a)
      BY <1>0 DEF AppMemory, Screens
    <3>2. app' = [app EXCEPT ![d] = a]
      BY <2>3 DEF HandleTap
    <3> QED BY <3>1, <3>2
  <2>4. CASE WrongPassword(d)
    <3> DEFINE a == Present(app[d], "wrong", "other")
    <3>1. a \in AppMemory /\ same(a)
      BY <1>0 DEF AppMemory, Alerts, Present
    <3>2. app' = [app EXCEPT ![d] = a]
      BY <2>4 DEF WrongPassword
    <3> QED BY <3>1, <3>2
  <2>5. CASE DismissAlert(d)
    <3> DEFINE a == [app[d] EXCEPT !.message = "none"]
    <3>1. a \in AppMemory /\ same(a)
      BY <1>0 DEF AppMemory, Alerts
    <3>2. app' = [app EXCEPT ![d] = a]
      BY <2>5 DEF DismissAlert
    <3> QED BY <3>1, <3>2
  <2>6. CASE SignOutIfTokenIsInvalid(d)
    <3>1. app' = [app EXCEPT ![d] = app[d]] /\ same(app[d])
      BY <2>6 DEF SignOutIfTokenIsInvalid
    <3> QED BY <1>0, <3>1
  <2>7. CASE SomethingWrong(d) \/ DownButton(d) \/ VisitOther(d)
             \/ Logout(d) \/ \E u \in Users : Login(d, u)
    BY <2>2, <2>7 DEF SomethingWrong, DownButton, VisitOther, Logout, Login, Screens
  <2> QED BY <2>1, <2>3, <2>4, <2>5, <2>6, <2>7
<1>3. PICK a \in AppMemory : /\ app' = [app EXCEPT ![d] = a]
                             /\ a.token = app[d].token
                             /\ a.currentT = app[d].currentT
  BY <1>2
<1>4. /\ app' \in [Devices -> AppMemory] /\ app'[d] = a
      /\ \A e \in Devices \ {d} : app'[e] = app[e]
  BY <1>3
<1> QED BY <1>0, <1>1, <1>3, <1>4, AppOnly

\* The two taps on a row.
LEMMA SelectRowInv ==
    ASSUME DeskInv, NEW d \in Devices, NEW c \in Coupons, SelectRow(d, c)
    PROVE  DeskInv'
<1>1. app[d] \in AppMemory
  BY DEF DeskInv, TypeOK
<1>2. KeyOf[c] \in Keys \cup {NoKey}
  BY KeysAssumption
<1> DEFINE a == Selected(app[d], c)
<1>3. /\ a \in AppMemory
      /\ a.currentT # NoCoupon => a.token = KeyOf[a.currentT]
  <2>1. CASE app[d].k = 0
    BY <1>1, <1>2, <2>1 DEF Selected, AppMemory
  <2>2. CASE app[d].k # 0
    BY <1>1, <2>2 DEF Selected, AppMemory
  <2> QED BY <2>1, <2>2
<1>4. /\ app' \in [Devices -> AppMemory] /\ app'[d] = a
      /\ \A e \in Devices \ {d} : app'[e] = app[e]
  BY <1>3 DEF SelectRow, DeskInv, TypeOK
<1>5. UNCHANGED <<dbVars, proc, user, status, fbq, mainq, heard, served>>
  BY DEF SelectRow
<1> QED BY <1>1, <1>3, <1>4, <1>5, AppOnly DEF DeskInv, TypeOK

\* Killing, and starting again.
LEMMA LaunchInv ==
    ASSUME DeskInv, NEW d \in Devices, Launch(d)
    PROVE  DeskInv'
<1> DEFINE a == Started(IF status[d] THEN "elsewhere" ELSE "login")
<1>1. a \in AppMemory /\ a.currentT = NoCoupon
  BY StartedType DEF Screens
<1>2. /\ app' \in [Devices -> AppMemory] /\ app'[d] = a
      /\ \A e \in Devices \ {d} : app'[e] = app[e]
      /\ proc' \in [Devices -> {"running", "killed", "crashed"}]
      /\ UNCHANGED <<dbVars, user, status, fbq, mainq, heard, served>>
  BY <1>1 DEF Launch, DeskInv, TypeOK
<1> QED BY <1>1, <1>2, AppOnly DEF DeskInv, TypeOK

\* A new coupons screen: older validations answer to nobody, one more observer.
LEMMA VisitCouponsInv ==
    ASSUME DeskInv, NEW d \in Devices, VisitCoupons(d)
    PROVE  DeskInv'
<1> DEFINE x == [op |-> "observe"]
           old == Orphan(fbq[d], "coupons")
           new == Append(old, x)
           rest == Orphan(mainq[d], "coupons")
           w == OrphanReads(waiting[d], "coupons")
           a == [app[d] EXCEPT !.screen = "coupons", !.k = 0, !.listed = FALSE]
<1>1. /\ old \in Seq(Calls) /\ CallsHeard(old, heard[d])
      /\ rest \in Seq(Callbacks) /\ BackHeard(rest, heard[d])
      /\ w \in [Records -> Seq(Askers)] /\ WaitsHeard(w, heard[d])
      /\ \A r \in Records : w[r] = <<>> <=> waiting[d][r] = <<>>
  BY OrphanHeard DEF Givers
<1>2. a \in AppMemory /\ (a.currentT # NoCoupon => a.token = KeyOf[a.currentT])
  <2>1. /\ app[d] \in AppMemory
        /\ app[d].currentT # NoCoupon => app[d].token = KeyOf[app[d].currentT]
    BY PhoneState
  <2> QED BY <2>1 DEF AppMemory, Screens
<1>3. /\ app' = [app EXCEPT ![d] = a] /\ fbq' = [fbq EXCEPT ![d] = new]
      /\ mainq' = [mainq EXCEPT ![d] = rest]
      /\ waiting' = [waiting EXCEPT ![d] = w]
      /\ UNCHANGED <<records, listen, cache, pending, refused,
                     proc, user, status, heard, served>>
  BY DEF VisitCoupons
<1> HIDE DEF old, rest, w, a
<1>4. new \in Seq(Calls) /\ CallsHeard(new, heard[d])
  <2>1. x \in Calls /\ x.op = "observe"
    BY DEF Calls
  <2>2. /\ new \in Seq(Calls)
        /\ \A i \in DOMAIN new :
              new[i] = x \/ \E j \in DOMAIN old : new[i] = old[j]
    BY <1>1, <2>1, AppendElements
  <2> HIDE DEF new, x
  <2> QED BY <1>1, <2>1, <2>2 DEF CallsHeard
<1> HIDE DEF new
<1>5. /\ heard' = [heard EXCEPT ![d] = heard[d]]
      /\ heard[d] \in SUBSET (Keys \cup {NoKey})
      /\ served' \in [Records -> Nat]
  BY <1>3, PhoneState DEF TypeOK
<1>6. \A r \in Records : w[r] # <<>> => ~Answerable(d, r)
  BY <1>1, PhoneState DEF CopyIsOld
<1> QED BY <1>1, <1>2, <1>3, <1>4, <1>5, <1>6, QueueStep

\* Back on the coupons screen, with or without viewDidAppear's check().
LEMMA BackButtonInv ==
    ASSUME DeskInv, NEW d \in Devices, BackButtonPressed(d)
    PROVE  DeskInv'
<1> DEFINE a == [app[d] EXCEPT !.screen = "coupons"]
           calls == Orphan(fbq[d], "wrong")
           rest == Orphan(mainq[d], "wrong")
           w == OrphanReads(waiting[d], "wrong")
<1>1. /\ calls \in Seq(Calls) /\ CallsHeard(calls, heard[d])
      /\ rest \in Seq(Callbacks) /\ BackHeard(rest, heard[d])
      /\ w \in [Records -> Seq(Askers)] /\ WaitsHeard(w, heard[d])
      /\ \A r \in Records : w[r] = <<>> <=> waiting[d][r] = <<>>
  BY OrphanHeard DEF Givers
<1>2. /\ a \in AppMemory /\ a.token = app[d].token
      /\ a.currentT = app[d].currentT
  <2>1. app[d] \in AppMemory
    BY PhoneState
  <2> QED BY <2>1 DEF AppMemory, Screens
<1>3. \/ check(d, a, calls, rest, w)
      \/ /\ app' = [app EXCEPT ![d] = a]
         /\ fbq' = [fbq EXCEPT ![d] = calls]
         /\ mainq' = [mainq EXCEPT ![d] = rest]
         /\ waiting' = [waiting EXCEPT ![d] = w]
         /\ UNCHANGED <<records, listen, cache, pending, refused,
                        proc, user, status, heard, served>>
  BY DEF BackButtonPressed
<1> HIDE DEF calls, rest, w, a
<1>4. CASE check(d, a, calls, rest, w)
  BY <1>1, <1>2, <1>4, CheckInv
<1>5. CASE ~check(d, a, calls, rest, w)
  <2>1. /\ app' = [app EXCEPT ![d] = a]
        /\ fbq' = [fbq EXCEPT ![d] = calls]
        /\ mainq' = [mainq EXCEPT ![d] = rest]
        /\ waiting' = [waiting EXCEPT ![d] = w]
        /\ UNCHANGED <<records, listen, cache, pending, refused,
                       proc, user, status, heard, served>>
    BY <1>3, <1>5
  <2>2. /\ heard' = [heard EXCEPT ![d] = heard[d]]
        /\ heard[d] \in SUBSET (Keys \cup {NoKey})
        /\ served' \in [Records -> Nat]
        /\ a.currentT # NoCoupon => a.token = KeyOf[a.currentT]
    BY <1>2, <2>1, PhoneState DEF TypeOK
  <2>3. \A r \in Records : w[r] # <<>> => ~Answerable(d, r)
    BY <1>1, PhoneState DEF CopyIsOld
  <2> QED BY <1>1, <1>2, <2>1, <2>2, <2>3, QueueStep
<1> QED BY <1>4, <1>5

\* Alerts do not touch the selection.
LEMMA PresentType ==
    ASSUME NEW a \in AppMemory, NEW via, NEW alert \in Alerts
    PROVE  /\ Present(a, via, alert) \in AppMemory
           /\ Present(a, via, alert).token = a.token
           /\ Present(a, via, alert).currentT = a.currentT
           /\ Present(a, via, alert).listed = a.listed
           /\ Present(a, via, alert).reedeemedArr = a.reedeemedArr
BY DEF Present, AppMemory

\* A read is begun only for a selection whose key has just been received.
LEMMA ValidateInv ==
    ASSUME DeskInv, NEW d \in Devices, NEW a \in AppMemory,
           a.token = app[d].token, a.currentT = app[d].currentT,
           NEW key \in Keys \cup {NoKey}, NEW via \in Givers,
           validateToken(d, a, key, via)
    PROVE  DeskInv'
<1> DEFINE x == [op |-> "read", u |-> user[d], c |-> a.currentT, via |-> via]
<1>1. CASE /\ Verdict(a, key) = "match" /\ user[d] # NoUser
           /\ app' = [app EXCEPT ![d] = a]
           /\ fbq' = [fbq EXCEPT ![d] = Append(@, x)]
           /\ heard' = [heard EXCEPT ![d] = @ \cup {key}]
           /\ UNCHANGED <<dbVars, proc, user, status, mainq, served>>
  <2> DEFINE calls == Append(fbq[d], x)
             h == heard[d] \cup {key}
             w == waiting[d]
             rest == mainq[d]
  <2>1. a.currentT # NoCoupon /\ a.token = key
    BY <1>1 DEF Verdict
  <2>2. x \in Calls
    BY <1>1, <2>1 DEF Calls, DeskInv, TypeOK, AppMemory
  <2>3. KeyOf[x.c] = key
    BY <2>1, PhoneState
  <2>4. /\ calls \in Seq(Calls)
        /\ \A i \in DOMAIN calls :
              calls[i] = x \/ \E j \in DOMAIN fbq[d] : calls[i] = fbq[d][j]
    BY <2>2, PhoneState, AppendElements
  <2>5. /\ h \in SUBSET (Keys \cup {NoKey}) /\ heard[d] \subseteq h
        /\ fbq' = [fbq EXCEPT ![d] = calls]
        /\ heard' = [heard EXCEPT ![d] = h]
        /\ mainq' = [mainq EXCEPT ![d] = rest] /\ rest \in Seq(Callbacks)
        /\ waiting' = [waiting EXCEPT ![d] = w]
        /\ w \in [Records -> Seq(Askers)]
        /\ UNCHANGED <<records, listen, cache, pending, refused,
                       proc, user, status, served>>
    BY <1>1, PhoneState DEF x, dbVars
  <2> HIDE DEF x, calls
  <2>6. CallsHeard(calls, h)
    BY <2>3, <2>4, PhoneState DEF CallsHeard
  <2>7. BackHeard(rest, h) /\ WaitsHeard(w, h)
    BY PhoneState DEF BackHeard, WaitsHeard
  <2>8. \A r \in Records : w[r] # <<>> => ~Answerable(d, r)
    BY PhoneState DEF CopyIsOld
  <2>9. /\ app' = [app EXCEPT ![d] = a] /\ served' \in [Records -> Nat]
        /\ a.currentT # NoCoupon => a.token = KeyOf[a.currentT]
    BY <1>1, PhoneState DEF TypeOK
  <2> HIDE DEF h, w, rest
  <2> QED BY <2>4, <2>5, <2>6, <2>7, <2>8, <2>9, QueueStep
<1>2. CASE Terminate(d, "crashed")
  BY <1>2, TerminateInv
<1>3. CASE /\ Verdict(a, key) # "match"
           /\ app' = [app EXCEPT ![d] = Present(a, via, Verdict(a, key))]
           /\ UNCHANGED <<dbVars, proc, user, status, fbq, mainq, heard, served>>
  <2> DEFINE b == Present(a, via, Verdict(a, key))
  <2>1. Verdict(a, key) \in Alerts
    BY <1>3 DEF Verdict, Alerts
  <2>2. /\ b \in AppMemory /\ b.token = app[d].token
        /\ b.currentT = app[d].currentT
    BY <2>1, PresentType
  <2> HIDE DEF b
  <2>3. /\ app' \in [Devices -> AppMemory] /\ app'[d] = b
        /\ \A e \in Devices \ {d} : app'[e] = app[e]
    BY <1>3, <2>2 DEF DeskInv, TypeOK, b
  <2>4. /\ UNCHANGED <<dbVars, fbq, mainq, heard, served>>
        /\ proc' \in [Devices -> {"running", "killed", "crashed"}]
        /\ user' \in [Devices -> Users \cup {NoUser}]
        /\ status' \in [Devices -> BOOLEAN]
    BY <1>3 DEF DeskInv, TypeOK
  <2>5. b.currentT # NoCoupon => b.token = KeyOf[b.currentT]
    BY <2>2, PhoneState
  <2> QED BY <2>3, <2>4, <2>5, AppOnly
<1> QED BY <1>1, <1>2, <1>3 DEF validateToken

\* Keys arrive by sound, or are typed.
LEMMA KeyInv ==
    ASSUME DeskInv, NEW d \in Devices, NEW key \in Keys \cup {NoKey},
           DataReceived(d, key) \/ AdminBypassAdd(d, key)
    PROVE  DeskInv'
<1> DEFINE a == [app[d] EXCEPT !.listening = FALSE]
<1>0. app[d] \in AppMemory
  BY PhoneState
<1>1. /\ a \in AppMemory /\ a.token = app[d].token
      /\ a.currentT = app[d].currentT
  BY <1>0 DEF AppMemory
<1>2. CASE DataReceived(d, key)
  <2>1. validateToken(d, a, key, "coupons") /\ "coupons" \in Givers
    BY <1>2 DEF DataReceived, Givers
  <2> HIDE DEF a
  <2> QED BY <1>1, <2>1, ValidateInv
<1>3. CASE AdminBypassAdd(d, key)
  <2>1. validateToken(d, app[d], key, "wrong") /\ "wrong" \in Givers
    BY <1>3 DEF AdminBypassAdd, Givers
  <2> QED BY <2>1, PhoneState, ValidateInv
<1> QED BY <1>2, <1>3

-----------------------------------------------------------------------------
(* Steps that move calls and callbacks. *)

\* The rest of a queue is as good as the queue.
LEMMA TailState ==
    ASSUME DeskInv, NEW d \in Devices
    PROVE  /\ fbq[d] # <<>> =>
                /\ Head(fbq[d]) \in Calls /\ Tail(fbq[d]) \in Seq(Calls)
                /\ Head(fbq[d]).op \in {"read", "set"} =>
                      KeyOf[Head(fbq[d]).c] \in heard[d]
                /\ CallsHeard(Tail(fbq[d]), heard[d])
           /\ mainq[d] # <<>> =>
                /\ Head(mainq[d]) \in Callbacks /\ Tail(mainq[d]) \in Seq(Callbacks)
                /\ Head(mainq[d]).op = "read" =>
                      KeyOf[Head(mainq[d]).c] \in heard[d]
                /\ BackHeard(Tail(mainq[d]), heard[d])
<1>1. ASSUME fbq[d] # <<>>
      PROVE  /\ Head(fbq[d]) \in Calls /\ Tail(fbq[d]) \in Seq(Calls)
             /\ 1 \in DOMAIN fbq[d] /\ Head(fbq[d]) = fbq[d][1]
             /\ \A i \in DOMAIN Tail(fbq[d]) : \E j \in DOMAIN fbq[d] :
                   Tail(fbq[d])[i] = fbq[d][j]
  BY <1>1, PhoneState, TailElements
<1>2. ASSUME mainq[d] # <<>>
      PROVE  /\ Head(mainq[d]) \in Callbacks /\ Tail(mainq[d]) \in Seq(Callbacks)
             /\ 1 \in DOMAIN mainq[d] /\ Head(mainq[d]) = mainq[d][1]
             /\ \A i \in DOMAIN Tail(mainq[d]) : \E j \in DOMAIN mainq[d] :
                   Tail(mainq[d])[i] = mainq[d][j]
  BY <1>2, PhoneState, TailElements
<1>3. CallsHeard(fbq[d], heard[d]) /\ BackHeard(mainq[d], heard[d])
  BY PhoneState
<1> QED BY <1>1, <1>2, <1>3 DEF CallsHeard, BackHeard

\* One more callback, or its elements and those of another queue.
LEMMA MoreHeard ==
    ASSUME NEW q \in Seq(Callbacks), NEW h, BackHeard(q, h)
    PROVE  /\ \A p \in Seq(Callbacks) :
                 BackHeard(p, h) => q \o p \in Seq(Callbacks) /\ BackHeard(q \o p, h)
           /\ \A x \in Callbacks :
                 (x.op = "read" => KeyOf[x.c] \in h) =>
                     /\ Append(q, x) \in Seq(Callbacks) /\ BackHeard(Append(q, x), h)
                     /\ Push(q, x) \in Seq(Callbacks) /\ BackHeard(Push(q, x), h)
<1>1. ASSUME NEW p \in Seq(Callbacks), BackHeard(p, h)
      PROVE  q \o p \in Seq(Callbacks) /\ BackHeard(q \o p, h)
  <2> DEFINE s == q \o p
  <2>1. /\ s \in Seq(Callbacks)
        /\ \A i \in DOMAIN s : \/ \E j \in DOMAIN q : s[i] = q[j]
                               \/ \E j \in DOMAIN p : s[i] = p[j]
    BY ConcatElements
  <2> HIDE DEF s
  <2>2. BackHeard(s, h)
    BY <1>1, <2>1 DEF BackHeard
  <2> QED BY <2>1, <2>2 DEF s
<1>2. ASSUME NEW x \in Callbacks, x.op = "read" => KeyOf[x.c] \in h
      PROVE  /\ Append(q, x) \in Seq(Callbacks) /\ BackHeard(Append(q, x), h)
             /\ Push(q, x) \in Seq(Callbacks) /\ BackHeard(Push(q, x), h)
  <2> DEFINE s == Append(q, x)
             t == Push(q, x)
  <2>1. /\ s \in Seq(Callbacks)
        /\ \A i \in DOMAIN s : s[i] = x \/ \E j \in DOMAIN q : s[i] = q[j]
    BY AppendElements
  <2>2. /\ t \in Seq(Callbacks)
        /\ \A i \in DOMAIN t : t[i] = x \/ \E j \in DOMAIN q : t[i] = q[j]
    BY PushElements
  <2> HIDE DEF s, t
  <2>3. BackHeard(s, h) /\ BackHeard(t, h)
    BY <1>2, <2>1, <2>2 DEF BackHeard
  <2> QED BY <2>1, <2>2, <2>3 DEF s, t
<1> QED BY <1>1, <1>2

\* The callbacks of reads that waited are of coupons whose key matched.
LEMMA AnswersHeard ==
    ASSUME DeskInv, NEW d \in Devices, NEW r \in Records, NEW exists \in BOOLEAN
    PROVE  /\ Answers(d, r, exists) \in Seq(Callbacks)
           /\ BackHeard(Answers(d, r, exists), heard[d])
<1> DEFINE p == Answers(d, r, exists)
<1>1. /\ p \in Seq(Callbacks)
      /\ \A i \in DOMAIN p :
            /\ i \in DOMAIN waiting[d][r] /\ waiting[d][r][i] \in Askers
            /\ p[i] = Answer(r, waiting[d][r][i], exists)
  BY PhoneState, AnswersElements
<1> HIDE DEF p
<1>2. ASSUME NEW i \in DOMAIN p, p[i].op = "read"
      PROVE  KeyOf[p[i].c] \in heard[d]
  <2>1. waiting[d][r][i] # "check" /\ p[i].c = r[2]
    <3> DEFINE asker == waiting[d][r][i]
    <3>1. asker \in Askers /\ p[i] = Answer(r, asker, exists)
      BY <1>1
    <3> HIDE DEF asker
    <3>2. asker # "check" /\ p[i].c = r[2]
      BY <1>2, <3>1, AnswerOf
    <3> QED BY <3>2 DEF asker
  <2> QED BY <1>1, <2>1, PhoneState DEF WaitsHeard
<1>3. BackHeard(p, heard[d])
  BY <1>2 DEF BackHeard
<1> QED BY <1>1, <1>3 DEF p

LEMMA ListenedHeard ==
    ASSUME DeskInv, NEW d \in Devices, NEW n \in Nat,
           NEW order \in [1..n -> Reads(d)]
    PROVE  /\ ListenedReads(d, n, order) \in Seq(Callbacks)
           /\ BackHeard(ListenedReads(d, n, order), heard[d])
<1> DEFINE p == ListenedReads(d, n, order)
<1>1. /\ p \in Seq(Callbacks)
      /\ \A i \in DOMAIN p :
            \E r \in Records : \E j \in DOMAIN waiting[d][r] :
                /\ waiting[d][r][j] \in Askers
                /\ p[i] = Answer(r, waiting[d][r][j], r \in Current(d))
  BY PhoneState, ListenedElements
<1> HIDE DEF p
<1>2. ASSUME NEW i \in DOMAIN p, p[i].op = "read"
      PROVE  KeyOf[p[i].c] \in heard[d]
  <2>1. PICK r \in Records : \E j \in DOMAIN waiting[d][r] :
                /\ waiting[d][r][j] \in Askers
                /\ p[i] = Answer(r, waiting[d][r][j], r \in Current(d))
    BY <1>1
  <2>2. PICK j \in DOMAIN waiting[d][r] :
                /\ waiting[d][r][j] \in Askers
                /\ p[i] = Answer(r, waiting[d][r][j], r \in Current(d))
    BY <2>1
  <2> DEFINE there == r \in Current(d)
             asker == waiting[d][r][j]
  <2>3. there \in BOOLEAN /\ asker \in Askers /\ p[i] = Answer(r, asker, there)
    BY <2>2
  <2> HIDE DEF there
  <2>4. asker # "check" /\ p[i].c = r[2]
    <3> HIDE DEF asker
    <3> QED BY <1>2, <2>3, AnswerOf
  <2> QED BY <2>4, PhoneState DEF WaitsHeard
<1>3. BackHeard(p, heard[d])
  BY <1>2 DEF BackHeard
<1> QED BY <1>1, <1>3 DEF p

\* The event of the observers brings no validation.
LEMMA EventsHeard ==
    ASSUME DeskInv, NEW d \in Devices, NEW q \in Seq(Callbacks),
           BackHeard(q, heard[d]), RaiseEvents(d, q)
    PROVE  \E rest \in Seq(Callbacks) :
               mainq' = [mainq EXCEPT ![d] = rest] /\ BackHeard(rest, heard[d])
<1> DEFINE x == [op |-> "scannables"]
           rest == Push(q, x)
<1>1. rest \in Seq(Callbacks) /\ BackHeard(rest, heard[d])
  <2>1. x \in Callbacks /\ x.op = "scannables"
    BY DEF Callbacks
  <2> HIDE DEF x
  <2> QED BY <2>1, MoreHeard
<1>2. \/ mainq' = [mainq EXCEPT ![d] = q]
      \/ mainq' = [mainq EXCEPT ![d] = rest]
  BY DEF RaiseEvents
<1> HIDE DEF rest
<1> QED BY <1>1, <1>2

\* A step that changes the app's memory in nothing that counts here.
LEMMA ServedStep ==
    ASSUME DeskInv, NEW d \in Devices,
           NEW calls \in Seq(Calls), NEW rest \in Seq(Callbacks),
           fbq' = [fbq EXCEPT ![d] = calls], mainq' = [mainq EXCEPT ![d] = rest],
           UNCHANGED <<proc, user, status, app, heard, served>>,
           ServerTypeOK(Askers)', OnlyHere(d), CopyIsOld(d)',
           records \subseteq records',
           \A r \in records' : r \in records \/ r \in pending[d],
           CallsHeard(calls, heard[d]), BackHeard(rest, heard[d]),
           WaitsHeard(waiting'[d], heard[d]), WritesHeard(pending'[d], heard[d])
    PROVE  DeskInv'
<1> DEFINE a == app[d]
           h == heard[d]
<1>1. /\ app' = [app EXCEPT ![d] = a] /\ heard' = [heard EXCEPT ![d] = h]
      /\ a \in AppMemory /\ h \in SUBSET (Keys \cup {NoKey})
      /\ a.currentT # NoCoupon => a.token = KeyOf[a.currentT]
      /\ served' \in [Records -> Nat]
  BY PhoneState DEF TypeOK
<1>2. \A r \in records' :
         r \in records \/ \E e \in Devices : KeyOf[r[2]] \in heard'[e]
  BY PhoneState DEF WritesHeard
<1>3. heard[d] \subseteq h
  OBVIOUS
<1> HIDE DEF a
<1> QED BY <1>1, <1>2, <1>3, PhoneStep

\* Registering an observer leaves copy, writes and reads as they are.
LEMMA ObserveInv ==
    ASSUME DeskInv, NEW d \in Devices, FirebaseObserve(d)
    PROVE  DeskInv'
<1> DEFINE calls == Tail(fbq[d])
           x == [op |-> "scannables"]
<1>1. /\ fbq[d] # <<>> /\ fbq' = [fbq EXCEPT ![d] = calls]
      /\ UNCHANGED <<proc, user, status, app, heard, served>>
      /\ UNCHANGED <<records, cache, pending, waiting, refused>>
      /\ listen' = [listen EXCEPT ![d] = IF @ = "none" THEN "wait" ELSE @]
      /\ \/ mainq' = [mainq EXCEPT ![d] = mainq[d]]
         \/ mainq' = [mainq EXCEPT ![d] = Push(mainq[d], x)]
  BY DEF FirebaseObserve, Observe, AtHead
<1>2. \E rest \in Seq(Callbacks) :
         mainq' = [mainq EXCEPT ![d] = rest] /\ BackHeard(rest, heard[d])
  <2>1. x \in Callbacks /\ x.op = "scannables"
    BY DEF Callbacks
  <2>2. mainq[d] \in Seq(Callbacks) /\ BackHeard(mainq[d], heard[d])
    BY PhoneState
  <2> HIDE DEF x
  <2>3. Push(mainq[d], x) \in Seq(Callbacks) /\ BackHeard(Push(mainq[d], x), heard[d])
    BY <2>1, <2>2, MoreHeard
  <2> QED BY <1>1, <2>2, <2>3
<1>3. PICK rest \in Seq(Callbacks) :
         mainq' = [mainq EXCEPT ![d] = rest] /\ BackHeard(rest, heard[d])
  BY <1>2
<1>4. ServerTypeOK(Askers)' /\ OnlyHere(d) /\ (Synced(d)' <=> Synced(d))
  BY <1>1 DEF DeskInv, TypeOK, ServerTypeOK, OnlyHere, Synced
<1>5. CopyIsOld(d)'
  BY <1>1, <1>4, PhoneState DEF CopyIsOld, Answerable
<1>6. calls \in Seq(Calls) /\ CallsHeard(calls, heard[d])
  BY <1>1, TailState
<1>7. WaitsHeard(waiting'[d], heard[d]) /\ WritesHeard(pending'[d], heard[d])
  BY <1>1, PhoneState
<1>8. records \subseteq records' /\ \A r \in records' : r \in records \/ r \in pending[d]
  BY <1>1
<1> HIDE DEF calls
<1> QED BY <1>1, <1>3, <1>4, <1>5, <1>6, <1>7, <1>8, ServedStep

\* A read is answered, or waits because the phone cannot answer it.
LEMMA ReadInv ==
    ASSUME DeskInv, NEW d \in Devices, FirebaseRead(d)
    PROVE  DeskInv'
<1> DEFINE call == Head(fbq[d])
           calls == Tail(fbq[d])
           r == <<call.u, call.c>>
           x == Answer(r, call.via, r \in LocalData(d))
           more == [waiting[d] EXCEPT ![r] = Append(@, call.via)]
<1>1. /\ fbq[d] # <<>> /\ call.op = "read" /\ fbq' = [fbq EXCEPT ![d] = calls]
      /\ UNCHANGED <<proc, user, status, app, heard, served>>
      /\ UNCHANGED <<records, listen, cache, pending, refused>>
      /\ \/ mainq' = [mainq EXCEPT ![d] = Append(@, x)] /\ waiting' = waiting
         \/ /\ ~Answerable(d, r)
            /\ waiting' = [waiting EXCEPT ![d][r] = Append(@, call.via)]
            /\ mainq' = mainq
  BY DEF FirebaseRead, AtHead
<1>2. /\ call \in Calls /\ KeyOf[call.c] \in heard[d]
      /\ calls \in Seq(Calls) /\ CallsHeard(calls, heard[d])
  BY <1>1, TailState
<1>3. /\ call.via \in Askers /\ call.via # "check"
      /\ r \in Records /\ r[2] = call.c
  BY <1>1, <1>2 DEF Calls, Records, Askers, Givers
<1> HIDE DEF call
<1>4. x \in Callbacks /\ (x.op = "read" => KeyOf[x.c] \in heard[d])
  <2> DEFINE there == r \in LocalData(d)
  <2>1. there \in BOOLEAN /\ x = Answer(r, call.via, there)
    OBVIOUS
  <2> HIDE DEF there, x, r
  <2>2. x \in Callbacks
    BY <1>3, <2>1, AnswerType
  <2>3. x.op = "read" => x.c = r[2]
    BY <2>1, AnswerOf
  <2> QED BY <1>2, <1>3, <2>2, <2>3
<1> HIDE DEF x, calls
<1>5. CASE mainq' = [mainq EXCEPT ![d] = Append(@, x)] /\ waiting' = waiting
  <2> DEFINE w == waiting[d]
             rest == Append(mainq[d], x)
  <2>1. rest \in Seq(Callbacks) /\ BackHeard(rest, heard[d])
    BY <1>4, PhoneState, MoreHeard
  <2>2. /\ w \in [Records -> Seq(Askers)] /\ WaitsHeard(w, heard[d])
        /\ waiting' = [waiting EXCEPT ![d] = w]
        /\ \A s \in Records : w[s] # <<>> => ~Answerable(d, s)
    BY <1>5, PhoneState DEF CopyIsOld
  <2>3. mainq' = [mainq EXCEPT ![d] = rest]
    BY <1>5
  <2> HIDE DEF w, rest
  <2>4. /\ ServerTypeOK(Askers)' /\ OnlyHere(d) /\ CopyIsOld(d)'
        /\ waiting'[d] = w /\ pending'[d] = pending[d]
    BY <1>1, <2>2, WaitsReplaced
  <2>5. WaitsHeard(waiting'[d], heard[d]) /\ WritesHeard(pending'[d], heard[d])
    BY <2>2, <2>4, PhoneState
  <2> QED BY <1>1, <1>2, <2>1, <2>3, <2>4, <2>5, ServedStep
<1>6. CASE /\ ~Answerable(d, r) /\ mainq' = mainq
           /\ waiting' = [waiting EXCEPT ![d][r] = Append(@, call.via)]
  <2> DEFINE rest == mainq[d]
  <2>0. waiting[d] \in [Records -> Seq(Askers)] /\ WaitsHeard(waiting[d], heard[d])
    BY PhoneState
  <2>1. /\ more \in [Records -> Seq(Askers)] /\ more[r] = Append(waiting[d][r], call.via)
        /\ \A s \in Records \ {r} : more[s] = waiting[d][s]
    <3> DEFINE w == waiting[d]
               via == call.via
               q == Append(w[r], via)
    <3>1. q \in Seq(Askers)
      BY <1>3, <2>0, AppendElements
    <3>2. more = [w EXCEPT ![r] = q]
      OBVIOUS
    <3>3. w \in [Records -> Seq(Askers)] /\ r \in Records
      BY <1>3, <2>0
    <3> HIDE DEF more, w, q, r
    <3> QED BY <3>1, <3>2, <3>3 DEF w, q
  <2>2. waiting' = [waiting EXCEPT ![d] = more]
    BY <1>6
  <2> HIDE DEF more
  <2>3. \A s \in Records : more[s] # <<>> => ~Answerable(d, s)
    BY <1>6, <2>1, PhoneState DEF CopyIsOld
  <2>4. WaitsHeard(more, heard[d])
    <3> SUFFICES ASSUME NEW s \in Records, NEW i \in DOMAIN more[s],
                        more[s][i] # "check"
                 PROVE  KeyOf[s[2]] \in heard[d]
      BY DEF WaitsHeard
    <3>1. CASE s = r
      BY <1>2, <1>3, <3>1
    <3>2. CASE s # r
      BY <2>0, <2>1, <3>2 DEF WaitsHeard
    <3> QED BY <3>1, <3>2
  <2>5. rest \in Seq(Callbacks) /\ BackHeard(rest, heard[d])
        /\ mainq' = [mainq EXCEPT ![d] = rest]
    BY <1>6, PhoneState
  <2>6. /\ ServerTypeOK(Askers)' /\ OnlyHere(d) /\ CopyIsOld(d)'
        /\ waiting'[d] = more /\ pending'[d] = pending[d]
    BY <1>1, <2>1, <2>2, <2>3, WaitsReplaced
  <2>7. WaitsHeard(waiting'[d], heard[d]) /\ WritesHeard(pending'[d], heard[d])
    BY <2>4, <2>6, PhoneState
  <2> HIDE DEF rest
  <2> QED BY <1>1, <1>2, <2>5, <2>6, <2>7, ServedStep
<1> QED BY <1>1, <1>5, <1>6

\* The reads of a check() are of no validation.
LEMMA CheckedInv ==
    ASSUME DeskInv, NEW d \in Devices, FirebaseCheck(d)
    PROVE  DeskInv'
<1> DEFINE u == Head(fbq[d]).u
           calls == Tail(fbq[d])
           found == {c \in Coupons : <<u, c>> \in LocalData(d)}
           x == [op |-> "check", found |-> found]
           more == [r \in Records |->
                       IF r[1] = u /\ ~Answerable(d, r)
                       THEN Asked(waiting[d][r]) ELSE waiting[d][r]]
<1>1. /\ fbq[d] # <<>> /\ fbq' = [fbq EXCEPT ![d] = calls]
      /\ UNCHANGED <<proc, user, status, app, heard, served>>
      /\ UNCHANGED <<records, listen, cache, pending, refused>>
      /\ \/ mainq' = [mainq EXCEPT ![d] = mainq[d]]
         \/ mainq' = [mainq EXCEPT ![d] = Push(mainq[d], x)]
  BY DEF FirebaseCheck, AtHead
<1>2. waiting' = [waiting EXCEPT ![d] = more]
  BY DEF FirebaseCheck
<1>3. calls \in Seq(Calls) /\ CallsHeard(calls, heard[d])
  BY <1>1, TailState
<1>4. x \in Callbacks /\ x.op = "check"
  BY DEF Callbacks
<1> HIDE DEF x, calls
<1>5. \E rest \in Seq(Callbacks) :
         mainq' = [mainq EXCEPT ![d] = rest] /\ BackHeard(rest, heard[d])
  <2>1. mainq[d] \in Seq(Callbacks) /\ BackHeard(mainq[d], heard[d])
    BY PhoneState
  <2>2. Push(mainq[d], x) \in Seq(Callbacks) /\ BackHeard(Push(mainq[d], x), heard[d])
    BY <1>4, <2>1, MoreHeard
  <2> QED BY <1>1, <2>1, <2>2
<1>6. PICK rest \in Seq(Callbacks) :
         mainq' = [mainq EXCEPT ![d] = rest] /\ BackHeard(rest, heard[d])
  BY <1>5
<1>7. ASSUME NEW r \in Records
      PROVE  /\ more[r] \in Seq(Askers)
             /\ more[r] # <<>> => ~Answerable(d, r)
             /\ \A i \in DOMAIN more[r] :
                   more[r][i] # "check" => KeyOf[r[2]] \in heard[d]
  <2>1. /\ waiting[d][r] \in Seq(Askers)
        /\ waiting[d][r] # <<>> => ~Answerable(d, r)
        /\ \A i \in DOMAIN waiting[d][r] :
              waiting[d][r][i] # "check" => KeyOf[r[2]] \in heard[d]
    BY PhoneState DEF CopyIsOld, WaitsHeard
  <2>2. CASE more[r] = Asked(waiting[d][r]) /\ ~Answerable(d, r)
    <3> DEFINE q == waiting[d][r]
    <3>1. /\ Asked(q) \in Seq(Askers)
          /\ \A i \in DOMAIN Asked(q) :
                Asked(q)[i] = "check" \/ (i \in DOMAIN q /\ Asked(q)[i] = q[i])
      BY <2>1, AskedElements
    <3> HIDE DEF more, q
    <3>2. \A i \in DOMAIN Asked(q) : Asked(q)[i] # "check" => KeyOf[r[2]] \in heard[d]
      BY <2>1, <3>1 DEF q
    <3> QED BY <2>2, <3>1, <3>2 DEF q
  <2>3. CASE more[r] = waiting[d][r]
    BY <2>1, <2>3
  <2> QED BY <2>2, <2>3
<1> HIDE DEF u
<1>8. more \in [Records -> Seq(Askers)]
  BY <1>7
<1> HIDE DEF more
<1>9. /\ ServerTypeOK(Askers)' /\ OnlyHere(d) /\ CopyIsOld(d)'
      /\ waiting'[d] = more /\ pending'[d] = pending[d]
  BY <1>1, <1>2, <1>7, <1>8, WaitsReplaced
<1>10. WaitsHeard(waiting'[d], heard[d])
  BY <1>7, <1>9 DEF WaitsHeard
<1>11. WritesHeard(pending'[d], heard[d])
  BY <1>9, PhoneState
<1> QED BY <1>1, <1>3, <1>6, <1>9, <1>10, <1>11, ServedStep

\* A write was validated; whoever waits for its node is told.
LEMMA SetInv ==
    ASSUME DeskInv, NEW d \in Devices, FirebaseSet(d)
    PROVE  DeskInv'
<1> DEFINE call == Head(fbq[d])
           calls == Tail(fbq[d])
           r == <<call.u, call.c>>
           told == Answers(d, r, TRUE)
           w == [waiting[d] EXCEPT ![r] = <<>>]
<1>1. /\ fbq[d] # <<>> /\ call.op = "set" /\ fbq' = [fbq EXCEPT ![d] = calls]
      /\ UNCHANGED <<proc, user, status, app, heard, served>>
      /\ SetValue(d, r) /\ RaiseEvents(d, mainq[d] \o told)
  BY DEF FirebaseSet, AtHead
<1>2. /\ call \in Calls /\ KeyOf[call.c] \in heard[d]
      /\ calls \in Seq(Calls) /\ CallsHeard(calls, heard[d])
  BY <1>1, TailState
<1>3. r \in Records /\ r[2] = call.c
  BY <1>1, <1>2 DEF Calls, Records
<1> HIDE DEF call, r, calls
<1>4. told \in Seq(Callbacks) /\ BackHeard(told, heard[d])
  BY <1>3, AnswersHeard
<1> HIDE DEF told
<1>5. mainq[d] \o told \in Seq(Callbacks) /\ BackHeard(mainq[d] \o told, heard[d])
  BY <1>4, PhoneState, MoreHeard
<1>6. PICK rest \in Seq(Callbacks) :
         mainq' = [mainq EXCEPT ![d] = rest] /\ BackHeard(rest, heard[d])
  BY <1>1, <1>5, EventsHeard
<1>7. /\ pending' = [pending EXCEPT ![d] = @ \cup {r}]
      /\ waiting' = [waiting EXCEPT ![d] = w]
      /\ UNCHANGED <<records, listen, cache, refused>>
  BY <1>1 DEF SetValue
<1>8. /\ w \in [Records -> Seq(Askers)] /\ w[r] = <<>>
      /\ \A s \in Records \ {r} : w[s] = waiting[d][s]
  BY <1>3, PhoneState
<1> HIDE DEF w
<1>9. ServerTypeOK(Askers)' /\ OnlyHere(d) /\ waiting'[d] = w
      /\ pending'[d] = pending[d] \cup {r}
  BY <1>3, <1>7, <1>8 DEF DeskInv, TypeOK, ServerTypeOK, OnlyHere
<1>10. CopyIsOld(d)'
  BY <1>7, <1>8, <1>9, PhoneState DEF CopyIsOld, Answerable, Synced
<1>11. WaitsHeard(waiting'[d], heard[d])
  <2>1. WaitsHeard(waiting[d], heard[d])
    BY PhoneState
  <2> SUFFICES ASSUME NEW s \in Records, NEW i \in DOMAIN w[s], w[s][i] # "check"
               PROVE  KeyOf[s[2]] \in heard[d]
    BY <1>9 DEF WaitsHeard
  <2>2. s # r
    BY <1>8
  <2> QED BY <1>8, <2>1, <2>2 DEF WaitsHeard
<1>12. WritesHeard(pending'[d], heard[d])
  BY <1>2, <1>3, <1>9, PhoneState DEF WritesHeard
<1>13. records \subseteq records' /\ \A s \in records' : s \in records \/ s \in pending[d]
  BY <1>7
<1> QED BY <1>1, <1>2, <1>6, <1>9, <1>10, <1>11, <1>12, <1>13, ServedStep

\* The SDK's serial queue.
LEMMA FirebaseInv ==
    ASSUME DeskInv, NEW d \in Devices, FirebaseStep(d)
    PROVE  DeskInv'
BY ObserveInv, ReadInv, CheckedInv, SetInv DEF FirebaseStep

\* A callback changes no selection and writes only what was validated.
LEMMA RedeemInv ==
    ASSUME DeskInv, NEW d \in Devices, Redeem(d)
    PROVE  DeskInv'
<1> DEFINE c == Head(mainq[d]).c
           via == Head(mainq[d]).via
           x == [op |-> "set", u |-> user[d], c |-> c]
           b == TokenAppended(app[d])
           a == Present(b, via, "other")
           calls == Append(fbq[d], x)
           rest == Tail(mainq[d])
           h == heard[d]
           w == waiting[d]
<1>1. CASE Terminate(d, "crashed")
  BY <1>1, TerminateInv
<1>2. CASE user[d] # NoUser /\ ~Terminate(d, "crashed")
  <2>1. /\ mainq[d] # <<>> /\ Head(mainq[d]).op = "read"
        /\ fbq' = [fbq EXCEPT ![d] = calls] /\ app' = [app EXCEPT ![d] = a]
        /\ mainq' = [mainq EXCEPT ![d] = rest]
        /\ UNCHANGED <<dbVars, proc, user, status, heard>>
    <3>1. mainq[d] # <<>> /\ Head(mainq[d]).op = "read"
      BY DEF Redeem, AtHead
    <3>2. fbq' = [fbq EXCEPT ![d] = calls]
      BY <1>2, Zenon DEF Redeem
    <3>3. app' = [app EXCEPT ![d] = a]
      BY <1>2, Zenon DEF Redeem
    <3>4. mainq' = [mainq EXCEPT ![d] = rest]
          /\ UNCHANGED <<dbVars, proc, user, status, heard>>
      BY <1>2, Zenon DEF Redeem
    <3> QED BY <3>1, <3>2, <3>3, <3>4
  <2>2. served' \in [Records -> Nat]
    <3> DEFINE r == <<user[d], c>>
               n == IF /\ app[d].screen = via /\ app[d].message = "none"
                       /\ served[r] < MaxServed
                    THEN served[r] + 1 ELSE served[r]
    <3>1. served' = [served EXCEPT ![r] = n]
      BY <1>2, Zenon DEF Redeem
    <3>2. served \in [Records -> Nat]
      BY DEF DeskInv, TypeOK
    <3> HIDE DEF r
    <3>3. r \in Records => n \in Nat
      BY <3>2
    <3> HIDE DEF n
    <3> QED BY <3>1, <3>2, <3>3
  <2>3. c \in Coupons /\ KeyOf[c] \in h
    BY <2>1, TailState DEF Callbacks
  <2>4. x \in Calls
    BY <1>2, <2>3 DEF Calls, DeskInv, TypeOK
  <2>5. b \in AppMemory /\ b.token = app[d].token /\ b.currentT = app[d].currentT
    <3>1. app[d] \in AppMemory
      BY PhoneState
    <3> QED BY <3>1 DEF AppMemory, TokenAppended
  <2>6. a \in AppMemory /\ a.token = app[d].token /\ a.currentT = app[d].currentT
    <3> HIDE DEF b
    <3> QED BY <2>5, PresentType DEF Alerts
  <2>7. /\ calls \in Seq(Calls)
        /\ \A i \in DOMAIN calls :
              calls[i] = x \/ \E j \in DOMAIN fbq[d] : calls[i] = fbq[d][j]
    BY <2>4, PhoneState, AppendElements
  <2>8. x.op = "set" /\ x.c = c
    OBVIOUS
  <2> HIDE DEF a, b, c, x, calls
  <2>9. CallsHeard(calls, h)
    BY <2>3, <2>7, <2>8, PhoneState DEF CallsHeard
  <2>10. rest \in Seq(Callbacks) /\ BackHeard(rest, h)
    BY <2>1, TailState
  <2>11. a.currentT # NoCoupon => a.token = KeyOf[a.currentT]
    BY <2>6, PhoneState
  <2>12. /\ heard' = [heard EXCEPT ![d] = h] /\ heard[d] \subseteq h
         /\ h \in SUBSET (Keys \cup {NoKey})
         /\ waiting' = [waiting EXCEPT ![d] = w]
         /\ w \in [Records -> Seq(Askers)] /\ WaitsHeard(w, h)
         /\ UNCHANGED <<records, listen, cache, pending, refused>>
    BY <2>1, PhoneState DEF dbVars
  <2>13. \A r \in Records : w[r] # <<>> => ~Answerable(d, r)
    BY PhoneState DEF CopyIsOld
  <2> HIDE DEF rest, h, w
  <2> QED
    BY <2>1, <2>2, <2>6, <2>7, <2>9, <2>10, <2>11, <2>12, <2>13, QueueStep
<1> QED BY <1>1, <1>2 DEF Redeem

\* The callbacks that only show or collect.
LEMMA CollectInv ==
    ASSUME DeskInv, NEW d \in Devices, AlreadyRedeemed(d) \/ Checked(d)
    PROVE  DeskInv'
<1> DEFINE a == IF AlreadyRedeemed(d)
                THEN Present(app[d], Head(mainq[d]).via, "other")
                ELSE [app[d] EXCEPT !.reedeemedArr = @ \cup Head(mainq[d]).found]
           calls == fbq[d]
           rest == Tail(mainq[d])
           h == heard[d]
           w == waiting[d]
<1>1. /\ mainq[d] # <<>> /\ mainq' = [mainq EXCEPT ![d] = rest]
      /\ app' = [app EXCEPT ![d] = a]
      /\ UNCHANGED <<dbVars, proc, user, status, fbq, heard, served>>
  BY DEF AlreadyRedeemed, Checked, AtHead
<1>2. /\ a \in AppMemory /\ a.token = app[d].token
      /\ a.currentT = app[d].currentT
  <2>0. app[d] \in AppMemory
    BY PhoneState
  <2>1. CASE AlreadyRedeemed(d)
    BY <2>0, <2>1, PresentType DEF Alerts
  <2>2. CASE ~AlreadyRedeemed(d)
    <3>1. Head(mainq[d]).found \in SUBSET Coupons
      BY <1>1, <2>2, TailState DEF Checked, AtHead, Callbacks
    <3> QED BY <2>0, <2>2, <3>1 DEF AppMemory
  <2> QED BY <2>1, <2>2
<1> HIDE DEF a
<1>3. rest \in Seq(Callbacks) /\ BackHeard(rest, h)
  BY <1>1, TailState
<1>4. /\ fbq' = [fbq EXCEPT ![d] = calls] /\ calls \in Seq(Calls)
      /\ CallsHeard(calls, h)
      /\ waiting' = [waiting EXCEPT ![d] = w]
      /\ w \in [Records -> Seq(Askers)] /\ WaitsHeard(w, h)
      /\ heard' = [heard EXCEPT ![d] = h] /\ heard[d] \subseteq h
      /\ h \in SUBSET (Keys \cup {NoKey})
      /\ UNCHANGED <<records, listen, cache, pending, refused>>
  BY <1>1, PhoneState DEF dbVars
<1>5. a.currentT # NoCoupon => a.token = KeyOf[a.currentT]
  BY <1>2, PhoneState
<1>6. \A r \in Records : w[r] # <<>> => ~Answerable(d, r)
  BY PhoneState DEF CopyIsOld
<1>7. served' \in [Records -> Nat]
  BY <1>1, PhoneState DEF TypeOK
<1> HIDE DEF calls, rest, h, w
<1> QED BY <1>1, <1>2, <1>3, <1>4, <1>5, <1>6, <1>7, QueueStep

\* The observer fills the table.
LEMMA ScannablesInv ==
    ASSUME DeskInv, NEW d \in Devices, Scannables(d)
    PROVE  DeskInv'
<1> DEFINE a == [app[d] EXCEPT !.listed = TRUE]
           calls == fbq[d]
           rest == Tail(mainq[d])
           w == waiting[d]
<1>1. mainq[d] # <<>> /\ check(d, a, calls, rest, w)
  BY DEF Scannables, AtHead
<1>2. a \in AppMemory /\ a.token = app[d].token /\ a.currentT = app[d].currentT
  <2>1. app[d] \in AppMemory
    BY PhoneState
  <2> QED BY <2>1 DEF AppMemory
<1>3. /\ calls \in Seq(Calls) /\ CallsHeard(calls, heard[d])
      /\ w \in [Records -> Seq(Askers)] /\ WaitsHeard(w, heard[d])
      /\ \A r \in Records : w[r] = <<>> <=> waiting[d][r] = <<>>
  BY PhoneState
<1>4. rest \in Seq(Callbacks) /\ BackHeard(rest, heard[d])
  BY <1>1, TailState
<1> HIDE DEF a, calls, rest, w
<1> QED BY <1>1, <1>2, <1>3, <1>4, CheckInv

\* The main queue.
LEMMA MainInv ==
    ASSUME DeskInv, NEW d \in Devices, MainStep(d)
    PROVE  DeskInv'
BY RedeemInv, CollectInv, ScannablesInv DEF MainStep

-----------------------------------------------------------------------------
(* The network. *)

\* What the database does to the client of d: it adds no write and no read
\* that waits, answers every read that a listen lets it answer, and records
\* only writes that were pending.
LEMMA ServerStep ==
    ASSUME DeskInv, NEW d \in Devices,
           \/ ListenAnswered(d) \/ ListenLost(d)
           \/ \E r \in Records : \/ ReadAnswered(d, r)
                                 \/ DataUpdate(d, r) \/ ServerPut(d, r)
                                 \/ AckWrite(d, r) \/ RevertWrite(d, r)
    PROVE  /\ ServerTypeOK(Askers)' /\ OnlyHere(d) /\ CopyIsOld(d)'
           /\ records \subseteq records'
           /\ \A r \in records' : r \in records \/ r \in pending[d]
           /\ pending'[d] \subseteq pending[d]
           /\ \A r \in Records : waiting'[d][r] \in {waiting[d][r], <<>>}
<1>0. ServerTypeOK(Askers) /\ CopyIsOld(d)
  BY DEF DeskInv, TypeOK
<1> USE DEF ServerTypeOK, OnlyHere
<1>1. CASE ListenAnswered(d)
  <2>1. /\ listen' = [listen EXCEPT ![d] = "synced"]
        /\ cache' = [cache EXCEPT ![d] = records]
        /\ waiting' = [waiting EXCEPT ![d] = NoReads]
        /\ UNCHANGED <<records, pending, refused>>
    BY <1>1 DEF ListenAnswered
  <2>2. ServerTypeOK(Askers)' /\ OnlyHere(d) /\ waiting'[d] = NoReads
        /\ cache'[d] = records /\ listen'[d] = "synced"
    BY <1>0, <2>1, NoReadsType
  <2>3. CopyIsOld(d)'
    BY <2>1, <2>2, NoReadsType DEF CopyIsOld, Synced
  <2> QED BY <2>1, <2>2, <2>3, NoReadsType
<1>2. CASE ListenLost(d)
  <2>1. /\ listen' = [listen EXCEPT ![d] = "none"]
        /\ cache' = [cache EXCEPT ![d] = {}]
        /\ UNCHANGED <<records, pending, waiting, refused>>
    BY <1>2 DEF ListenLost
  <2>2. ServerTypeOK(Askers)' /\ OnlyHere(d)
        /\ cache'[d] = {} /\ listen'[d] = "none"
    BY <1>0, <2>1
  <2>3. CopyIsOld(d)'
    BY <1>0, <2>1, <2>2 DEF CopyIsOld, Answerable, Synced
  <2> QED BY <2>1, <2>2, <2>3
<1>3. ASSUME NEW r \in Records, ReadAnswered(d, r)
      PROVE  /\ ServerTypeOK(Askers)' /\ OnlyHere(d) /\ CopyIsOld(d)'
             /\ UNCHANGED <<records, pending>>
             /\ \A s \in Records : waiting'[d][s] \in {waiting[d][s], <<>>}
  <2> DEFINE w == [waiting[d] EXCEPT ![r] = <<>>]
  <2>1. /\ waiting' = [waiting EXCEPT ![d] = w]
        /\ UNCHANGED <<records, listen, cache, pending, refused>>
    BY <1>3 DEF ReadAnswered
  <2>2. /\ w \in [Records -> Seq(Askers)]
        /\ \A s \in Records : w[s] \in {waiting[d][s], <<>>}
    BY <1>0
  <2> HIDE DEF w
  <2>3. \A s \in Records : w[s] # <<>> => ~Answerable(d, s)
    BY <1>0, <2>2 DEF CopyIsOld
  <2> HIDE DEF ServerTypeOK, OnlyHere
  <2>4. /\ ServerTypeOK(Askers)' /\ OnlyHere(d) /\ CopyIsOld(d)' /\ waiting'[d] = w
    BY <2>1, <2>2, <2>3, WaitsReplaced
  <2> QED BY <2>1, <2>2, <2>4
<1>4. ASSUME NEW r \in Records, DataUpdate(d, r)
      PROVE  /\ ServerTypeOK(Askers)' /\ OnlyHere(d) /\ CopyIsOld(d)'
             /\ UNCHANGED <<records, pending, waiting>>
  <2>1. /\ Synced(d) /\ r \in records /\ cache' = [cache EXCEPT ![d] = @ \cup {r}]
        /\ UNCHANGED <<records, listen, pending, waiting, refused>>
    BY <1>4 DEF DataUpdate
  <2>2. ServerTypeOK(Askers)' /\ OnlyHere(d) /\ cache'[d] = cache[d] \cup {r}
    BY <1>0, <2>1
  <2>3. CopyIsOld(d)'
    BY <1>0, <2>1, <2>2 DEF CopyIsOld, Answerable, Synced
  <2> QED BY <2>1, <2>2, <2>3
<1>5. ASSUME NEW r \in Records, ServerPut(d, r)
      PROVE  /\ ServerTypeOK(Askers)' /\ OnlyHere(d) /\ CopyIsOld(d)'
             /\ UNCHANGED <<pending, waiting>>
             /\ records' = records \cup {r} /\ r \in pending[d]
  <2>1. /\ records' = records \cup {r} /\ r \in pending[d]
        /\ UNCHANGED <<listen, cache, pending, waiting, refused>>
    BY <1>5 DEF ServerPut
  <2>2. ServerTypeOK(Askers)' /\ OnlyHere(d)
    BY <1>0, <2>1
  <2>3. CopyIsOld(d)'
    BY <1>0, <2>1 DEF CopyIsOld, Answerable, Synced
  <2> QED BY <2>1, <2>2, <2>3
<1>6. ASSUME NEW r \in Records, AckWrite(d, r) \/ RevertWrite(d, r)
      PROVE  /\ ServerTypeOK(Askers)' /\ OnlyHere(d) /\ CopyIsOld(d)'
             /\ UNCHANGED <<records, waiting>>
             /\ pending'[d] \subseteq pending[d]
  <2>1. /\ UNCHANGED <<listen, records, cache, waiting>>
        /\ pending' = [pending EXCEPT ![d] = @ \ {r}]
        /\ refused' = refused \/ (refused' = refused \cup {r} /\ r \in Refused)
    BY <1>6 DEF AckWrite, RevertWrite
  <2>2. ServerTypeOK(Askers)' /\ OnlyHere(d) /\ pending'[d] = pending[d] \ {r}
    BY <1>0, <2>1
  <2>3. CopyIsOld(d)'
    BY <1>0, <2>1, <2>2 DEF CopyIsOld, Answerable, Synced
  <2> QED BY <2>1, <2>2, <2>3
<1> HIDE DEF ServerTypeOK, OnlyHere
<1> QED BY <1>1, <1>2, <1>3, <1>4, <1>5, <1>6

\* The callbacks that a step of the network queues: of reads that waited, and
\* the event of the observers.
LEMMA NetworkCallbacks ==
    ASSUME DeskInv, NEW d \in Devices, NetworkStep(d)
    PROVE  \E rest \in Seq(Callbacks) :
               mainq' = [mainq EXCEPT ![d] = rest] /\ BackHeard(rest, heard[d])
<1> DEFINE event == [op |-> "scannables"]
           q == mainq[d]
<1>0. /\ q \in Seq(Callbacks) /\ BackHeard(q, heard[d])
      /\ mainq = [mainq EXCEPT ![d] = q]
  BY PhoneState
<1>1. CASE Listened(d)
  <2>1. PICK n \in 0..Cardinality(Reads(d)) : \E order \in Bijection(1..n, Reads(d)) :
           mainq' = [mainq EXCEPT ![d] = Push(@ \o ListenedReads(d, n, order), event)]
    BY <1>1 DEF Listened, ListenedReads
  <2>2. PICK order \in Bijection(1..n, Reads(d)) :
           mainq' = [mainq EXCEPT ![d] = Push(@ \o ListenedReads(d, n, order), event)]
    BY <2>1
  <2>3. n \in Nat /\ order \in [1..n -> Reads(d)]
    BY DEF Bijection, Injection, Surjection
  <2> DEFINE p == ListenedReads(d, n, order)
             rest == Push(q \o p, event)
  <2>4. p \in Seq(Callbacks) /\ BackHeard(p, heard[d])
    BY <2>3, ListenedHeard
  <2> HIDE DEF p
  <2>5. q \o p \in Seq(Callbacks) /\ BackHeard(q \o p, heard[d])
    BY <1>0, <2>4, MoreHeard
  <2>6. event \in Callbacks /\ event.op = "scannables"
    BY DEF Callbacks
  <2>7. mainq' = [mainq EXCEPT ![d] = rest]
    BY <2>2 DEF p
  <2> HIDE DEF event
  <2>8. rest \in Seq(Callbacks) /\ BackHeard(rest, heard[d])
    BY <2>5, <2>6, MoreHeard
  <2> HIDE DEF rest
  <2> QED BY <2>7, <2>8
<1>2. CASE Cancelled(d)
  BY <1>0, <1>2 DEF Cancelled
<1>3. ASSUME NEW r \in Records, ReadReturned(d, r)
      PROVE  \E rest \in Seq(Callbacks) :
                mainq' = [mainq EXCEPT ![d] = rest] /\ BackHeard(rest, heard[d])
  <2> DEFINE there == r \in Current(d)
             p == Answers(d, r, there)
  <2>1. there \in BOOLEAN
    OBVIOUS
  <2>2. mainq' = [mainq EXCEPT ![d] = q \o p] \/ mainq' = mainq
    BY <1>3 DEF ReadReturned
  <2> HIDE DEF there
  <2>3. p \in Seq(Callbacks) /\ BackHeard(p, heard[d])
    BY <2>1, AnswersHeard
  <2> HIDE DEF p
  <2>4. q \o p \in Seq(Callbacks) /\ BackHeard(q \o p, heard[d])
    BY <1>0, <2>3, MoreHeard
  <2> QED BY <1>0, <2>2, <2>4
<1>4. CASE RaiseEvents(d, q)
  BY <1>0, <1>4, EventsHeard
<1> QED BY <1>1, <1>2, <1>3, <1>4 DEF NetworkStep

\* Listens, reads, updates, puts and acknowledgements.
LEMMA NetworkInv ==
    ASSUME DeskInv, NEW d \in Devices, NetworkStep(d)
    PROVE  DeskInv'
<1>1. /\ UNCHANGED <<proc, user, status, app, fbq, heard, served>>
      /\ \/ ListenAnswered(d) \/ ListenLost(d)
         \/ \E r \in Records : \/ ReadAnswered(d, r)
                               \/ DataUpdate(d, r) \/ ServerPut(d, r)
                               \/ AckWrite(d, r) \/ RevertWrite(d, r)
  BY DEF NetworkStep, Listened, Cancelled, ReadReturned
<1>2. /\ ServerTypeOK(Askers)' /\ OnlyHere(d) /\ CopyIsOld(d)'
      /\ records \subseteq records'
      /\ \A r \in records' : r \in records \/ r \in pending[d]
      /\ pending'[d] \subseteq pending[d]
      /\ \A r \in Records : waiting'[d][r] \in {waiting[d][r], <<>>}
  BY <1>1, ServerStep
<1>3. PICK rest \in Seq(Callbacks) :
         mainq' = [mainq EXCEPT ![d] = rest] /\ BackHeard(rest, heard[d])
  BY NetworkCallbacks
<1> DEFINE calls == fbq[d]
<1>4. /\ calls \in Seq(Calls) /\ CallsHeard(calls, heard[d])
      /\ fbq' = [fbq EXCEPT ![d] = calls]
  BY <1>1, PhoneState
<1>5. WaitsHeard(waiting'[d], heard[d])
  BY <1>2, PhoneState DEF WaitsHeard
<1>6. WritesHeard(pending'[d], heard[d])
  BY <1>2, PhoneState DEF WritesHeard
<1> HIDE DEF calls
<1> QED BY <1>1, <1>2, <1>3, <1>4, <1>5, <1>6, ServedStep

-----------------------------------------------------------------------------
(* The invariant and what follows from it. *)

\* Before anything happens no phone has selected, queued or written anything.
LEMMA InitInv == Init => DeskInv
<1> SUFFICES ASSUME Init PROVE DeskInv
  OBVIOUS
<1>1. Started("login") \in AppMemory /\ Started("login").currentT = NoCoupon
  BY StartedType DEF Screens
<1>2. TypeOK
  BY <1>1, NoReadsType DEF Init, DatabaseInit, TypeOK, ServerTypeOK
<1>3. ASSUME NEW d \in Devices
      PROVE  SelectionPaired(d) /\ CopyIsOld(d) /\ KeyHeard(d)
  <2>1. /\ app[d].currentT = NoCoupon
        /\ DOMAIN fbq[d] = {} /\ DOMAIN mainq[d] = {} /\ pending[d] = {}
        /\ cache[d] = {} /\ waiting[d] = NoReads
    BY <1>1 DEF Init, DatabaseInit
  <2> QED BY <2>1, NoReadsType DEF SelectionPaired, CopyIsOld, KeyHeard
<1>4. NoRecordWithoutKey
  BY DEF Init, DatabaseInit, NoRecordWithoutKey
<1> QED BY <1>2, <1>3, <1>4 DEF DeskInv

\* Taps, sounds, sign-ins, and the end and start of the process.
LEMMA UserInv ==
    ASSUME DeskInv, NEW d \in Devices, UserStep(d)
    PROVE  DeskInv'
<1>1. CASE Kill(d)
  BY <1>1, TerminateInv DEF Kill
<1>2. CASE \/ MicButton(d) \/ SomethingWrong(d) \/ WrongPassword(d)
           \/ DismissAlert(d) \/ HandleTap(d) \/ DownButton(d) \/ VisitOther(d)
           \/ Logout(d) \/ SignOutIfTokenIsInvalid(d)
           \/ \E u \in Users : Login(d, u)
  BY <1>2, ScreenInv
<1>3. CASE VisitCoupons(d) \/ BackButtonPressed(d) \/ Launch(d)
  BY <1>3, VisitCouponsInv, BackButtonInv, LaunchInv
<1>4. CASE \E c \in Coupons : SelectRow(d, c)
  BY <1>4, SelectRowInv
<1>5. CASE \E key \in Keys \cup {NoKey} : DataReceived(d, key) \/ AdminBypassAdd(d, key)
  BY <1>5, KeyInv
<1> QED BY <1>1, <1>2, <1>3, <1>4, <1>5 DEF UserStep

\* DeskInv is inductive: every step of every phone preserves it.
LEMMA NextInv == DeskInv /\ [Next]_vars => DeskInv'
<1> SUFFICES ASSUME DeskInv, [Next]_vars PROVE DeskInv'
  OBVIOUS
<1>1. CASE Next
  BY <1>1, UserInv, FirebaseInv, MainInv, NetworkInv DEF Next
<1>2. CASE UNCHANGED vars
  BY <1>2 DEF vars, DeskInv, TypeOK, ServerTypeOK, dbVars, SelectionPaired,
              CopyIsOld, KeyHeard, NoRecordWithoutKey, Answerable, Synced
<1> QED BY <1>1, <1>2

\* In every reachable state of any number of phones the selection is of one
\* coupon, no copy is ahead of the server, no read waits that the phone could
\* answer, and every validation, write and record has had its key, whatever
\* listens were refused or revoked.
THEOREM DeskInvariant == Spec => []DeskInv
BY InitInv, NextInv, PTL DEF Spec

\* The state and both queues stay in their types: no callback of the SDK ever
\* finds a call or a memory of another shape.
THEOREM TypeCorrect == Spec => []TypeOK
<1>1. DeskInv => TypeOK
  BY DEF DeskInv
<1> QED BY <1>1, DeskInvariant, PTL

\* A record on the server was written for a coupon whose key was received on
\* some phone, whatever the user taps between the comparison and the write.
THEOREM RecordsNeedAKey == Spec => []NoRecordWithoutKey
<1>1. DeskInv => NoRecordWithoutKey
  BY DEF DeskInv
<1> QED BY <1>1, DeskInvariant, PTL

-----------------------------------------------------------------------------
(* The coupon desk implements CouponLedger: every step of a phone or of the *)
(* network is a step of the ledger or leaves it alone.                      *)

\* The redemptions that the calls of a queue report.
Reported(q) ==
    {<<q[i].u, q[i].c>> : i \in {j \in DOMAIN q : q[j].op = "set"}}

\* The mapped variables owed and alive.
OwedBy == [d \in Devices |-> Owed(d)]
Alive == {d \in Devices : Running(d)}

-----------------------------------------------------------------------------
(* Queues: which operations report a redemption. *)

\* A call put at the end adds what it reports.
LEMMA AppendReports ==
    ASSUME NEW q \in Seq(Calls), NEW x \in Calls
    PROVE  Reported(Append(q, x)) =
             Reported(q) \cup (IF x.op = "set" THEN {<<x.u, x.c>>} ELSE {})
<1> DEFINE p == Append(q, x)
           n == Len(q) + 1
<1>1. /\ DOMAIN p = DOMAIN q \cup {n} /\ n \notin DOMAIN q
      /\ p[n] = x /\ \A i \in DOMAIN q : p[i] = q[i]
  OBVIOUS
<1> HIDE DEF p, n
<1>2. Reported(p) = Reported(q) \cup (IF x.op = "set" THEN {<<x.u, x.c>>} ELSE {})
  BY <1>1 DEF Reported
<1> QED BY <1>2 DEF p

\* Push, of a call that reports nothing, adds nothing.
LEMMA PushReports ==
    ASSUME NEW q \in Seq(Calls), NEW x \in Calls, x.op # "set"
    PROVE  Reported(Push(q, x)) = Reported(q)
<1>1. Push(q, x) = q \/ Push(q, x) = Append(q, x)
  BY DEF Push
<1> QED BY <1>1, AppendReports

\* A controller that goes away takes no report with it.
LEMMA OrphanReports ==
    ASSUME NEW q \in Seq(Calls), NEW s
    PROVE  Reported(Orphan(q, s)) = Reported(q)
<1> DEFINE p == Orphan(q, s)
<1>1. /\ DOMAIN p = DOMAIN q
      /\ \A i \in DOMAIN q : p[i].op = q[i].op /\ p[i].c = q[i].c /\ p[i].u = q[i].u
  BY OrphanCalls
<1> HIDE DEF p
<1>2. Reported(p) = Reported(q)
  BY <1>1 DEF Reported
<1> QED BY <1>2 DEF p

\* What the call at the head reports is all that Tail gives up.
LEMMA TailReports ==
    ASSUME NEW q \in Seq(Calls), q # <<>>
    PROVE  Reported(q) =
             Reported(Tail(q)) \cup
                (IF Head(q).op = "set" THEN {<<Head(q).u, Head(q).c>>} ELSE {})
<1> DEFINE t == Tail(q)
           x == Head(q)
<1>1. /\ 1 \in DOMAIN q /\ q[1] = x
      /\ \A i \in DOMAIN t : i + 1 \in DOMAIN q /\ t[i] = q[i + 1]
      /\ \A j \in DOMAIN q : j # 1 => j - 1 \in DOMAIN t /\ t[j - 1] = q[j]
  OBVIOUS
<1> HIDE DEF t, x
<1>2. Reported(t) \subseteq Reported(q)
  BY <1>1 DEF Reported
<1>3. \A r \in Reported(q) : r \in Reported(t) \/ (x.op = "set" /\ r = <<x.u, x.c>>)
  BY <1>1 DEF Reported
<1>4. x.op = "set" => <<x.u, x.c>> \in Reported(q)
  BY <1>1 DEF Reported
<1>5. Reported(q) = Reported(t) \cup (IF x.op = "set" THEN {<<x.u, x.c>>} ELSE {})
  BY <1>2, <1>3, <1>4
<1> QED BY <1>5 DEF t, x

-----------------------------------------------------------------------------
(* Steps of one phone, as the ledger sees them. *)

\* What is owed on d.
LEMMA OwedParts ==
    ASSUME NEW d \in Devices
    PROVE  /\ Owed(d) = pending[d] \cup Reported(fbq[d])
           /\ Owed(d)' = pending'[d] \cup Reported(fbq'[d])
BY DEF Owed, Reported

\* A step of d changes only what is owed on d.
LEMMA OwedElsewhere ==
    ASSUME NEW d \in Devices,
           \A e \in Devices \ {d} : fbq'[e] = fbq[e] /\ pending'[e] = pending[e]
    PROVE  OwedBy' = [OwedBy EXCEPT ![d] = Owed(d)']
<1>1. \A e \in Devices \ {d} : Owed(e)' = Owed(e)
  BY DEF Owed
<1> QED BY <1>1 DEF OwedBy

\* A step after which as much is owed as before, with no key heard and no
\* record written, is none of the ledger's.
LEMMA Unnoticed ==
    ASSUME NEW d \in Devices, UNCHANGED <<heard, records, refused, proc>>,
           \A e \in Devices \ {d} : fbq'[e] = fbq[e] /\ pending'[e] = pending[e],
           pending'[d] \cup Reported(fbq'[d]) = pending[d] \cup Reported(fbq[d])
    PROVE  UNCHANGED Ledger!vars
<1>1. Owed(d)' = Owed(d)
  BY OwedParts
<1>2. OwedBy' = [OwedBy EXCEPT ![d] = Owed(d)]
  BY <1>1, OwedElsewhere
<1>3. OwedBy' = OwedBy
  BY <1>2 DEF OwedBy
<1> QED BY <1>3 DEF Ledger!vars, OwedBy, Running

\* The death of a process is the ledger's Forget.
LEMMA TerminateForgets ==
    ASSUME DeskInv, NEW d \in Devices, NEW how, how # "running", Terminate(d, how)
    PROVE  Ledger!Forget(d)
<1>1. /\ fbq'[d] = <<>> /\ pending'[d] = {}
      /\ \A e \in Devices \ {d} : fbq'[e] = fbq[e] /\ pending'[e] = pending[e]
      /\ UNCHANGED <<heard, records, refused>>
  BY DEF DeskInv, TypeOK, ServerTypeOK, Terminate, ForgetClient
<1>2. Owed(d)' = {}
  BY <1>1, OwedParts DEF Reported
<1>3. OwedBy' = [OwedBy EXCEPT ![d] = {}]
  BY <1>1, <1>2, OwedElsewhere
<1>4. Alive' = Alive \ {d}
  <2>1. \A e \in Devices : proc'[e] = IF e = d THEN how ELSE proc[e]
    BY DEF DeskInv, TypeOK, Terminate
  <2> QED BY <2>1 DEF Alive, Running
<1> QED BY <1>1, <1>3, <1>4 DEF Ledger!Forget, OwedBy, Alive

\* A validation that matched is the ledger's Hear; any other leaves it alone.
LEMMA ValidateHears ==
    ASSUME DeskInv, NEW d \in Devices, NEW a \in AppMemory,
           a.currentT = app[d].currentT,
           NEW key \in Keys \cup {NoKey}, NEW via \in Givers,
           validateToken(d, a, key, via)
    PROVE  Ledger!Hear(d, key) \/ Ledger!Forget(d) \/ UNCHANGED Ledger!vars
<1> DEFINE x == [op |-> "read", u |-> user[d], c |-> a.currentT, via |-> via]
<1>1. CASE /\ Verdict(a, key) = "match" /\ user[d] # NoUser
           /\ fbq' = [fbq EXCEPT ![d] = Append(@, x)]
           /\ heard' = [heard EXCEPT ![d] = @ \cup {key}]
           /\ UNCHANGED <<dbVars, proc>>
  <2>1. x \in Calls /\ x.op = "read"
    BY <1>1 DEF Verdict, Calls, DeskInv, TypeOK, AppMemory
  <2>2. fbq[d] \in Seq(Calls)
    BY PhoneState
  <2> HIDE DEF x
  <2>3. /\ fbq'[d] = Append(fbq[d], x)
        /\ \A e \in Devices \ {d} : fbq'[e] = fbq[e]
        /\ UNCHANGED <<pending, records, refused>>
    BY <1>1 DEF DeskInv, TypeOK, dbVars
  <2>4. Reported(fbq'[d]) = Reported(fbq[d])
    BY <2>1, <2>2, <2>3, AppendReports
  <2>5. OwedBy' = [OwedBy EXCEPT ![d] = Owed(d)]
    BY <2>3, <2>4, OwedParts, OwedElsewhere
  <2>6. OwedBy' = OwedBy
    BY <2>5 DEF OwedBy
  <2> QED BY <1>1, <2>3, <2>6 DEF Ledger!Hear, OwedBy, Running
<1>2. CASE Terminate(d, "crashed")
  BY <1>2, TerminateForgets
<1>3. CASE UNCHANGED <<dbVars, fbq, heard, proc>>
  BY <1>3, Unnoticed DEF dbVars
<1> QED BY <1>1, <1>2, <1>3 DEF validateToken

\* check() reads; it owes nothing.
LEMMA CheckOwesNothing ==
    ASSUME DeskInv, NEW d \in Devices, NEW a, NEW calls \in Seq(Calls), NEW rest,
           NEW w, Reported(calls) = Reported(fbq[d]),
           check(d, a, calls, rest, w)
    PROVE  Ledger!Forget(d) \/ UNCHANGED Ledger!vars
<1> DEFINE x == [op |-> "check", u |-> user[d]]
           new == IF a.listed THEN Push(calls, x) ELSE calls
<1>1. CASE Terminate(d, "crashed")
  BY <1>1, TerminateForgets
<1>2. CASE /\ a.listed => user[d] # NoUser
           /\ fbq' = [fbq EXCEPT ![d] = new]
           /\ UNCHANGED <<records, pending, heard, refused, proc>>
  <2>1. a.listed => x \in Calls /\ x.op # "set"
    BY <1>2 DEF DeskInv, TypeOK, Calls
  <2>2. Reported(new) = Reported(fbq[d])
    BY <2>1, PushReports
  <2> HIDE DEF new
  <2>3. /\ fbq'[d] = new /\ \A e \in Devices \ {d} : fbq'[e] = fbq[e]
        /\ UNCHANGED <<heard, records, pending, refused, proc>>
    BY <1>2 DEF DeskInv, TypeOK
  <2> QED BY <2>2, <2>3, Unnoticed
<1> QED BY <1>1, <1>2 DEF check

-----------------------------------------------------------------------------
(* The steps of the phones and of the network. *)

\* Only keys, and the end of a process, are of interest to the ledger.
LEMMA UserStepOfLedger ==
    ASSUME DeskInv, NEW d \in Devices, UserStep(d)
    PROVE  \/ \E key \in Keys \cup {NoKey} : Ledger!Hear(d, key)
           \/ Ledger!Forget(d) \/ Ledger!Start(d)
           \/ UNCHANGED Ledger!vars
<1>0. fbq[d] \in Seq(Calls) /\ app[d] \in AppMemory
  BY PhoneState
<1>1. CASE Kill(d)
  BY <1>1, TerminateForgets DEF Kill
<1>2. CASE \/ MicButton(d) \/ SomethingWrong(d) \/ WrongPassword(d)
           \/ DismissAlert(d) \/ HandleTap(d) \/ DownButton(d) \/ VisitOther(d)
           \/ Logout(d) \/ SignOutIfTokenIsInvalid(d)
           \/ \E u \in Users : Login(d, u)
           \/ \E c \in Coupons : SelectRow(d, c)
  <2>1. UNCHANGED <<dbVars, fbq, heard, proc>>
    BY <1>2 DEF MicButton, SomethingWrong, WrongPassword, DismissAlert, HandleTap,
                DownButton, VisitOther, Logout, SignOutIfTokenIsInvalid,
                Login, SelectRow
  <2> QED BY <2>1, Unnoticed DEF dbVars
<1>3. CASE VisitCoupons(d)
  <2> DEFINE x == [op |-> "observe"]
             old == Orphan(fbq[d], "coupons")
  <2>1. x \in Calls /\ x.op # "set" /\ old \in Seq(Calls)
    BY <1>0, OrphanCalls DEF Calls
  <2>2. Reported(Append(old, x)) = Reported(fbq[d])
    <3>1. Reported(old) = Reported(fbq[d])
      BY <1>0, OrphanReports
    <3> HIDE DEF old, x
    <3> QED BY <2>1, <3>1, AppendReports
  <2>3. /\ fbq'[d] = Append(old, x) /\ \A e \in Devices \ {d} : fbq'[e] = fbq[e]
        /\ UNCHANGED <<heard, records, pending, refused, proc>>
    BY <1>3 DEF VisitCoupons, DeskInv, TypeOK, dbVars
  <2> HIDE DEF x, old
  <2> QED BY <2>2, <2>3, Unnoticed
<1>4. CASE BackButtonPressed(d)
  <2> DEFINE a == [app[d] EXCEPT !.screen = "coupons"]
             rest == Orphan(mainq[d], "wrong")
             calls == Orphan(fbq[d], "wrong")
             w == OrphanReads(waiting[d], "wrong")
  <2>1. calls \in Seq(Calls) /\ Reported(calls) = Reported(fbq[d])
    BY <1>0, OrphanCalls, OrphanReports
  <2>2. \/ check(d, a, calls, rest, w)
        \/ /\ fbq' = [fbq EXCEPT ![d] = calls]
           /\ UNCHANGED <<records, pending, heard, refused, proc>>
    BY <1>4 DEF BackButtonPressed
  <2> HIDE DEF a, rest, calls, w
  <2>3. CASE check(d, a, calls, rest, w)
    BY <2>1, <2>3, CheckOwesNothing
  <2>4. CASE /\ fbq' = [fbq EXCEPT ![d] = calls]
             /\ UNCHANGED <<records, pending, heard, refused, proc>>
    <3>1. /\ fbq'[d] = calls /\ \A e \in Devices \ {d} : fbq'[e] = fbq[e]
          /\ UNCHANGED <<heard, records, pending, refused, proc>>
      BY <2>4 DEF DeskInv, TypeOK
    <3> QED BY <2>1, <3>1, Unnoticed
  <2> QED BY <2>2, <2>3, <2>4
<1>5. ASSUME NEW key \in Keys \cup {NoKey}, DataReceived(d, key) \/ AdminBypassAdd(d, key)
      PROVE  Ledger!Hear(d, key) \/ Ledger!Forget(d) \/ UNCHANGED Ledger!vars
  <2> DEFINE a == [app[d] EXCEPT !.listening = FALSE]
  <2>1. a \in AppMemory /\ a.currentT = app[d].currentT
    BY <1>0 DEF AppMemory
  <2>2. CASE validateToken(d, a, key, "coupons")
    BY <2>1, <2>2, ValidateHears DEF Givers
  <2>3. CASE validateToken(d, app[d], key, "wrong")
    BY <1>0, <2>3, ValidateHears DEF Givers
  <2> QED BY <1>5, <2>2, <2>3 DEF DataReceived, AdminBypassAdd
<1>6. CASE Launch(d)
  <2>1. UNCHANGED <<dbVars, fbq, heard>>
    BY <1>6 DEF Launch
  <2>2. OwedBy' = OwedBy
    BY <2>1 DEF OwedBy, Owed, dbVars
  <2>3. Alive' = Alive \cup {d}
    <3>1. \A e \in Devices : proc'[e] = IF e = d THEN "running" ELSE proc[e]
      BY <1>6 DEF DeskInv, TypeOK, Launch
    <3> QED BY <3>1 DEF Alive, Running
  <2> QED BY <2>1, <2>2, <2>3 DEF Ledger!Start, OwedBy, Alive, dbVars
<1> QED BY <1>1, <1>2, <1>3, <1>4, <1>5, <1>6 DEF UserStep

\* The SDK's queue moves what is owed from the queue to the pending writes.
LEMMA FirebaseStepOfLedger ==
    ASSUME DeskInv, NEW d \in Devices, FirebaseStep(d)
    PROVE  UNCHANGED Ledger!vars
<1> DEFINE call == Head(fbq[d])
           calls == Tail(fbq[d])
<1>1. /\ fbq[d] # <<>> /\ fbq' = [fbq EXCEPT ![d] = calls]
      /\ UNCHANGED <<heard, records, refused, proc>>
  BY DEF FirebaseStep, FirebaseObserve, FirebaseRead, FirebaseCheck, FirebaseSet,
         AtHead, Observe, SetValue, dbVars
<1>2. Reported(fbq[d]) =
        Reported(calls) \cup (IF call.op = "set" THEN {<<call.u, call.c>>} ELSE {})
  BY <1>1, PhoneState, TailReports
<1>3. fbq'[d] = calls /\ \A e \in Devices \ {d} : fbq'[e] = fbq[e]
  BY <1>1 DEF DeskInv, TypeOK
<1> HIDE DEF calls
<1>4. CASE FirebaseObserve(d) \/ FirebaseRead(d) \/ FirebaseCheck(d)
  <2>1. call.op # "set" /\ UNCHANGED pending
    BY <1>4 DEF FirebaseObserve, FirebaseRead, FirebaseCheck, AtHead, Observe, dbVars
  <2> HIDE DEF call
  <2>2. Reported(fbq'[d]) = Reported(fbq[d])
    BY <1>2, <1>3, <2>1
  <2> QED BY <1>1, <1>3, <2>1, <2>2, Unnoticed
<1>5. CASE FirebaseSet(d)
  <2>1. call.op = "set" /\ SetValue(d, <<call.u, call.c>>)
    BY <1>5 DEF FirebaseSet, AtHead
  <2> HIDE DEF call
  <2>2. /\ pending'[d] = pending[d] \cup {<<call.u, call.c>>}
        /\ \A e \in Devices \ {d} : pending'[e] = pending[e]
    BY <2>1 DEF SetValue, DeskInv, TypeOK, ServerTypeOK
  <2>3. pending'[d] \cup Reported(fbq'[d]) = pending[d] \cup Reported(fbq[d])
    BY <1>2, <1>3, <2>1, <2>2
  <2> QED BY <1>1, <1>3, <2>2, <2>3, Unnoticed
<1> QED BY <1>4, <1>5 DEF FirebaseStep

\* A redemption is promised only on a phone that heard the coupon's key.
LEMMA MainStepOfLedger ==
    ASSUME DeskInv, NEW d \in Devices, MainStep(d)
    PROVE  \/ \E r \in Records : Ledger!Promise(d, r)
           \/ Ledger!Forget(d)
           \/ UNCHANGED Ledger!vars
<1>1. CASE AlreadyRedeemed(d) \/ Checked(d)
  <2>1. UNCHANGED <<dbVars, fbq, heard, proc>>
    BY <1>1 DEF AlreadyRedeemed, Checked
  <2> QED BY <2>1, Unnoticed DEF dbVars
<1>2. CASE Scannables(d)
  <2>1. check(d, [app[d] EXCEPT !.listed = TRUE], fbq[d], Tail(mainq[d]),
              waiting[d])
    BY <1>2 DEF Scannables
  <2> QED BY <2>1, PhoneState, CheckOwesNothing
<1>3. CASE Redeem(d)
  <2> DEFINE c == Head(mainq[d]).c
             x == [op |-> "set", u |-> user[d], c |-> c]
             r == <<user[d], c>>
  <2>1. CASE Terminate(d, "crashed")
    BY <2>1, TerminateForgets
  <2>2. CASE user[d] # NoUser /\ ~Terminate(d, "crashed")
    <3>1. mainq[d] # <<>> /\ Head(mainq[d]).op = "read"
      BY <1>3 DEF Redeem, AtHead
    <3>2. fbq' = [fbq EXCEPT ![d] = Append(fbq[d], x)]
      BY <1>3, <2>2, Zenon DEF Redeem
    <3>3. UNCHANGED <<dbVars, heard, proc>>
      BY <1>3, <2>2, Zenon DEF Redeem
    <3>4. c \in Coupons /\ KeyOf[c] \in heard[d]
      BY <3>1, TailState DEF Callbacks
    <3>5. x \in Calls /\ x.op = "set" /\ x.u = user[d] /\ x.c = c
      BY <2>2, <3>4 DEF Calls, DeskInv, TypeOK
    <3>6. r \in Records /\ r[2] = c
      BY <2>2, <3>4 DEF Records, DeskInv, TypeOK
    <3>7. fbq[d] \in Seq(Calls)
      BY PhoneState
    <3>8. Reported(Append(fbq[d], x)) = Reported(fbq[d]) \cup {<<x.u, x.c>>}
      <4> HIDE DEF x
      <4> QED BY <3>5, <3>7, AppendReports
    <3>9. Reported(Append(fbq[d], x)) = Reported(fbq[d]) \cup {r}
      BY <3>5, <3>8
    <3> HIDE DEF x, r, c
    <3>10. /\ fbq'[d] = Append(fbq[d], x) /\ \A e \in Devices \ {d} : fbq'[e] = fbq[e]
           /\ UNCHANGED <<pending, records, refused>>
      BY <3>2, <3>3 DEF DeskInv, TypeOK, dbVars
    <3>11. Owed(d)' = Owed(d) \cup {r}
      BY <3>9, <3>10, OwedParts
    <3>12. OwedBy' = [OwedBy EXCEPT ![d] = @ \cup {r}]
      BY <3>10, <3>11, OwedElsewhere DEF OwedBy
    <3> QED BY <3>3, <3>4, <3>6, <3>10, <3>12 DEF Ledger!Promise, OwedBy, Running
  <2> QED BY <1>3, <2>1, <2>2 DEF Redeem
<1> QED BY <1>1, <1>2, <1>3 DEF MainStep

\* The server records what is owed; an acknowledged or refused write is owed
\* no more, unless the same redemption is on its way a second time.
LEMMA NetworkStepOfLedger ==
    ASSUME DeskInv, NEW d \in Devices, NetworkStep(d)
    PROVE  \/ \E r \in Records : \/ Ledger!Deliver(d, r) \/ Ledger!Settle(d, r)
                                \/ Ledger!Refuse(d, r)
           \/ UNCHANGED Ledger!vars
<1>0. UNCHANGED <<fbq, heard, proc>>
  BY DEF NetworkStep, Listened, Cancelled, ReadReturned
<1>1. CASE \/ ListenAnswered(d) \/ ListenLost(d)
           \/ \E r \in Records : ReadAnswered(d, r)
  BY <1>0, <1>1, Unnoticed DEF ListenAnswered, ListenLost, ReadAnswered
<1>2. ASSUME NEW r \in Records, DataUpdate(d, r)
      PROVE  UNCHANGED Ledger!vars
  BY <1>0, <1>2, Unnoticed DEF DataUpdate
<1>3. ASSUME NEW r \in Records, ServerPut(d, r)
      PROVE  Ledger!Deliver(d, r)
  <2>1. /\ r \in Owed(d) /\ records' = records \cup {r} /\ UNCHANGED <<pending, refused>>
    BY <1>3, OwedParts DEF ServerPut
  <2>2. OwedBy' = OwedBy
    BY <1>0, <2>1 DEF OwedBy, Owed
  <2>3. r \in OwedBy[d]
    BY <2>1 DEF OwedBy
  <2> QED BY <1>0, <2>1, <2>2, <2>3 DEF Ledger!Deliver, OwedBy, Running
<1>4. ASSUME NEW r \in Records, pending' = [pending EXCEPT ![d] = @ \ {r}]
      PROVE  OwedBy' = OwedBy \/ OwedBy' = [OwedBy EXCEPT ![d] = @ \ {r}]
  <2>1. /\ pending'[d] = pending[d] \ {r}
        /\ \A e \in Devices \ {d} : pending'[e] = pending[e]
    BY <1>4 DEF DeskInv, TypeOK, ServerTypeOK
  <2>2. Owed(d)' = Owed(d) \/ Owed(d)' = Owed(d) \ {r}
    BY <1>0, <2>1, OwedParts
  <2>3. OwedBy' = [OwedBy EXCEPT ![d] = Owed(d)']
    BY <1>0, <2>1, OwedElsewhere
  <2> QED BY <2>2, <2>3 DEF OwedBy
<1>5. ASSUME NEW r \in Records, AckWrite(d, r)
      PROVE  Ledger!Settle(d, r) \/ UNCHANGED Ledger!vars
  <2>1. r \in records /\ UNCHANGED <<records, refused>>
    BY <1>5 DEF AckWrite
  <2>2. OwedBy' = OwedBy \/ OwedBy' = [OwedBy EXCEPT ![d] = @ \ {r}]
    BY <1>4, <1>5 DEF AckWrite
  <2> QED BY <1>0, <2>1, <2>2 DEF Ledger!Settle, Ledger!vars, OwedBy, Running
<1>6. ASSUME NEW r \in Records, RevertWrite(d, r)
      PROVE  Ledger!Refuse(d, r)
  <2>1. /\ r \in OwedBy[d] \cap Refused
        /\ refused' = refused \cup {r} /\ UNCHANGED records
    BY <1>6, OwedParts DEF RevertWrite, OwedBy
  <2>2. OwedBy' = OwedBy \/ OwedBy' = [OwedBy EXCEPT ![d] = @ \ {r}]
    BY <1>4, <1>6 DEF RevertWrite
  <2> QED BY <1>0, <2>1, <2>2 DEF Ledger!Refuse, OwedBy, Running
<1> QED
  BY <1>1, <1>2, <1>3, <1>5, <1>6 DEF NetworkStep, Listened, Cancelled, ReadReturned

-----------------------------------------------------------------------------
(* The refinement. *)

\* Nothing is heard, owed or recorded at first.
LEMMA InitOfLedger == Init => Ledger!Init
<1> SUFFICES ASSUME Init PROVE Ledger!Init
  OBVIOUS
<1>1. ASSUME NEW d \in Devices PROVE Owed(d) = {}
  <2>1. pending[d] = {} /\ DOMAIN fbq[d] = {}
    BY DEF Init, DatabaseInit
  <2> QED BY <2>1 DEF Owed
<1> QED BY <1>1 DEF Init, DatabaseInit, Ledger!Init, Running

\* Every step of the desk is one of the ledger, or none.
LEMMA NextOfLedger == DeskInv /\ [Next]_vars => [Ledger!Next]_(Ledger!vars)
<1> SUFFICES ASSUME DeskInv, [Next]_vars
             PROVE  Ledger!Next \/ UNCHANGED Ledger!vars
  OBVIOUS
<1>1. ASSUME NEW d \in Devices,
             UserStep(d) \/ FirebaseStep(d) \/ MainStep(d) \/ NetworkStep(d)
      PROVE  Ledger!Next \/ UNCHANGED Ledger!vars
  BY <1>1, UserStepOfLedger, FirebaseStepOfLedger, MainStepOfLedger, NetworkStepOfLedger
     DEF Ledger!Next, Ledger!Records, Records
<1>2. CASE UNCHANGED vars
  <2>1. UNCHANGED <<heard, records, refused, fbq, pending, proc>>
    BY <1>2 DEF vars
  <2> QED BY <2>1 DEF Ledger!vars, Owed, Running
<1> QED BY <1>1, <1>2 DEF Next

\* On any number of phones, whatever the users, the network and the ends of
\* processes do, redemptions are promised only after the key was heard, are
\* recorded only if promised, are struck off only once recorded, or refused, or
\* with the process, and records are never lost: the desk implements CouponLedger.
THEOREM DeskImplementsLedger == Spec => RefinesLedger
<1>1. Init => Ledger!Init
  BY InitOfLedger
<1>2. DeskInv /\ [Next]_vars => [Ledger!Next]_(Ledger!vars)
  BY NextOfLedger
<1> QED BY <1>1, <1>2, DeskInvariant, PTL DEF Spec, RefinesLedger, Ledger!Spec

-----------------------------------------------------------------------------
(* Queues of calls: what keeps them tidy. *)

\* A call of the owner joins a tidy queue, a write only where no read waits.
LEMMA TidyAppend ==
    ASSUME NEW o, NEW q \in Seq(Calls), Tidy(q, o), NEW x \in Calls,
           x.op \in {"read", "set"} => x.u = o,
           x.op = "set" => \A i \in DOMAIN q : q[i].op # "read"
    PROVE  Tidy(Append(q, x), o)
<1> DEFINE p == Append(q, x)
           n == Len(q) + 1
<1>1. /\ DOMAIN p = DOMAIN q \cup {n} /\ p[n] = x
      /\ \A i \in DOMAIN q : p[i] = q[i] /\ i < n
  OBVIOUS
<1> HIDE DEF p, n
<1>2. Tidy(p, o)
  BY <1>1 DEF Tidy
<1> QED BY <1>2 DEF p

\* A call that neither reads nor writes the record may join anyway.
LEMMA TidyPush ==
    ASSUME NEW o, NEW q \in Seq(Calls), Tidy(q, o), NEW x \in Calls,
           x.op \notin {"read", "set"}
    PROVE  Tidy(Push(q, x), o)
<1>1. Push(q, x) = q \/ Push(q, x) = Append(q, x)
  BY DEF Push
<1> QED BY <1>1, TidyAppend

\* A screen that goes leaves the order of the calls as it was.
LEMMA TidyOrphan ==
    ASSUME NEW o, NEW q \in Seq(Calls), Tidy(q, o), NEW s
    PROVE  Tidy(Orphan(q, s), o)
<1> DEFINE p == Orphan(q, s)
<1>1. /\ DOMAIN p = DOMAIN q
      /\ \A i \in DOMAIN q : p[i].op = q[i].op /\ p[i].u = q[i].u
  BY OrphanCalls
<1> HIDE DEF p
<1>2. Tidy(p, o)
  BY <1>1 DEF Tidy
<1> QED BY <1>2 DEF p

\* If a validation is next, no write is waiting.
LEMMA TidyTail ==
    ASSUME NEW o, NEW q \in Seq(Calls), Tidy(q, o), q # <<>>
    PROVE  /\ Tidy(Tail(q), o)
           /\ Head(q).op \in {"read", "set"} => Head(q).u = o
           /\ Head(q).op = "read" => Reported(q) = {}
<1> DEFINE t == Tail(q)
           x == Head(q)
<1>1. /\ 1 \in DOMAIN q /\ q[1] = x
      /\ \A i \in DOMAIN t : i + 1 \in DOMAIN q /\ t[i] = q[i + 1]
      /\ DOMAIN t \subseteq Nat /\ \A i \in DOMAIN q : i \in Nat /\ ~(i < 1)
  OBVIOUS
<1> HIDE DEF t, x
<1>2. \A i \in DOMAIN t : t[i].op \in {"read", "set"} => t[i].u = o
  BY <1>1 DEF Tidy
<1>3. ASSUME NEW i \in DOMAIN t, NEW j \in DOMAIN t, t[i].op = "read", t[j].op = "set"
      PROVE  j < i
  <2>1. j + 1 < i + 1
    BY <1>1, <1>3 DEF Tidy
  <2> QED BY <1>1, <2>1
<1>4. x.op \in {"read", "set"} => x.u = o
  BY <1>1 DEF Tidy
<1>5. x.op = "read" => Reported(q) = {}
  BY <1>1 DEF Tidy, Reported
<1> QED BY <1>2, <1>3, <1>4, <1>5 DEF Tidy, t, x

-----------------------------------------------------------------------------
(* Queues of callbacks: which coupons they find free. *)

\* Only the answer to a read that found nothing adds a free coupon.
LEMMA FreeAppend ==
    ASSUME NEW q \in Seq(Callbacks), NEW x \in Callbacks
    PROVE  Free(Append(q, x)) =
             Free(q) \cup (IF x.op = "read" /\ ~x.exists THEN {x.c} ELSE {})
<1> DEFINE p == Append(q, x)
           n == Len(q) + 1
<1>1. /\ DOMAIN p = DOMAIN q \cup {n} /\ n \notin DOMAIN q
      /\ p[n] = x /\ \A i \in DOMAIN q : p[i] = q[i]
  OBVIOUS
<1> HIDE DEF p, n
<1>2. Free(p) = Free(q) \cup (IF x.op = "read" /\ ~x.exists THEN {x.c} ELSE {})
  BY <1>1 DEF Free
<1> QED BY <1>2 DEF p

\* Other callbacks add none.
LEMMA FreePush ==
    ASSUME NEW q \in Seq(Callbacks), NEW x \in Callbacks, x.op # "read"
    PROVE  Free(Push(q, x)) = Free(q)
<1>1. Push(q, x) = q \/ Push(q, x) = Append(q, x)
  BY DEF Push
<1> QED BY <1>1, FreeAppend

\* A screen that goes changes no answer.
LEMMA FreeOrphan ==
    ASSUME NEW q \in Seq(Callbacks), NEW s
    PROVE  Free(Orphan(q, s)) = Free(q)
<1> DEFINE p == Orphan(q, s)
<1>1. DOMAIN p = DOMAIN q
  BY DEF Orphan
<1>2. ASSUME NEW i \in DOMAIN q
      PROVE  /\ p[i].op = q[i].op
             /\ q[i].op = "read" => p[i].c = q[i].c /\ p[i].exists = q[i].exists
  <2>1. q[i] \in Callbacks
    OBVIOUS
  <2>2. CASE q[i].op = "read" /\ q[i].via = s
    <3>1. p[i] = [q[i] EXCEPT !.via = "gone"]
      BY <2>2 DEF Orphan
    <3>2. q[i] \in [op : {"read"}, c : Coupons, exists : BOOLEAN, via : Givers]
      BY <2>1, <2>2 DEF Callbacks
    <3> QED BY <3>1, <3>2
  <2>3. CASE ~(q[i].op = "read" /\ q[i].via = s)
    BY <2>3 DEF Orphan
  <2> QED BY <2>2, <2>3
<1> HIDE DEF p
<1>3. Free(p) = Free(q)
  BY <1>1, <1>2 DEF Free
<1> QED BY <1>3 DEF p

\* Running the first callback adds none; if it found a coupon free, it was counted.
LEMMA FreeTail ==
    ASSUME NEW q \in Seq(Callbacks), q # <<>>
    PROVE  /\ Free(Tail(q)) \subseteq Free(q)
           /\ Head(q).op = "read" /\ ~Head(q).exists => Head(q).c \in Free(q)
<1> DEFINE t == Tail(q)
           x == Head(q)
<1>1. /\ 1 \in DOMAIN q /\ q[1] = x
      /\ \A i \in DOMAIN t : i + 1 \in DOMAIN q /\ t[i] = q[i + 1]
  OBVIOUS
<1> HIDE DEF t, x
<1>2. Free(t) \subseteq Free(q)
  BY <1>1 DEF Free
<1>3. x.op = "read" /\ ~x.exists => x.c \in Free(q)
  BY <1>1 DEF Free
<1> QED BY <1>2, <1>3 DEF t, x

\* Queues behind one another find free what each of them does.
LEMMA FreeConcat ==
    ASSUME NEW q \in Seq(Callbacks), NEW p \in Seq(Callbacks)
    PROVE  Free(q \o p) \subseteq Free(q) \cup Free(p)
<1> DEFINE t == q \o p
<1>1. \A i \in DOMAIN t : \/ \E j \in DOMAIN q : t[i] = q[j]
                          \/ \E j \in DOMAIN p : t[i] = p[j]
  BY ConcatElements
<1> HIDE DEF t
<1>2. Free(t) \subseteq Free(q) \cup Free(p)
  BY <1>1 DEF Free
<1> QED BY <1>2 DEF t

-----------------------------------------------------------------------------
(* Reads that wait. *)

\* WaitsAlone for the reads w and the calls q.
WaitsTidy(w, q, o) ==
    \A r \in Records : \A i \in DOMAIN w[r] :
        w[r][i] # "check" => r[1] = o /\ Reported(q) = {}

LEMMA WaitsParts ==
    ASSUME NEW d \in Devices
    PROVE  /\ WaitsAlone(d, Owner[d]) <=> WaitsTidy(waiting[d], fbq[d], Owner[d])
           /\ WaitsAlone(d, Owner[d])' <=> WaitsTidy(waiting'[d], fbq'[d], Owner[d])
<1>1. /\ Reported(fbq[d]) = {} <=> \A j \in DOMAIN fbq[d] : fbq[d][j].op # "set"
      /\ Reported(fbq'[d]) = {} <=> \A j \in DOMAIN fbq'[d] : fbq'[d][j].op # "set"
  BY DEF Reported
<1> QED BY <1>1 DEF WaitsAlone, WaitsTidy

\* While a validation is being decided there is no other.
LEMMA DecidedAlone ==
    ASSUME DeskInv, NEW d \in Devices, OneAtATime(d),
           mainq[d] # <<>>, Head(mainq[d]).op = "read"
    PROVE  /\ \A i \in DOMAIN fbq[d] : fbq[d][i].op # "read"
           /\ Free(Tail(mainq[d])) = {}
           /\ \A r \in Records : \A i \in DOMAIN waiting[d][r] :
                 waiting[d][r][i] = "check"
<1> DEFINE q == mainq[d]
           t == Tail(q)
<1>1. /\ 1 \in DOMAIN q /\ q[1].op = "read"
      /\ \A i \in DOMAIN t : i + 1 \in DOMAIN q /\ t[i] = q[i + 1] /\ i + 1 # 1
  BY PhoneState
<1>2. <<2, 1>> \in Undecided(d)
  BY <1>1 DEF Undecided
<1>3. \A i \in DOMAIN fbq[d] : fbq[d][i].op # "read"
  <2> SUFFICES ASSUME NEW i \in DOMAIN fbq[d], fbq[d][i].op = "read"
               PROVE  FALSE
    OBVIOUS
  <2>1. <<1, i>> \in Undecided(d)
    BY DEF Undecided
  <2>2. <<1, i>> = <<2, 1>>
    BY <1>2, <2>1 DEF OneAtATime
  <2> QED BY <2>2
<1>4. \A i \in DOMAIN t : t[i].op # "read"
  <2> SUFFICES ASSUME NEW i \in DOMAIN t, t[i].op = "read"
               PROVE  FALSE
    OBVIOUS
  <2>1. <<2, i + 1>> \in Undecided(d)
    BY <1>1 DEF Undecided
  <2>2. <<2, i + 1>> = <<2, 1>>
    BY <1>2, <2>1 DEF OneAtATime
  <2> QED BY <1>1, <2>2
<1>5. \A r \in Records : \A i \in DOMAIN waiting[d][r] : waiting[d][r][i] = "check"
  <2> SUFFICES ASSUME NEW r \in Records, NEW i \in DOMAIN waiting[d][r],
                      waiting[d][r][i] # "check"
               PROVE  FALSE
    OBVIOUS
  <2>1. <<r, i>> \in Reads(d) /\ <<r, i>>[1] = r /\ <<r, i>>[2] = i
    BY DEF Reads
  <2>2. <<3, <<r, i>>>> \in Undecided(d)
    BY <2>1 DEF Undecided
  <2>3. <<3, <<r, i>>>> = <<2, 1>>
    BY <1>2, <2>2 DEF OneAtATime
  <2> QED BY <2>3
<1> QED BY <1>3, <1>4, <1>5 DEF Free

-----------------------------------------------------------------------------
(* Steps of one phone. *)

\* What the invariant says of d.
LEMMA OrderlyState ==
    ASSUME OrderlyInv, NEW d \in Devices
    PROVE  /\ DeskInv /\ OneAtATime(d) /\ user[d] \in {Owner[d], NoUser}
           /\ fbq[d] \in Seq(Calls) /\ mainq[d] \in Seq(Callbacks)
           /\ waiting[d] \in [Records -> Seq(Askers)]
           /\ ~Running(d) => /\ listen[d] = "none" /\ pending[d] = {}
                             /\ fbq[d] = <<>> /\ mainq[d] = <<>>
                             /\ waiting[d] = NoReads
           /\ Tidy(fbq[d], Owner[d]) /\ WaitsTidy(waiting[d], fbq[d], Owner[d])
           /\ \A c \in Free(mainq[d]) : served[<<Owner[d], c>>] = 0
           /\ \A c \in Coupons : served[<<Owner[d], c>>] > 0
                 => /\ <<Owner[d], c>> \in records \cup pending[d] \cup Reported(fbq[d])
                    /\ Synced(d) => <<Owner[d], c>> \in
                                       cache[d] \cup pending[d] \cup Reported(fbq[d])
<1>1. Owed(d) = pending[d] \cup Reported(fbq[d])
  BY OwedParts
<1>2. DeskInv /\ PhoneInv(d) /\ AnnouncedIsKept /\ AnnouncedIsSeen
  BY DEF OrderlyInv
<1>3. /\ fbq[d] \in Seq(Calls) /\ mainq[d] \in Seq(Callbacks)
      /\ waiting[d] \in [Records -> Seq(Askers)]
  BY <1>2, PhoneState
<1>4. WaitsTidy(waiting[d], fbq[d], Owner[d])
  BY <1>2, WaitsParts DEF PhoneInv
<1> QED BY <1>1, <1>2, <1>3, <1>4
           DEF PhoneInv, AnnouncedIsKept, AnnouncedIsSeen, LocalData

\* A step of d leaves the other phones alone, and their owners' successes.
LEMMA OtherPhones ==
    ASSUME OrderlyInv, DeskInv', Orderly, NEW d \in Devices, OnlyHere(d),
           \A e \in Devices \ {d} :
               /\ proc'[e] = proc[e] /\ fbq'[e] = fbq[e] /\ mainq'[e] = mainq[e]
               /\ \A c \in Coupons : served'[<<Owner[e], c>>] = served[<<Owner[e], c>>],
           records \subseteq records',
           ~Running(d)' => /\ listen'[d] = "none" /\ pending'[d] = {}
                           /\ fbq'[d] = <<>> /\ mainq'[d] = <<>>
                           /\ waiting'[d] = NoReads,
           Tidy(fbq'[d], Owner[d]), WaitsTidy(waiting'[d], fbq'[d], Owner[d]),
           \A c \in Free(mainq'[d]) : served'[<<Owner[d], c>>] = 0,
           \A c \in Coupons : served'[<<Owner[d], c>>] > 0
               => /\ <<Owner[d], c>> \in records' \cup pending'[d] \cup Reported(fbq'[d])
                  /\ Synced(d)' => <<Owner[d], c>> \in
                                      cache'[d] \cup pending'[d] \cup Reported(fbq'[d]),
           \A r \in Records : served'[r] <= 1
    PROVE  OrderlyInv'
<1>1. ASSUME NEW e \in Devices PROVE user'[e] \in {Owner[e], NoUser} /\ OneAtATime(e)'
  BY DEF Orderly
<1>2. ASSUME NEW e \in Devices \ {d}
      PROVE  /\ ~Running(e)' => /\ listen'[e] = "none" /\ pending'[e] = {}
                                /\ fbq'[e] = <<>> /\ mainq'[e] = <<>>
                                /\ waiting'[e] = NoReads
             /\ Tidy(fbq'[e], Owner[e]) /\ WaitsTidy(waiting'[e], fbq'[e], Owner[e])
             /\ \A c \in Free(mainq'[e]) : served'[<<Owner[e], c>>] = 0
             /\ \A c \in Coupons : served'[<<Owner[e], c>>] > 0
                  => /\ <<Owner[e], c>> \in records' \cup pending'[e] \cup Reported(fbq'[e])
                     /\ Synced(e)' => <<Owner[e], c>> \in
                                         cache'[e] \cup pending'[e] \cup Reported(fbq'[e])
  <2>1. Free(mainq[e]) \subseteq Coupons
    <3>1. mainq[e] \in Seq(Callbacks)
      BY OrderlyState
    <3>2. \A i \in DOMAIN mainq[e] : mainq[e][i].op = "read" => mainq[e][i].c \in Coupons
      BY <3>1 DEF Callbacks
    <3> QED BY <3>2 DEF Free
  <2>2. /\ listen'[e] = listen[e] /\ cache'[e] = cache[e]
        /\ pending'[e] = pending[e] /\ waiting'[e] = waiting[e]
    BY DEF OnlyHere
  <2>3. /\ proc'[e] = proc[e] /\ fbq'[e] = fbq[e] /\ mainq'[e] = mainq[e]
        /\ \A c \in Coupons : served'[<<Owner[e], c>>] = served[<<Owner[e], c>>]
    OBVIOUS
  <2>4. ~Running(e)' => ~Running(e)
    BY <2>3 DEF Running
  <2>5. /\ ~Running(e)' => /\ listen'[e] = "none" /\ pending'[e] = {}
                           /\ fbq'[e] = <<>> /\ mainq'[e] = <<>>
                           /\ waiting'[e] = NoReads
        /\ Tidy(fbq'[e], Owner[e]) /\ WaitsTidy(waiting'[e], fbq'[e], Owner[e])
    BY <2>2, <2>3, <2>4, OrderlyState
  <2>6. \A c \in Free(mainq'[e]) : served'[<<Owner[e], c>>] = 0
    BY <2>1, <2>3, OrderlyState
  <2>7. \A c \in Coupons : served'[<<Owner[e], c>>] > 0
           => /\ <<Owner[e], c>> \in records' \cup pending'[e] \cup Reported(fbq'[e])
              /\ Synced(e)' => <<Owner[e], c>> \in
                                  cache'[e] \cup pending'[e] \cup Reported(fbq'[e])
    BY <2>2, <2>3, OrderlyState DEF Synced
  <2> QED BY <2>5, <2>6, <2>7
<1>3. \A e \in Devices : PhoneInv(e)'
  <2> SUFFICES ASSUME NEW e \in Devices PROVE PhoneInv(e)'
    OBVIOUS
  <2>1. /\ ~Running(e)' => /\ listen'[e] = "none" /\ pending'[e] = {}
                           /\ fbq'[e] = <<>> /\ mainq'[e] = <<>>
                           /\ waiting'[e] = NoReads
        /\ Tidy(fbq'[e], Owner[e]) /\ WaitsTidy(waiting'[e], fbq'[e], Owner[e])
        /\ \A c \in Free(mainq'[e]) : served'[<<Owner[e], c>>] = 0
    BY <1>2
  <2>2. Tidy(fbq[e], Owner[e])'
    BY <2>1 DEF Tidy
  <2>3. \A c \in Free(mainq[e])' : served'[<<Owner[e], c>>] = 0
    BY <2>1 DEF Free
  <2>4. WaitsAlone(e, Owner[e])'
    BY <2>1, WaitsParts
  <2>5. /\ ~Running(e)' => waiting'[e] = NoReads'
    BY <2>1 DEF NoReads, Records
  <2> QED BY <1>1, <2>1, <2>2, <2>3, <2>4, <2>5 DEF PhoneInv
<1>4. AnnouncedIsKept' /\ AnnouncedIsSeen'
  <2> SUFFICES ASSUME NEW e \in Devices, NEW c \in Coupons, served'[<<Owner[e], c>>] > 0
               PROVE  /\ <<Owner[e], c>> \in records' \cup Owed(e)'
                      /\ Synced(e)' => <<Owner[e], c>> \in LocalData(e)' \cup Owed(e)'
    BY DEF AnnouncedIsKept, AnnouncedIsSeen
  <2>1. Owed(e)' = pending'[e] \cup Reported(fbq'[e])
    BY OwedParts
  <2>2. /\ <<Owner[e], c>> \in records' \cup pending'[e] \cup Reported(fbq'[e])
        /\ Synced(e)' => <<Owner[e], c>> \in cache'[e] \cup pending'[e] \cup Reported(fbq'[e])
    BY <1>2
  <2> QED BY <2>1, <2>2 DEF LocalData
<1>5. OneCouponPerMeal'
  BY DEF OneCouponPerMeal
<1> QED BY <1>3, <1>4, <1>5 DEF OrderlyInv

\* A step that serves nothing and drops nothing owed; a coupon that it finds
\* free was never served, and a copy that is new is the server's data.
LEMMA Calm ==
    ASSUME OrderlyInv, DeskInv', Orderly, NEW d \in Devices, Running(d)',
           UNCHANGED served, records \subseteq records', OnlyHere(d),
           \A e \in Devices \ {d} :
               proc'[e] = proc[e] /\ fbq'[e] = fbq[e] /\ mainq'[e] = mainq[e],
           Synced(d)' => \/ Synced(d) /\ cache[d] \subseteq cache'[d]
                         \/ records \subseteq cache'[d],
           pending[d] \cup Reported(fbq[d]) \subseteq pending'[d] \cup Reported(fbq'[d]),
           Tidy(fbq'[d], Owner[d]), WaitsTidy(waiting'[d], fbq'[d], Owner[d]),
           \A c \in Free(mainq'[d]) :
               c \in Free(mainq[d]) \/ served[<<Owner[d], c>>] = 0
    PROVE  OrderlyInv'
<1>1. \A c \in Free(mainq'[d]) : served'[<<Owner[d], c>>] = 0
  BY OrderlyState
<1>2. \A c \in Coupons : served'[<<Owner[d], c>>] > 0
         => /\ <<Owner[d], c>> \in records' \cup pending'[d] \cup Reported(fbq'[d])
            /\ Synced(d)' => <<Owner[d], c>> \in
                                cache'[d] \cup pending'[d] \cup Reported(fbq'[d])
  BY OrderlyState
<1>3. \A r \in Records : served'[r] <= 1
  BY DEF OrderlyInv, OneCouponPerMeal
<1> QED BY <1>1, <1>2, <1>3, OtherPhones

\* A process ends only when its writes have been acknowledged.
LEMMA DeathInv ==
    ASSUME OrderlyInv, DeskInv', Orderly, NEW d \in Devices, Running(d),
           NEW how \in {"killed", "crashed"}, Terminate(d, how)
    PROVE  OrderlyInv'
<1>1. /\ proc'[d] = how /\ fbq'[d] = <<>> /\ mainq'[d] = <<>>
      /\ listen'[d] = "none" /\ pending'[d] = {} /\ waiting'[d] = NoReads
      /\ \A e \in Devices \ {d} :
            proc'[e] = proc[e] /\ fbq'[e] = fbq[e] /\ mainq'[e] = mainq[e]
      /\ OnlyHere(d) /\ UNCHANGED <<served, records>>
  BY DEF OrderlyInv, DeskInv, TypeOK, ServerTypeOK, Terminate, ForgetClient, OnlyHere
<1>2. ~Running(d)'
  BY <1>1 DEF Running
<1>3. pending[d] \cup Reported(fbq[d]) = {}
  BY <1>2, OwedParts DEF Orderly
<1>4. Tidy(fbq'[d], Owner[d]) /\ Free(mainq'[d]) = {}
  BY <1>1 DEF Tidy, Free
<1>5. WaitsTidy(waiting'[d], fbq'[d], Owner[d])
  BY <1>1, NoReadsType DEF WaitsTidy
<1>6. \A c \in Coupons : served'[<<Owner[d], c>>] > 0
         => /\ <<Owner[d], c>> \in records' \cup pending'[d] \cup Reported(fbq'[d])
            /\ ~Synced(d)'
  BY <1>1, <1>3, OrderlyState DEF Synced
<1>7. \A r \in Records : served'[r] <= 1
  BY <1>1 DEF OrderlyInv, OneCouponPerMeal
<1> QED BY <1>1, <1>4, <1>5, <1>6, <1>7, OtherPhones

\* A step that replaces calls, callbacks and reads that wait of d, while the
\* database stays as it is.
LEMMA QueuesOrderly ==
    ASSUME OrderlyInv, DeskInv', Orderly, NEW d \in Devices, Running(d),
           NEW calls \in Seq(Calls), NEW rest \in Seq(Callbacks),
           NEW w \in [Records -> Seq(Askers)],
           fbq' = [fbq EXCEPT ![d] = calls], mainq' = [mainq EXCEPT ![d] = rest],
           waiting' = [waiting EXCEPT ![d] = w],
           UNCHANGED <<records, listen, cache, pending, proc, served>>,
           Reported(fbq[d]) \subseteq Reported(calls),
           Tidy(calls, Owner[d]), WaitsTidy(w, calls, Owner[d]),
           \A c \in Free(rest) :
               c \in Free(mainq[d]) \/ served[<<Owner[d], c>>] = 0
    PROVE  OrderlyInv'
<1>1. TypeOK
  BY OrderlyState DEF DeskInv
<1>2. /\ fbq'[d] = calls /\ mainq'[d] = rest /\ waiting'[d] = w
      /\ \A e \in Devices \ {d} :
            fbq'[e] = fbq[e] /\ mainq'[e] = mainq[e] /\ waiting'[e] = waiting[e]
  BY <1>1 DEF TypeOK, ServerTypeOK
<1>3. OnlyHere(d) /\ Running(d)' /\ (Synced(d)' => Synced(d))
  BY <1>2 DEF OnlyHere, Running, Synced
<1> QED BY <1>2, <1>3, Calm

\* check() is such a step; who waits for a validation goes on waiting.
LEMMA CheckOrderly ==
    ASSUME OrderlyInv, DeskInv', Orderly, NEW d \in Devices, Running(d), NEW a,
           NEW calls \in Seq(Calls), Tidy(calls, Owner[d]), Reported(calls) = Reported(fbq[d]),
           NEW rest \in Seq(Callbacks), Free(rest) \subseteq Free(mainq[d]),
           NEW w \in [Records -> Seq(Askers)], WaitsTidy(w, fbq[d], Owner[d]),
           check(d, a, calls, rest, w)
    PROVE  OrderlyInv'
<1> DEFINE x == [op |-> "check", u |-> user[d]]
           new == IF a.listed THEN Push(calls, x) ELSE calls
<1>1. CASE Terminate(d, "crashed")
  BY <1>1, DeathInv
<1>2. CASE /\ a.listed => user[d] # NoUser
           /\ mainq' = [mainq EXCEPT ![d] = rest]
           /\ fbq' = [fbq EXCEPT ![d] = new]
           /\ waiting' = [waiting EXCEPT ![d] = w]
           /\ UNCHANGED <<records, listen, cache, pending, proc, served>>
  <2>0. DeskInv /\ TypeOK
    BY OrderlyState DEF DeskInv
  <2>1. a.listed => x \in Calls /\ x.op \notin {"read", "set"}
    BY <1>2, <2>0 DEF TypeOK, Calls
  <2>2. /\ Reported(new) = Reported(fbq[d]) /\ Tidy(new, Owner[d])
        /\ new \in Seq(Calls)
    BY <2>1, PushReports, PushElements, TidyPush
  <2>3. WaitsTidy(w, new, Owner[d])
    BY <2>2 DEF WaitsTidy
  <2> HIDE DEF new
  <2> QED BY <1>2, <2>2, <2>3, QueuesOrderly
<1> QED BY <1>1, <1>2 DEF check

\* A validation begun is of the owner.
LEMMA ValidateOrderly ==
    ASSUME OrderlyInv, DeskInv', Orderly, NEW d \in Devices, Running(d), NEW a \in AppMemory,
           NEW key \in Keys \cup {NoKey}, NEW via \in Givers,
           validateToken(d, a, key, via)
    PROVE  OrderlyInv'
<1> DEFINE x == [op |-> "read", u |-> user[d], c |-> a.currentT, via |-> via]
<1>0. /\ DeskInv /\ TypeOK /\ fbq[d] \in Seq(Calls) /\ mainq[d] \in Seq(Callbacks)
      /\ waiting[d] \in [Records -> Seq(Askers)] /\ Tidy(fbq[d], Owner[d])
      /\ WaitsTidy(waiting[d], fbq[d], Owner[d])
      /\ fbq = [fbq EXCEPT ![d] = fbq[d]] /\ mainq = [mainq EXCEPT ![d] = mainq[d]]
      /\ waiting = [waiting EXCEPT ![d] = waiting[d]]
  BY OrderlyState, PhoneState DEF DeskInv
<1>1. CASE /\ Verdict(a, key) = "match" /\ user[d] # NoUser
           /\ fbq' = [fbq EXCEPT ![d] = Append(@, x)]
           /\ UNCHANGED <<dbVars, proc, mainq, served>>
  <2>1. x \in Calls /\ x.op = "read" /\ x.u = Owner[d]
    BY <1>0, <1>1, OrderlyState DEF Verdict, Calls, TypeOK, AppMemory
  <2> HIDE DEF x
  <2>2. /\ Append(fbq[d], x) \in Seq(Calls)
        /\ Reported(Append(fbq[d], x)) = Reported(fbq[d])
        /\ Tidy(Append(fbq[d], x), Owner[d])
    <3>1. x.op # "set"
      BY <2>1
    <3>2. Append(fbq[d], x) \in Seq(Calls) /\ Tidy(Append(fbq[d], x), Owner[d])
      BY <1>0, <2>1, <3>1, AppendElements, TidyAppend
    <3>3. Reported(Append(fbq[d], x)) = Reported(fbq[d])
      BY <1>0, <2>1, <3>1, AppendReports
    <3> QED BY <3>2, <3>3
  <2>3. WaitsTidy(waiting[d], Append(fbq[d], x), Owner[d])
    BY <1>0, <2>2 DEF WaitsTidy
  <2>4. /\ UNCHANGED <<records, listen, cache, pending, waiting, proc, mainq, served>>
        /\ fbq' = [fbq EXCEPT ![d] = Append(fbq[d], x)]
    BY <1>1 DEF dbVars
  <2> QED BY <1>0, <2>2, <2>3, <2>4, QueuesOrderly
<1>2. CASE Terminate(d, "crashed")
  BY <1>2, DeathInv
<1>3. CASE UNCHANGED <<dbVars, proc, fbq, mainq, served>>
  <2>1. UNCHANGED <<records, listen, cache, pending, waiting, proc, fbq, mainq, served>>
    BY <1>3 DEF dbVars
  <2> QED BY <1>0, <2>1, QueuesOrderly
<1> QED BY <1>1, <1>2, <1>3 DEF validateToken

\* Whatever the user does.
LEMMA UserOrderly ==
    ASSUME OrderlyInv, DeskInv', Orderly, NEW d \in Devices, UserStep(d)
    PROVE  OrderlyInv'
<1>0. /\ DeskInv /\ TypeOK /\ fbq[d] \in Seq(Calls) /\ mainq[d] \in Seq(Callbacks)
      /\ waiting[d] \in [Records -> Seq(Askers)]
      /\ Tidy(fbq[d], Owner[d]) /\ WaitsTidy(waiting[d], fbq[d], Owner[d])
      /\ app[d] \in AppMemory
  BY OrderlyState, PhoneState DEF DeskInv
<1>w. ASSUME NEW s \in Givers
      PROVE  /\ OrphanReads(waiting[d], s) \in [Records -> Seq(Askers)]
             /\ WaitsTidy(OrphanReads(waiting[d], s), fbq[d], Owner[d])
  BY <1>0, OrphanWaits DEF WaitsTidy
<1>1. CASE Kill(d)
  BY <1>1, DeathInv DEF Kill
<1>2. CASE \/ MicButton(d) \/ SomethingWrong(d) \/ WrongPassword(d)
           \/ DismissAlert(d) \/ HandleTap(d) \/ DownButton(d) \/ VisitOther(d)
           \/ Logout(d) \/ SignOutIfTokenIsInvalid(d) \/ Launch(d)
           \/ \E u \in Users : Login(d, u)
           \/ \E c \in Coupons : SelectRow(d, c)
  <2>1. /\ UNCHANGED <<dbVars, fbq, mainq, served>>
        /\ \A e \in Devices \ {d} : proc'[e] = proc[e]
        /\ proc'[d] = "running"
    <3>1. CASE Launch(d)
      BY <1>0, <3>1 DEF Launch, TypeOK
    <3>2. CASE ~Launch(d)
      <4>1. UNCHANGED <<dbVars, fbq, mainq, served, proc>> /\ Running(d)
        BY <1>2, <3>2
           DEF MicButton, SomethingWrong, WrongPassword, DismissAlert, HandleTap, DownButton,
               VisitOther, Logout, SignOutIfTokenIsInvalid, Login, SelectRow, At
      <4> QED BY <4>1 DEF Running
    <3> QED BY <3>1, <3>2
  <2>2. /\ UNCHANGED <<records, listen, cache, pending, waiting, fbq, mainq, served>>
        /\ OnlyHere(d) /\ Running(d)' /\ (Synced(d)' => Synced(d))
    BY <2>1 DEF dbVars, OnlyHere, Running, Synced
  <2> QED BY <1>0, <2>1, <2>2, Calm
<1>3. CASE VisitCoupons(d)
  <2> DEFINE x == [op |-> "observe"]
             old == Orphan(fbq[d], "coupons")
             rest == Orphan(mainq[d], "coupons")
             w == OrphanReads(waiting[d], "coupons")
  <2>1. x \in Calls /\ x.op \notin {"read", "set"} /\ old \in Seq(Calls)
    BY <1>0, OrphanCalls DEF Calls
  <2>2. /\ Reported(Append(old, x)) = Reported(fbq[d])
        /\ Tidy(Append(old, x), Owner[d]) /\ Append(old, x) \in Seq(Calls)
    <3>1. Reported(old) = Reported(fbq[d]) /\ Tidy(old, Owner[d])
      BY <1>0, OrphanReports, TidyOrphan
    <3> HIDE DEF old, x
    <3> QED BY <2>1, <3>1, AppendReports, AppendElements, TidyAppend
  <2>3. Free(rest) = Free(mainq[d]) /\ rest \in Seq(Callbacks)
    BY <1>0, FreeOrphan, OrphanCallbacks
  <2>4. w \in [Records -> Seq(Askers)] /\ WaitsTidy(w, Append(old, x), Owner[d])
    <3>1. "coupons" \in Givers
      BY DEF Givers
    <3> QED BY <1>w, <2>2, <3>1 DEF WaitsTidy
  <2>5. /\ fbq' = [fbq EXCEPT ![d] = Append(old, x)]
        /\ mainq' = [mainq EXCEPT ![d] = rest]
        /\ waiting' = [waiting EXCEPT ![d] = w]
        /\ UNCHANGED <<records, listen, cache, pending, proc, served>> /\ Running(d)
    BY <1>3 DEF VisitCoupons, At
  <2> HIDE DEF x, old, rest, w
  <2> QED BY <2>2, <2>3, <2>4, <2>5, QueuesOrderly
<1>4. CASE BackButtonPressed(d)
  <2> DEFINE a == [app[d] EXCEPT !.screen = "coupons"]
             rest == Orphan(mainq[d], "wrong")
             calls == Orphan(fbq[d], "wrong")
             w == OrphanReads(waiting[d], "wrong")
  <2>1. /\ calls \in Seq(Calls) /\ Reported(calls) = Reported(fbq[d])
        /\ Tidy(calls, Owner[d])
        /\ rest \in Seq(Callbacks) /\ Free(rest) = Free(mainq[d])
    BY <1>0, OrphanCalls, OrphanCallbacks, OrphanReports, TidyOrphan, FreeOrphan
  <2>2. w \in [Records -> Seq(Askers)] /\ WaitsTidy(w, fbq[d], Owner[d])
    <3>1. "wrong" \in Givers
      BY DEF Givers
    <3> QED BY <1>w, <3>1
  <2>3. WaitsTidy(w, calls, Owner[d])
    BY <2>1, <2>2 DEF WaitsTidy
  <2>4. /\ Running(d)
        /\ \/ check(d, a, calls, rest, w)
           \/ /\ fbq' = [fbq EXCEPT ![d] = calls] /\ mainq' = [mainq EXCEPT ![d] = rest]
              /\ waiting' = [waiting EXCEPT ![d] = w]
              /\ UNCHANGED <<records, listen, cache, pending, proc, served>>
    BY <1>4 DEF BackButtonPressed, At
  <2> HIDE DEF a, rest, calls, w
  <2>5. CASE check(d, a, calls, rest, w)
    BY <2>1, <2>2, <2>4, <2>5, CheckOrderly
  <2>6. CASE ~check(d, a, calls, rest, w)
    BY <2>1, <2>2, <2>3, <2>4, <2>6, QueuesOrderly
  <2> QED BY <2>5, <2>6
<1>5. ASSUME NEW key \in Keys \cup {NoKey}, DataReceived(d, key) \/ AdminBypassAdd(d, key)
      PROVE  OrderlyInv'
  <2> DEFINE a == [app[d] EXCEPT !.listening = FALSE]
  <2>1. a \in AppMemory /\ Running(d)
    BY <1>0, <1>5 DEF AppMemory, DataReceived, AdminBypassAdd, At
  <2> HIDE DEF a
  <2>2. CASE validateToken(d, a, key, "coupons")
    BY <2>1, <2>2, ValidateOrderly DEF Givers
  <2>3. CASE validateToken(d, app[d], key, "wrong")
    BY <1>0, <2>1, <2>3, ValidateOrderly DEF Givers
  <2> QED BY <1>5, <2>2, <2>3 DEF DataReceived, AdminBypassAdd, a
<1> QED BY <1>1, <1>2, <1>3, <1>4, <1>5 DEF UserStep

\* The observers' events are of no concern.
LEMMA EventsOrderly ==
    ASSUME DeskInv, NEW d \in Devices, NEW q \in Seq(Callbacks), RaiseEvents(d, q)
    PROVE  /\ Free(mainq'[d]) = Free(q)
           /\ \A e \in Devices \ {d} : mainq'[e] = mainq[e]
<1> DEFINE x == [op |-> "scannables"]
<1>1. x \in Callbacks /\ x.op # "read"
  BY DEF Callbacks
<1>2. /\ mainq'[d] = q \/ mainq'[d] = Push(q, x)
      /\ \A e \in Devices \ {d} : mainq'[e] = mainq[e]
  BY DEF RaiseEvents, DeskInv, TypeOK
<1> HIDE DEF x
<1>3. Free(Push(q, x)) = Free(q)
  BY <1>1, FreePush
<1> QED BY <1>2, <1>3

\* A validation that waited and is told that the coupon is free: it is.
LEMMA WaitsFindFree ==
    ASSUME OrderlyInv, NEW d \in Devices, NEW p \in Seq(Callbacks),
           \A i \in DOMAIN p :
               \E r \in Records : \E j \in DOMAIN waiting[d][r] :
                   p[i] = Answer(r, waiting[d][r][j], r \in Current(d))
    PROVE  \A c \in Free(p) : served[<<Owner[d], c>>] = 0
<1> SUFFICES ASSUME NEW c \in Free(p) PROVE served[<<Owner[d], c>>] = 0
  OBVIOUS
<1>1. PICK i \in DOMAIN p : p[i].op = "read" /\ ~p[i].exists /\ c = p[i].c
  BY DEF Free
<1>2. PICK r \in Records :
          \E j \in DOMAIN waiting[d][r] :
              p[i] = Answer(r, waiting[d][r][j], r \in Current(d))
  OBVIOUS
<1>w. PICK j \in DOMAIN waiting[d][r] :
          p[i] = Answer(r, waiting[d][r][j], r \in Current(d))
  BY <1>2
<1> DEFINE there == r \in Current(d)
           asker == waiting[d][r][j]
<1>3. p[i] = Answer(r, asker, there)
  BY <1>w
<1> HIDE DEF there, asker
<1>4. asker # "check" /\ c = r[2] /\ ~there
  BY <1>1, <1>3, AnswerOf
<1>5. WaitsTidy(waiting[d], fbq[d], Owner[d]) /\ TypeOK
  BY OrderlyState DEF DeskInv
<1>6. r[1] = Owner[d] /\ Reported(fbq[d]) = {}
  BY <1>4, <1>5 DEF WaitsTidy, asker
<1>7. r = <<Owner[d], c>> /\ c \in Coupons /\ r \notin Current(d)
  BY <1>4, <1>6 DEF Records, there
<1>8. ~(served[<<Owner[d], c>>] > 0)
  BY <1>6, <1>7, OrderlyState DEF Current
<1>9. served[<<Owner[d], c>>] \in Nat
  BY <1>5, <1>7 DEF TypeOK
<1> QED BY <1>8, <1>9

\* A validation reads a complete copy of the records to which all the writes
\* before it have been added, or this phone's own write, or it waits.
LEMMA ReadOrderly ==
    ASSUME OrderlyInv, DeskInv', Orderly, NEW d \in Devices, FirebaseRead(d)
    PROVE  OrderlyInv'
<1> DEFINE call == Head(fbq[d])
           calls == Tail(fbq[d])
           via == call.via
           r == <<call.u, call.c>>
           there == r \in LocalData(d)
           x == Answer(r, via, there)
           rest == Append(mainq[d], x)
           w == [waiting[d] EXCEPT ![r] = Append(@, via)]
<1>1. /\ fbq[d] # <<>> /\ call.op = "read"
      /\ fbq' = [fbq EXCEPT ![d] = calls]
      /\ UNCHANGED <<records, listen, cache, pending, proc, served>>
  BY DEF FirebaseRead, AtHead
<1>2. /\ DeskInv /\ TypeOK /\ fbq[d] \in Seq(Calls) /\ mainq[d] \in Seq(Callbacks)
      /\ waiting[d] \in [Records -> Seq(Askers)]
      /\ Tidy(fbq[d], Owner[d]) /\ WaitsTidy(waiting[d], fbq[d], Owner[d])
      /\ fbq = [fbq EXCEPT ![d] = fbq[d]] /\ mainq = [mainq EXCEPT ![d] = mainq[d]]
      /\ waiting = [waiting EXCEPT ![d] = waiting[d]]
  BY OrderlyState, PhoneState DEF DeskInv
<1>3. /\ call \in Calls /\ call.u = Owner[d] /\ call.c \in Coupons /\ via \in Givers
      /\ calls \in Seq(Calls) /\ Tidy(calls, Owner[d]) /\ Reported(fbq[d]) = {}
  <2>1. call \in Calls /\ calls \in Seq(Calls)
    BY <1>1, <1>2, TailElements
  <2> QED BY <1>1, <1>2, <2>1, TidyTail DEF Calls
<1>4. Reported(calls) = {} /\ Running(d)
  <2>1. Reported(calls) \subseteq Reported(fbq[d])
    BY <1>1, <1>2, TailReports
  <2> QED BY <1>1, <1>3, <2>1, OrderlyState
<1>5. r \in Records /\ r[1] = Owner[d] /\ r[2] = call.c /\ r = <<Owner[d], call.c>>
  BY <1>3, OwnerAssumption DEF Records
<1>6. WaitsTidy(waiting[d], calls, Owner[d])
  BY <1>2, <1>3, <1>4 DEF WaitsTidy
<1>7. CASE Answerable(d, r) /\ mainq' = [mainq EXCEPT ![d] = rest] /\ UNCHANGED waiting
  <2>1. x \in Callbacks
    <3>1. via \in Askers /\ there \in BOOLEAN
      BY <1>3 DEF Askers
    <3> HIDE DEF via, there, r
    <3> QED BY <1>5, <3>1, AnswerType
  <2>2. x.op = "read" /\ ~x.exists => x.c = call.c /\ ~there
    <3> HIDE DEF via, there
    <3> QED BY <1>5, AnswerOf
  <2>3. ~there => served[r] = 0
    <3>1. served[r] > 0 /\ Synced(d) => there
      BY <1>3, <1>5, OrderlyState DEF LocalData
    <3>2. r \in pending[d] => there
      BY DEF LocalData
    <3>3. served[r] \in Nat
      BY <1>2, <1>5 DEF TypeOK
    <3>4. Synced(d) \/ r \in pending[d]
      BY <1>7 DEF Answerable
    <3> HIDE DEF r, there
    <3> QED BY <3>1, <3>2, <3>3, <3>4
  <2> HIDE DEF x, there, call, via
  <2>4. Free(rest) =
          Free(mainq[d]) \cup (IF x.op = "read" /\ ~x.exists THEN {x.c} ELSE {})
    BY <1>2, <2>1, FreeAppend
  <2>5. rest \in Seq(Callbacks)
    BY <1>2, <2>1
  <2>6. \A c \in Free(rest) : c \in Free(mainq[d]) \/ served[<<Owner[d], c>>] = 0
    BY <1>5, <2>2, <2>3, <2>4
  <2> HIDE DEF rest, calls, r
  <2> QED BY <1>1, <1>2, <1>3, <1>4, <1>6, <1>7, <2>5, <2>6, QueuesOrderly
<1>8. CASE waiting' = [waiting EXCEPT ![d][r] = Append(@, via)] /\ UNCHANGED mainq
  <2>1. w \in [Records -> Seq(Askers)]
    <3>1. via \in Askers
      BY <1>3 DEF Askers
    <3> HIDE DEF via, r
    <3> QED BY <1>2, <1>5, <3>1
  <2>2. waiting' = [waiting EXCEPT ![d] = w]
    BY <1>8
  <2>3. WaitsTidy(w, calls, Owner[d])
    <3> HIDE DEF via, r
    <3>1. ASSUME NEW s \in Records PROVE s # r => w[s] = waiting[d][s]
      BY <1>2
    <3> HIDE DEF w
    <3> QED BY <1>4, <1>5, <1>6, <3>1 DEF WaitsTidy
  <2> HIDE DEF w, calls, r, call, via
  <2> QED BY <1>1, <1>2, <1>3, <1>4, <1>8, <2>1, <2>2, <2>3, QueuesOrderly
<1>9. \/ Answerable(d, r) /\ mainq' = [mainq EXCEPT ![d] = rest] /\ UNCHANGED waiting
      \/ waiting' = [waiting EXCEPT ![d][r] = Append(@, via)] /\ UNCHANGED mainq
  BY DEF FirebaseRead
<1> HIDE DEF w, calls, r, call, via, rest
<1> QED BY <1>7, <1>8, <1>9

\* The other calls of the SDK's queue: a write answers who waits for it, and
\* with what it writes.
LEMMA FirebaseOrderly ==
    ASSUME OrderlyInv, DeskInv', Orderly, NEW d \in Devices, FirebaseStep(d)
    PROVE  OrderlyInv'
<1> DEFINE call == Head(fbq[d])
           calls == Tail(fbq[d])
<1>0. /\ DeskInv /\ TypeOK /\ fbq[d] \in Seq(Calls) /\ mainq[d] \in Seq(Callbacks)
      /\ waiting[d] \in [Records -> Seq(Askers)]
      /\ Tidy(fbq[d], Owner[d]) /\ WaitsTidy(waiting[d], fbq[d], Owner[d])
      /\ waiting = [waiting EXCEPT ![d] = waiting[d]]
  BY OrderlyState, PhoneState DEF DeskInv
<1>1. /\ fbq[d] # <<>> /\ fbq' = [fbq EXCEPT ![d] = calls]
      /\ UNCHANGED <<proc, served, records, cache>>
  BY DEF FirebaseStep, FirebaseObserve, FirebaseRead, FirebaseCheck, FirebaseSet,
         AtHead, Observe, SetValue
<1>2. /\ Reported(fbq[d]) =
            Reported(calls) \cup (IF call.op = "set" THEN {<<call.u, call.c>>} ELSE {})
      /\ Tidy(calls, Owner[d]) /\ call \in Calls /\ calls \in Seq(Calls)
  BY <1>0, <1>1, TailReports, TidyTail, TailElements
<1>3. /\ fbq'[d] = calls /\ \A e \in Devices \ {d} : fbq'[e] = fbq[e]
      /\ Running(d) /\ Running(d)'
  BY <1>0, <1>1, OrderlyState DEF TypeOK, Running
<1>4. WaitsTidy(waiting[d], calls, Owner[d])
  BY <1>0, <1>2 DEF WaitsTidy
<1> HIDE DEF calls
<1>5. CASE FirebaseObserve(d)
  <2> DEFINE x == [op |-> "scannables"]
  <2>1. call.op # "set" /\ UNCHANGED <<cache, pending, waiting>>
    BY <1>5 DEF FirebaseObserve, AtHead, Observe
  <2>2. /\ \A e \in Devices \ {d} : listen'[e] = listen[e]
        /\ Synced(d)' => Synced(d)
    BY <1>0, <1>5 DEF FirebaseObserve, Observe, TypeOK, ServerTypeOK, Synced
  <2>3. x \in Callbacks /\ x.op # "read"
    BY DEF Callbacks
  <2>4. /\ mainq'[d] = mainq[d] \/ mainq'[d] = Push(mainq[d], x)
        /\ \A e \in Devices \ {d} : mainq'[e] = mainq[e]
    BY <1>0, <1>5 DEF FirebaseObserve, TypeOK
  <2> HIDE DEF x, call
  <2>5. Free(mainq'[d]) = Free(mainq[d])
    BY <1>0, <2>3, <2>4, FreePush
  <2>6. OnlyHere(d) /\ waiting'[d] = waiting[d] /\ cache'[d] = cache[d]
    BY <2>1, <2>2 DEF OnlyHere
  <2> QED BY <1>1, <1>2, <1>3, <1>4, <2>1, <2>2, <2>4, <2>5, <2>6, Calm
<1>6. CASE FirebaseCheck(d)
  <2> DEFINE found == {c \in Coupons : <<call.u, c>> \in LocalData(d)}
             x == [op |-> "check", found |-> found]
             rest == IF found = {} THEN mainq[d] ELSE Push(mainq[d], x)
             w == [r \in Records |->
                      IF r[1] = call.u /\ ~Answerable(d, r)
                      THEN Asked(waiting[d][r]) ELSE waiting[d][r]]
  <2>1. /\ call.op # "set" /\ UNCHANGED <<listen, pending>>
        /\ mainq' = [mainq EXCEPT ![d] = rest] /\ waiting' = [waiting EXCEPT ![d] = w]
    BY <1>6 DEF FirebaseCheck, AtHead
  <2>2. x \in Callbacks /\ x.op # "read"
    BY DEF Callbacks
  <2>3. rest \in Seq(Callbacks) /\ Free(rest) = Free(mainq[d])
    <3> HIDE DEF x, found
    <3> QED BY <1>0, <2>2, FreePush, PushElements
  <2>4. ASSUME NEW r \in Records
        PROVE  /\ w[r] \in Seq(Askers)
               /\ \A i \in DOMAIN w[r] :
                     w[r][i] # "check" => \E j \in DOMAIN waiting[d][r] :
                                              waiting[d][r][j] # "check"
    <3>1. waiting[d][r] \in Seq(Askers)
      BY <1>0
    <3>2. w[r] = Asked(waiting[d][r]) \/ w[r] = waiting[d][r]
      OBVIOUS
    <3> HIDE DEF w
    <3> QED BY <3>1, <3>2, AskedElements
  <2>5. w \in [Records -> Seq(Askers)]
    BY <2>4
  <2>6. Reported(calls) = Reported(fbq[d])
    BY <1>2, <2>1
  <2> HIDE DEF x, call, rest, w
  <2>7. WaitsTidy(w, calls, Owner[d])
    <3> SUFFICES ASSUME NEW r \in Records, NEW i \in DOMAIN w[r], w[r][i] # "check"
                 PROVE  r[1] = Owner[d] /\ Reported(calls) = {}
      BY DEF WaitsTidy
    <3>1. PICK j \in DOMAIN waiting[d][r] : waiting[d][r][j] # "check"
      BY <2>4
    <3> QED BY <1>0, <2>6, <3>1 DEF WaitsTidy
  <2> QED BY <1>1, <1>2, <1>3, <2>1, <2>3, <2>5, <2>6, <2>7, QueuesOrderly
<1>7. CASE FirebaseSet(d)
  <2> DEFINE r == <<call.u, call.c>>
             p == Answers(d, r, TRUE)
             q == mainq[d] \o p
  <2>1. call.op = "set" /\ SetValue(d, r) /\ RaiseEvents(d, q)
    BY <1>7 DEF FirebaseSet, AtHead
  <2>2. r \in Records
    BY <1>2, <2>1 DEF Calls, Records
  <2>3. p \in Seq(Callbacks) /\ Free(p) = {}
    <3>1. /\ p \in Seq(Callbacks)
          /\ \A i \in DOMAIN p : p[i] = Answer(r, waiting[d][r][i], TRUE)
      BY <1>0, <2>2, AnswersElements
    <3> HIDE DEF p, r
    <3>2. ASSUME NEW i \in DOMAIN p PROVE ~(p[i].op = "read" /\ ~p[i].exists)
      <4> DEFINE asker == waiting[d][r][i]
      <4>1. p[i] = Answer(r, asker, TRUE)
        BY <3>1
      <4> HIDE DEF asker
      <4>2. CASE asker = "check"
        BY <4>1, <4>2 DEF Answer
      <4>3. CASE asker # "check"
        BY <4>1, <4>3 DEF Answer
      <4> QED BY <4>2, <4>3
    <3> QED BY <3>1, <3>2 DEF Free
  <2>4. q \in Seq(Callbacks) /\ Free(q) \subseteq Free(mainq[d])
    <3> HIDE DEF p
    <3> QED BY <1>0, <2>3, FreeConcat
  <2> HIDE DEF call, p, q
  <2>5. /\ pending'[d] = pending[d] \cup {r}
        /\ \A e \in Devices \ {d} : pending'[e] = pending[e]
        /\ waiting'[d] = [waiting[d] EXCEPT ![r] = <<>>]
        /\ \A e \in Devices \ {d} : waiting'[e] = waiting[e]
        /\ UNCHANGED listen
    <3> HIDE DEF r
    <3> QED BY <1>0, <2>1 DEF SetValue, TypeOK, ServerTypeOK
  <2>6. /\ Free(mainq'[d]) \subseteq Free(mainq[d])
        /\ \A e \in Devices \ {d} : mainq'[e] = mainq[e]
    BY <1>0, <2>1, <2>4, EventsOrderly
  <2>7. pending[d] \cup Reported(fbq[d]) \subseteq pending'[d] \cup Reported(fbq'[d])
    BY <1>2, <1>3, <2>1, <2>5
  <2>8. WaitsTidy(waiting'[d], calls, Owner[d])
    <3> HIDE DEF r
    <3>1. ASSUME NEW s \in Records
          PROVE  waiting'[d][s] = waiting[d][s] \/ DOMAIN waiting'[d][s] = {}
      BY <1>0, <2>5
    <3> QED BY <1>4, <3>1 DEF WaitsTidy
  <2>9. OnlyHere(d) /\ cache'[d] = cache[d] /\ (Synced(d)' => Synced(d))
    BY <1>1, <2>5 DEF OnlyHere, Synced
  <2> HIDE DEF r
  <2> QED BY <1>1, <1>2, <1>3, <2>6, <2>7, <2>8, <2>9, Calm
<1> QED BY <1>5, <1>6, <1>7, ReadOrderly DEF FirebaseStep

\* A redemption: the coupon was found free, so it has never been served, and
\* no other validation of this phone is under way.
LEMMA RedeemOrderly ==
    ASSUME OrderlyInv, DeskInv', Orderly, NEW d \in Devices, Redeem(d)
    PROVE  OrderlyInv'
<1> DEFINE c == Head(mainq[d]).c
           x == [op |-> "set", u |-> user[d], c |-> c]
           r == <<Owner[d], c>>
<1>0. /\ DeskInv /\ TypeOK /\ fbq[d] \in Seq(Calls) /\ mainq[d] \in Seq(Callbacks)
      /\ Tidy(fbq[d], Owner[d]) /\ OneAtATime(d) /\ user[d] \in {Owner[d], NoUser}
  BY OrderlyState DEF DeskInv
<1>1. mainq[d] # <<>> /\ Head(mainq[d]).op = "read" /\ ~Head(mainq[d]).exists
  BY DEF Redeem, AtHead
<1>2. Running(d)
  BY <1>1, OrderlyState
<1>3. CASE Terminate(d, "crashed")
  BY <1>2, <1>3, DeathInv
<1>4. CASE ~Terminate(d, "crashed")
  <2>1. user[d] = Owner[d] /\ user[d] # NoUser
    BY <1>0, <1>4, Zenon DEF Redeem
  <2>2. /\ fbq' = [fbq EXCEPT ![d] = Append(fbq[d], x)]
        /\ mainq' = [mainq EXCEPT ![d] = Tail(@)]
        /\ UNCHANGED <<dbVars, proc>>
    BY <1>4, Zenon DEF Redeem
  <2>3. served' = [served EXCEPT ![r] = served[r] + 1] \/ served' = served
    <3>1. \E shown : served' = [served EXCEPT ![<<user[d], c>>] =
                                  IF shown /\ @ < MaxServed THEN @ + 1 ELSE @]
      BY <1>4, Zenon DEF Redeem
    <3>2. PICK shown : served' = [served EXCEPT ![r] =
                                    IF shown /\ @ < MaxServed THEN @ + 1 ELSE @]
      BY <2>1, <3>1
    <3>3. CASE shown /\ served[r] < MaxServed
      BY <3>2, <3>3
    <3>4. CASE ~(shown /\ served[r] < MaxServed)
      <4>1. served' = [served EXCEPT ![r] = served[r]]
        BY <3>2, <3>4
      <4>2. served \in [Records -> Nat]
        BY <1>0 DEF TypeOK
      <4> QED BY <4>1, <4>2
    <3> QED BY <3>3, <3>4
  <2>4. c \in Coupons /\ Owner[d] \in Users /\ r \in Records
    <3>1. Head(mainq[d]) \in Callbacks
      BY <1>0, <1>1, TailElements
    <3>2. c \in Coupons
      BY <1>1, <3>1 DEF Callbacks
    <3> QED BY <3>2, OwnerAssumption DEF Records
  <2>5. x \in Calls /\ x.op = "set" /\ x.u = Owner[d] /\ x.c = c
    BY <2>1, <2>4 DEF Calls
  <2>6. /\ \A i \in DOMAIN fbq[d] : fbq[d][i].op # "read"
        /\ Free(Tail(mainq[d])) = {} /\ c \in Free(mainq[d])
        /\ \A s \in Records : \A i \in DOMAIN waiting[d][s] :
              waiting[d][s][i] = "check"
    BY <1>0, <1>1, DecidedAlone, FreeTail
  <2>7. served[r] = 0
    BY <2>6, OrderlyState
  <2> HIDE DEF x
  <2>8. Reported(Append(fbq[d], x)) = Reported(fbq[d]) \cup {r}
    BY <1>0, <2>5, AppendReports
  <2>9. Tidy(Append(fbq[d], x), Owner[d])
    BY <1>0, <2>5, <2>6, TidyAppend
  <2>10. /\ fbq'[d] = Append(fbq[d], x) /\ mainq'[d] = Tail(mainq[d])
         /\ \A e \in Devices \ {d} : fbq'[e] = fbq[e] /\ mainq'[e] = mainq[e]
         /\ UNCHANGED <<records, listen, cache, pending, waiting, proc>>
    BY <1>0, <2>2 DEF TypeOK, dbVars
  <2>11. ASSUME NEW s \in Records
         PROVE  /\ s # r => served'[s] = served[s]
                /\ served'[s] \in {0, 1}
    <3>1. served[s] \in Nat /\ served[s] <= 1 /\ served \in [Records -> Nat]
      BY <1>0 DEF TypeOK, OrderlyInv, OneCouponPerMeal
    <3> HIDE DEF r
    <3>2. CASE s = r
      BY <2>3, <2>4, <2>7, <3>1, <3>2
    <3>3. CASE s # r
      BY <2>3, <2>4, <3>1, <3>3
    <3> QED BY <3>2, <3>3
  <2>12. ASSUME NEW e \in Devices \ {d}, NEW b \in Coupons
         PROVE  served'[<<Owner[e], b>>] = served[<<Owner[e], b>>]
    <3>1. Owner[e] # Owner[d] /\ Owner[e] \in Users
      BY OwnerAssumption
    <3>2. <<Owner[e], b>> \in Records /\ <<Owner[e], b>> # r
      BY <3>1 DEF Records
    <3> QED BY <2>11, <3>2
  <2>13. ASSUME NEW b \in Coupons, served'[<<Owner[d], b>>] > 0
         PROVE  /\ <<Owner[d], b>> \in records' \cup pending'[d] \cup Reported(fbq'[d])
                /\ Synced(d)' => <<Owner[d], b>> \in
                                    cache'[d] \cup pending'[d] \cup Reported(fbq'[d])
    <3>1. CASE b = c
      BY <2>8, <2>10, <3>1
    <3>2. CASE b # c
      <4>1. <<Owner[d], b>> \in Records /\ <<Owner[d], b>> # r
        BY <2>4, <3>2 DEF Records
      <4>2. served[<<Owner[d], b>>] > 0
        BY <2>11, <2>13, <4>1
      <4> QED BY <2>8, <2>10, <4>2, OrderlyState DEF Synced
    <3> QED BY <3>1, <3>2
  <2>14. \A s \in Records : served'[s] <= 1
    BY <2>11
  <2>15. /\ Running(d)' /\ Free(mainq'[d]) = {} /\ OnlyHere(d)
         /\ WaitsTidy(waiting'[d], fbq'[d], Owner[d])
    BY <1>2, <2>6, <2>10 DEF Running, OnlyHere, WaitsTidy
  <2> HIDE DEF r, c
  <2> QED BY <2>9, <2>10, <2>12, <2>13, <2>14, <2>15, OtherPhones
<1> QED BY <1>3, <1>4

\* Every callback preserves OrderlyInv.
LEMMA MainOrderly ==
    ASSUME OrderlyInv, DeskInv', Orderly, NEW d \in Devices, MainStep(d)
    PROVE  OrderlyInv'
<1>0. /\ DeskInv /\ TypeOK /\ fbq[d] \in Seq(Calls) /\ mainq[d] \in Seq(Callbacks)
      /\ waiting[d] \in [Records -> Seq(Askers)]
      /\ Tidy(fbq[d], Owner[d]) /\ WaitsTidy(waiting[d], fbq[d], Owner[d])
      /\ fbq = [fbq EXCEPT ![d] = fbq[d]]
      /\ waiting = [waiting EXCEPT ![d] = waiting[d]]
  BY OrderlyState, PhoneState DEF DeskInv
<1>1. /\ mainq[d] # <<>> /\ Running(d)
  BY OrderlyState DEF MainStep, AlreadyRedeemed, Redeem, Checked, Scannables, AtHead
<1>2. Tail(mainq[d]) \in Seq(Callbacks) /\ Free(Tail(mainq[d])) \subseteq Free(mainq[d])
  BY <1>0, <1>1, TailElements, FreeTail
<1>3. CASE AlreadyRedeemed(d) \/ Checked(d)
  <2>1. /\ mainq' = [mainq EXCEPT ![d] = Tail(mainq[d])]
        /\ UNCHANGED <<records, listen, cache, pending, waiting, proc, fbq, served>>
    BY <1>3 DEF AlreadyRedeemed, Checked, dbVars
  <2> QED BY <1>0, <1>1, <1>2, <2>1, QueuesOrderly
<1>4. CASE Scannables(d)
  <2>1. check(d, [app[d] EXCEPT !.listed = TRUE], fbq[d], Tail(mainq[d]), waiting[d])
    BY <1>4 DEF Scannables
  <2> QED BY <1>0, <1>1, <1>2, <2>1, CheckOrderly
<1> QED BY <1>3, <1>4, RedeemOrderly DEF MainStep

\* With a list, or alone, come the answers to the reads that waited.
LEMMA AnswersOrderly ==
    ASSUME OrderlyInv, NEW d \in Devices,
           Listened(d) \/ \E r \in Records : ReadReturned(d, r)
    PROVE  /\ \A c \in Free(mainq'[d]) :
                 c \in Free(mainq[d]) \/ served[<<Owner[d], c>>] = 0
           /\ \A e \in Devices \ {d} : mainq'[e] = mainq[e]
<1>0. /\ DeskInv /\ TypeOK /\ mainq[d] \in Seq(Callbacks)
      /\ mainq \in [Devices -> Seq(Callbacks)]
  BY OrderlyState DEF DeskInv, TypeOK
<1>1. CASE Listened(d)
  <2> DEFINE x == [op |-> "scannables"]
  <2>1. PICK n \in 0..Cardinality(Reads(d)) :
            \E order \in Bijection(1..n, Reads(d)) :
                mainq' = [mainq EXCEPT ![d] = Push(@ \o ListenedReads(d, n, order), x)]
    BY <1>1, Zenon DEF Listened, ListenedReads
  <2>2. PICK order \in Bijection(1..n, Reads(d)) :
            mainq' = [mainq EXCEPT ![d] = Push(@ \o ListenedReads(d, n, order), x)]
    BY <2>1
  <2>3. n \in Nat /\ order \in [1..n -> Reads(d)]
    BY DEF Bijection, Injection, Surjection
  <2> DEFINE p == ListenedReads(d, n, order)
  <2>4. /\ p \in Seq(Callbacks)
        /\ \A i \in DOMAIN p :
               \E r \in Records : \E j \in DOMAIN waiting[d][r] :
                   p[i] = Answer(r, waiting[d][r][j], r \in Current(d))
    BY <1>0, <2>3, ListenedElements
  <2>5. /\ mainq'[d] = Push(mainq[d] \o p, x)
        /\ \A e \in Devices \ {d} : mainq'[e] = mainq[e]
    BY <1>0, <2>2
  <2>6. x \in Callbacks /\ x.op # "read"
    BY DEF Callbacks
  <2> HIDE DEF p, x
  <2>7. \A c \in Free(p) : served[<<Owner[d], c>>] = 0
    BY <2>4, WaitsFindFree
  <2>8. mainq[d] \o p \in Seq(Callbacks) /\ Free(mainq[d] \o p) \subseteq Free(mainq[d]) \cup Free(p)
    BY <1>0, <2>4, FreeConcat
  <2>9. Free(mainq'[d]) \subseteq Free(mainq[d]) \cup Free(p)
    BY <2>5, <2>6, <2>8, FreePush
  <2> QED BY <2>5, <2>7, <2>9
<1>2. ASSUME NEW r \in Records, ReadReturned(d, r)
      PROVE  /\ \A c \in Free(mainq'[d]) :
                   c \in Free(mainq[d]) \/ served[<<Owner[d], c>>] = 0
             /\ \A e \in Devices \ {d} : mainq'[e] = mainq[e]
  <2> DEFINE there == r \in Current(d)
             p == Answers(d, r, there)
  <2>1. mainq' = [mainq EXCEPT ![d] = @ \o p] \/ UNCHANGED mainq
    BY <1>2 DEF ReadReturned
  <2>2. /\ p \in Seq(Callbacks)
        /\ \A i \in DOMAIN p : /\ i \in DOMAIN waiting[d][r]
                               /\ p[i] = Answer(r, waiting[d][r][i], there)
    <3>1. there \in BOOLEAN
      OBVIOUS
    <3> HIDE DEF there
    <3> QED BY <1>0, <3>1, AnswersElements
  <2>3. \A i \in DOMAIN p :
            \E s \in Records : \E j \in DOMAIN waiting[d][s] :
                p[i] = Answer(s, waiting[d][s][j], s \in Current(d))
    BY <2>2
  <2>4. CASE UNCHANGED mainq
    BY <2>4
  <2>5. CASE mainq' = [mainq EXCEPT ![d] = @ \o p]
    <3> HIDE DEF p
    <3>1. \A c \in Free(p) : served[<<Owner[d], c>>] = 0
      BY <2>2, <2>3, WaitsFindFree
    <3>2. Free(mainq[d] \o p) \subseteq Free(mainq[d]) \cup Free(p)
      BY <1>0, <2>2, FreeConcat
    <3>3. /\ mainq'[d] = mainq[d] \o p
          /\ \A e \in Devices \ {d} : mainq'[e] = mainq[e]
      BY <1>0, <2>5
    <3> QED BY <3>1, <3>2, <3>3
  <2> QED BY <2>1, <2>4, <2>5
<1> QED BY <1>1, <1>2

\* The network: writes are struck off only when the record is there, and in
\* the copy of a phone that has one.
LEMMA NetworkOrderly ==
    ASSUME OrderlyInv, DeskInv', Orderly, NEW d \in Devices, NetworkStep(d)
    PROVE  OrderlyInv'
<1>0. /\ DeskInv /\ TypeOK /\ ServerTypeOK(Askers) /\ mainq[d] \in Seq(Callbacks)
      /\ fbq[d] \in Seq(Calls) /\ waiting[d] \in [Records -> Seq(Askers)]
      /\ Tidy(fbq[d], Owner[d]) /\ WaitsTidy(waiting[d], fbq[d], Owner[d])
      /\ waiting = [waiting EXCEPT ![d] = waiting[d]]
  BY OrderlyState, PhoneState DEF DeskInv, TypeOK
<1>1. UNCHANGED <<proc, fbq, served>>
  BY DEF NetworkStep, Listened, Cancelled, ReadReturned
<1>2. /\ OnlyHere(d) /\ records \subseteq records'
      /\ \A r \in Records : waiting'[d][r] \in {waiting[d][r], <<>>}
  <2>1. \/ ListenAnswered(d) \/ ListenLost(d)
        \/ \E r \in Records : \/ ReadAnswered(d, r)
                              \/ DataUpdate(d, r) \/ ServerPut(d, r)
                              \/ AckWrite(d, r) \/ RevertWrite(d, r)
    BY DEF NetworkStep, Listened, Cancelled, ReadReturned
  <2> QED BY <1>0, <2>1, ServerStep
<1>3. WaitsTidy(waiting'[d], fbq'[d], Owner[d])
  <2>1. ASSUME NEW r \in Records
        PROVE  waiting'[d][r] = waiting[d][r] \/ DOMAIN waiting'[d][r] = {}
    BY <1>2
  <2> QED BY <1>0, <1>1, <2>1 DEF WaitsTidy
<1>4. CASE Listened(d)
  <2>1. /\ listen[d] = "wait" /\ cache'[d] = records /\ UNCHANGED pending
    BY <1>0, <1>4 DEF Listened, ListenAnswered, ServerTypeOK
  <2>2. Running(d)'
    BY <1>1, <2>1, OrderlyState DEF Running
  <2>3. /\ \A c \in Free(mainq'[d]) :
              c \in Free(mainq[d]) \/ served[<<Owner[d], c>>] = 0
        /\ \A e \in Devices \ {d} : mainq'[e] = mainq[e]
    BY <1>4, AnswersOrderly
  <2> QED BY <1>0, <1>1, <1>2, <1>3, <2>1, <2>2, <2>3, Calm
<1>5. CASE Cancelled(d)
  <2>1. /\ listen[d] # "none" /\ ~Synced(d)' /\ UNCHANGED <<pending, mainq>>
    BY <1>0, <1>5 DEF Cancelled, ListenLost, ServerTypeOK, Synced
  <2>2. Running(d)'
    BY <1>1, <2>1, OrderlyState DEF Running
  <2> QED BY <1>0, <1>1, <1>2, <1>3, <2>1, <2>2, Calm
<1>6. ASSUME NEW r \in Records, ReadReturned(d, r)
      PROVE  OrderlyInv'
  <2>1. /\ UNCHANGED <<listen, cache, pending>> /\ waiting[d][r] # <<>>
        /\ (Synced(d)' => Synced(d))
    BY <1>6 DEF ReadReturned, ReadAnswered, Synced
  <2>2. waiting[d] # NoReads
    BY <2>1 DEF NoReads
  <2>3. Running(d)'
    BY <1>1, <2>2, OrderlyState DEF Running
  <2>4. /\ \A c \in Free(mainq'[d]) :
              c \in Free(mainq[d]) \/ served[<<Owner[d], c>>] = 0
        /\ \A e \in Devices \ {d} : mainq'[e] = mainq[e]
    BY <1>6, AnswersOrderly
  <2> QED BY <1>0, <1>1, <1>2, <1>3, <2>1, <2>3, <2>4, Calm
<1>7. ASSUME NEW r \in Records, RaiseEvents(d, mainq[d]),
             DataUpdate(d, r) \/ ServerPut(d, r) \/ AckWrite(d, r) \/ RevertWrite(d, r)
      PROVE  OrderlyInv'
  <2>1. /\ Free(mainq'[d]) = Free(mainq[d])
        /\ \A e \in Devices \ {d} : mainq'[e] = mainq[e]
    BY <1>0, <1>7, EventsOrderly
  <2>2. UNCHANGED listen /\ (Synced(d)' => Synced(d))
    BY <1>7 DEF DataUpdate, ServerPut, AckWrite, RevertWrite, Synced
  <2>3. CASE DataUpdate(d, r)
    <3>1. cache[d] \subseteq cache'[d] /\ UNCHANGED pending /\ Synced(d)
      BY <1>0, <2>3 DEF DataUpdate, ServerTypeOK
    <3>2. Running(d)'
      BY <1>1, <3>1, OrderlyState DEF Running, Synced
    <3> QED BY <1>0, <1>1, <1>2, <1>3, <2>1, <2>2, <3>1, <3>2, Calm
  <2>4. CASE ServerPut(d, r)
    <3>1. UNCHANGED <<cache, pending>> /\ pending[d] # {}
      BY <2>4 DEF ServerPut
    <3>2. Running(d)'
      BY <1>1, <3>1, OrderlyState DEF Running
    <3> QED BY <1>0, <1>1, <1>2, <1>3, <2>1, <2>2, <3>1, <3>2, Calm
  <2>5. CASE AckWrite(d, r) \/ RevertWrite(d, r)
    <3>1. /\ pending'[d] = pending[d] \ {r} /\ r \in pending[d]
      BY <1>0, <2>5 DEF AckWrite, RevertWrite, ServerTypeOK
    <3>2. AckWrite(d, r)
      BY <3>1 DEF Orderly
    <3>3. /\ UNCHANGED <<records, cache>>
          /\ r \in records /\ (Synced(d) => r \in cache[d])
      BY <3>2 DEF AckWrite
    <3>4. Running(d)'
      BY <1>1, <3>1, OrderlyState DEF Running
    <3>5. \A c \in Free(mainq'[d]) : served'[<<Owner[d], c>>] = 0
      BY <1>1, <2>1, OrderlyState
    <3>6. \A c \in Coupons : served'[<<Owner[d], c>>] > 0
            => /\ <<Owner[d], c>> \in records' \cup pending'[d] \cup Reported(fbq'[d])
               /\ Synced(d)' => <<Owner[d], c>> \in
                                   cache'[d] \cup pending'[d] \cup Reported(fbq'[d])
      BY <1>1, <2>2, <3>1, <3>3, OrderlyState
    <3>7. \A s \in Records : served'[s] <= 1
      BY <1>1 DEF OrderlyInv, OneCouponPerMeal
    <3> QED BY <1>0, <1>1, <1>2, <1>3, <2>1, <2>2, <3>3, <3>4, <3>5, <3>6, <3>7,
               OtherPhones
  <2> QED BY <1>7, <2>3, <2>4, <2>5
<1> QED BY <1>4, <1>5, <1>6, <1>7 DEF NetworkStep

-----------------------------------------------------------------------------
(* The specification. *)

\* Nobody is signed in at first and nothing is queued or served.
LEMMA InitOrderly == Init => OrderlyInv
<1> SUFFICES ASSUME Init PROVE OrderlyInv
  OBVIOUS
<1>1. DeskInv
  BY InitInv
<1>2. ASSUME NEW d \in Devices PROVE PhoneInv(d)
  <2>1. /\ user[d] = NoUser /\ proc[d] = "running"
        /\ DOMAIN fbq[d] = {} /\ DOMAIN mainq[d] = {}
        /\ \A r \in Records : DOMAIN waiting[d][r] = {}
    BY NoReadsType DEF Init, DatabaseInit
  <2>2. /\ Undecided(d) = {} /\ Free(mainq[d]) = {} /\ Tidy(fbq[d], Owner[d])
        /\ WaitsAlone(d, Owner[d])
    BY <2>1 DEF Undecided, Reads, Free, Tidy, WaitsAlone
  <2> QED BY <2>1, <2>2 DEF PhoneInv, OneAtATime, Running
<1>3. ASSUME NEW r \in Records PROVE served[r] = 0
  BY DEF Init
<1>4. ASSUME NEW d \in Devices, NEW c \in Coupons PROVE ~(served[<<Owner[d], c>>] > 0)
  <2>1. <<Owner[d], c>> \in Records
    BY OwnerAssumption DEF Records
  <2> QED BY <1>3, <2>1
<1>5. OneCouponPerMeal
  BY <1>3 DEF OneCouponPerMeal
<1> QED BY <1>1, <1>2, <1>4, <1>5 DEF OrderlyInv, AnnouncedIsKept, AnnouncedIsSeen

\* Every step under the discipline preserves OrderlyInv.
LEMMA NextOrderly == OrderlyInv /\ [Next /\ Orderly]_vars => OrderlyInv'
<1> SUFFICES ASSUME OrderlyInv, [Next /\ Orderly]_vars PROVE OrderlyInv'
  OBVIOUS
<1>1. DeskInv'
  BY NextInv DEF OrderlyInv
<1>2. CASE Next /\ Orderly
  BY <1>1, <1>2, UserOrderly, FirebaseOrderly, MainOrderly, NetworkOrderly DEF Next
<1>3. CASE UNCHANGED vars
  <2>1. UNCHANGED <<records, listen, cache, pending, waiting, proc, user, fbq, mainq, served>>
    BY <1>3 DEF vars
  <2>2. ASSUME NEW d \in Devices PROVE PhoneInv(d)'
    <3>1. PhoneInv(d)
      BY DEF OrderlyInv
    <3>2. OneAtATime(d)' /\ WaitsAlone(d, Owner[d])'
      BY <2>1, <3>1 DEF PhoneInv, OneAtATime, Undecided, Reads, WaitsAlone
    <3> QED BY <2>1, <3>1, <3>2 DEF PhoneInv, Running, Tidy, Free, NoReads
  <2>3. AnnouncedIsKept' /\ AnnouncedIsSeen' /\ OneCouponPerMeal'
    BY <2>1 DEF OrderlyInv, AnnouncedIsKept, AnnouncedIsSeen, OneCouponPerMeal, Owed,
                LocalData, Synced
  <2> QED BY <1>1, <2>2, <2>3 DEF OrderlyInv
<1> QED BY <1>2, <1>3

\* The discipline is enough, on any number of phones: OrderlyInv holds
\* throughout.
THEOREM OrderlyInvariant == OrderlySpec => []OrderlyInv
BY InitOrderly, NextOrderly, PTL DEF OrderlySpec

\* Under the discipline no account is told twice that it has just redeemed the
\* same coupon: what validateToken reads before it writes is still true when
\* it writes, also when the answer had to wait for a listen.
THEOREM OneCouponIfOrderly == OrderlySpec => []OneCouponPerMeal
<1>1. OrderlyInv => OneCouponPerMeal
  BY DEF OrderlyInv
<1> QED BY <1>1, OrderlyInvariant, PTL

\* Where the rules refuse nothing and no process ends before its writes are
\* acknowledged, a success that was shown is on the server, or the phone that
\* showed it still owes it: the client forgets no write.
THEOREM AnnouncedIsKeptIfOrderly == OrderlySpec => []AnnouncedIsKept
<1>1. OrderlyInv => AnnouncedIsKept
  BY DEF OrderlyInv
<1> QED BY <1>1, OrderlyInvariant, PTL

\* Under the discipline a phone that has its copy finds in it, or in a write
\* on its way to the client, every success that was shown: the next validation
\* is told of it.
THEOREM AnnouncedIsSeenIfOrderly == OrderlySpec => []AnnouncedIsSeen
<1>1. OrderlyInv => AnnouncedIsSeen
  BY DEF OrderlyInv
<1> QED BY <1>1, OrderlyInvariant, PTL

-----------------------------------------------------------------------------
(***************************************************************************)
(* The redeemed status.                                                    *)
(***************************************************************************)

\* No key, and so no token, is also the name of a coupon: validateToken adds
\* the token to the names in reedeemedArr.
NamesApart == (Keys \cup {NoKey}) \cap Coupons = {}

\* AskedForOwner for the calls q and the reads w of account o.
CallsAsk(q, o) == \A i \in DOMAIN q : q[i].op = "check" => q[i].u = o
WaitsAsk(w, o) ==
    \A r \in Records : \A i \in DOMAIN w[r] : w[r][i] = "check" => r[1] = o

-----------------------------------------------------------------------------
(* Queues. *)

\* A call appended, if it is a check, is of the account.
LEMMA AskAppend ==
    ASSUME NEW o, NEW q \in Seq(Calls), CallsAsk(q, o), NEW x \in Calls,
           x.op = "check" => x.u = o
    PROVE  CallsAsk(Append(q, x), o) /\ CallsAsk(Push(q, x), o)
<1>1. CallsAsk(Append(q, x), o)
  <2> DEFINE p == Append(q, x)
  <2>1. \A i \in DOMAIN p : p[i] = x \/ \E j \in DOMAIN q : p[i] = q[j]
    BY AppendElements
  <2> HIDE DEF p
  <2>2. CallsAsk(p, o)
    BY <2>1 DEF CallsAsk
  <2> QED BY <2>2 DEF p
<1> QED BY <1>1 DEF Push

\* Orphan leaves the accounts of the calls alone.
LEMMA AskOrphan ==
    ASSUME NEW o, NEW q \in Seq(Calls), CallsAsk(q, o), NEW s
    PROVE  CallsAsk(Orphan(q, s), o)
<1> DEFINE p == Orphan(q, s)
<1>1. DOMAIN p = DOMAIN q /\ \A i \in DOMAIN q : p[i].op = q[i].op /\ p[i].u = q[i].u
  BY OrphanCalls
<1> HIDE DEF p
<1>2. CallsAsk(p, o)
  BY <1>1 DEF CallsAsk
<1> QED BY <1>2 DEF p

\* What remains was there; what goes was of the account.
LEMMA AskTail ==
    ASSUME NEW o, NEW q \in Seq(Calls), CallsAsk(q, o), q # <<>>
    PROVE  CallsAsk(Tail(q), o) /\ (Head(q).op = "check" => Head(q).u = o)
<1> DEFINE p == Tail(q)
<1>1. /\ \A i \in DOMAIN p : \E j \in DOMAIN q : p[i] = q[j]
      /\ 1 \in DOMAIN q /\ Head(q) = q[1]
  BY TailElements
<1> HIDE DEF p
<1>2. CallsAsk(p, o)
  BY <1>1 DEF CallsAsk
<1> QED BY <1>1, <1>2 DEF p, CallsAsk

\* A callback appended adds what it has found.
LEMMA FoundAppend ==
    ASSUME NEW q \in Seq(Callbacks), NEW x \in Callbacks
    PROVE  /\ Found(Append(q, x)) \subseteq Found(q) \cup (IF x.op = "check" THEN x.found ELSE {})
           /\ Found(Push(q, x)) \subseteq Found(q) \cup (IF x.op = "check" THEN x.found ELSE {})
<1> DEFINE new == IF x.op = "check" THEN x.found ELSE {}
<1>1. Found(Append(q, x)) \subseteq Found(q) \cup new
  <2> DEFINE p == Append(q, x)
  <2>1. \A i \in DOMAIN p : p[i] = x \/ \E j \in DOMAIN q : p[i] = q[j]
    BY AppendElements
  <2> HIDE DEF p
  <2>2. ASSUME NEW c \in Found(p) PROVE c \in Found(q) \cup new
    <3>1. PICK i \in DOMAIN p : p[i].op = "check" /\ c \in p[i].found
      BY DEF Found
    <3>2. CASE p[i] = x
      BY <3>1, <3>2
    <3>3. ASSUME NEW j \in DOMAIN q, p[i] = q[j] PROVE c \in Found(q)
      BY <3>1, <3>3 DEF Found
    <3> QED BY <2>1, <3>2, <3>3
  <2> QED BY <2>2 DEF p
<1>2. Push(q, x) = q \/ Push(q, x) = Append(q, x)
  BY DEF Push
<1> HIDE DEF new
<1>3. Found(Push(q, x)) \subseteq Found(q) \cup new
  BY <1>1, <1>2
<1> QED BY <1>1, <1>3 DEF new

\* Orphan does not touch checks.
LEMMA FoundOrphan ==
    ASSUME NEW q \in Seq(Callbacks), NEW s
    PROVE  Found(Orphan(q, s)) = Found(q)
<1> DEFINE p == Orphan(q, s)
<1>1. /\ DOMAIN p = DOMAIN q
      /\ \A i \in DOMAIN q : p[i].op = q[i].op
      /\ \A i \in DOMAIN q : q[i].op = "check" => p[i] = q[i]
  BY OrphanCallbacks DEF Orphan
<1> HIDE DEF p
<1>2. Found(p) = Found(q)
  BY <1>1 DEF Found
<1> QED BY <1>2 DEF p

\* What remains was there, and so was what goes.
LEMMA FoundTail ==
    ASSUME NEW q \in Seq(Callbacks), q # <<>>
    PROVE  /\ Found(Tail(q)) \subseteq Found(q)
           /\ Head(q).op = "check" => Head(q).found \subseteq Found(q)
<1> DEFINE p == Tail(q)
<1>1. /\ \A i \in DOMAIN p : \E j \in DOMAIN q : p[i] = q[j]
      /\ 1 \in DOMAIN q /\ Head(q) = q[1]
  BY TailElements
<1> HIDE DEF p
<1>2. Found(p) \subseteq Found(q)
  <2>1. ASSUME NEW c \in Found(p) PROVE c \in Found(q)
    <3>1. PICK i \in DOMAIN p : p[i].op = "check" /\ c \in p[i].found
      BY DEF Found
    <3>2. PICK j \in DOMAIN q : p[i] = q[j]
      BY <1>1
    <3> QED BY <3>1, <3>2 DEF Found
  <2> QED BY <2>1
<1>3. Head(q).op = "check" => Head(q).found \subseteq Found(q)
  BY <1>1 DEF Found
<1> QED BY <1>2, <1>3 DEF p

\* Queues behind one another have found what each of them has.
LEMMA FoundConcat ==
    ASSUME NEW q \in Seq(Callbacks), NEW p \in Seq(Callbacks)
    PROVE  Found(q \o p) \subseteq Found(q) \cup Found(p)
<1> DEFINE t == q \o p
<1>1. \A i \in DOMAIN t : \/ \E j \in DOMAIN q : t[i] = q[j]
                          \/ \E j \in DOMAIN p : t[i] = p[j]
  BY ConcatElements
<1> HIDE DEF t
<1>2. ASSUME NEW c \in Found(t) PROVE c \in Found(q) \cup Found(p)
  <2>1. PICK i \in DOMAIN t : t[i].op = "check" /\ c \in t[i].found
    BY DEF Found
  <2>2. ASSUME NEW j \in DOMAIN q, t[i] = q[j] PROVE c \in Found(q)
    BY <2>1, <2>2 DEF Found
  <2>3. ASSUME NEW j \in DOMAIN p, t[i] = p[j] PROVE c \in Found(p)
    BY <2>1, <2>3 DEF Found
  <2> QED BY <1>1, <2>2, <2>3
<1> QED BY <1>2 DEF t

-----------------------------------------------------------------------------
(* Steps of one phone. *)

\* What the invariant says of d.
LEMMA StatusState ==
    ASSUME StatusInv, NEW d \in Devices
    PROVE  /\ DeskInv /\ TypeOK /\ ServerTypeOK(Askers)
           /\ fbq[d] \in Seq(Calls) /\ mainq[d] \in Seq(Callbacks) /\ app[d] \in AppMemory
           /\ waiting[d] \in [Records -> Seq(Askers)]
           /\ user[d] \in {Owner[d], NoUser}
           /\ CallsAsk(fbq[d], Owner[d]) /\ WaitsAsk(waiting[d], Owner[d])
           /\ \A c \in Found(mainq[d]) \cup app[d].reedeemedArr :
                 <<Owner[d], c>> \in records \cup pending[d] \cup refused
           /\ fbq = [fbq EXCEPT ![d] = fbq[d]] /\ mainq = [mainq EXCEPT ![d] = mainq[d]]
           /\ app = [app EXCEPT ![d] = app[d]]
           /\ waiting = [waiting EXCEPT ![d] = waiting[d]]
<1>1. DeskInv /\ StatusOf(d)
  BY DEF StatusInv
<1>2. CallsAsk(fbq[d], Owner[d]) /\ WaitsAsk(waiting[d], Owner[d])
  BY <1>1 DEF StatusOf, AskedForOwner, CallsAsk, WaitsAsk
<1>3. /\ user[d] \in {Owner[d], NoUser}
      /\ \A c \in Found(mainq[d]) \cup app[d].reedeemedArr :
            <<Owner[d], c>> \in records \cup pending[d] \cup refused
  BY <1>1 DEF StatusOf, Current
<1>4. TypeOK /\ ServerTypeOK(Askers)
  BY <1>1 DEF DeskInv, TypeOK
<1> QED BY <1>1, <1>2, <1>3, <1>4, PhoneState

\* A step of d leaves the other phones alone; what d shows is recorded, being
\* written or was refused.
LEMMA StatusStep ==
    ASSUME StatusInv, DeskInv', OneAccount, NEW d \in Devices, OnlyHere(d),
           \A e \in Devices \ {d} :
               fbq'[e] = fbq[e] /\ mainq'[e] = mainq[e] /\ app'[e] = app[e],
           records \subseteq records', refused \subseteq refused',
           CallsAsk(fbq'[d], Owner[d]), WaitsAsk(waiting'[d], Owner[d]),
           \A c \in Found(mainq'[d]) \cup app'[d].reedeemedArr :
               <<Owner[d], c>> \in records' \cup pending'[d] \cup refused'
    PROVE  StatusInv'
<1>1. ASSUME NEW e \in Devices
      PROVE  /\ CallsAsk(fbq'[e], Owner[e]) /\ WaitsAsk(waiting'[e], Owner[e])
             /\ \A c \in Found(mainq'[e]) \cup app'[e].reedeemedArr :
                   <<Owner[e], c>> \in records' \cup pending'[e] \cup refused'
  <2>1. CASE e # d
    <3>1. /\ fbq'[e] = fbq[e] /\ mainq'[e] = mainq[e] /\ app'[e] = app[e]
          /\ pending'[e] = pending[e] /\ waiting'[e] = waiting[e]
      BY <2>1 DEF OnlyHere
    <3> QED BY <3>1, StatusState
  <2> QED BY <2>1
<1>2. ASSUME NEW e \in Devices PROVE StatusOf(e)'
  <2>1. AskedForOwner(e)'
    BY <1>1 DEF AskedForOwner, CallsAsk, WaitsAsk, Records
  <2>2. (Found(mainq[e]))' = Found(mainq'[e])
    BY DEF Found
  <2>3. user'[e] \in {Owner[e], NoUser}
    BY DEF OneAccount
  <2> QED BY <1>1, <2>1, <2>2, <2>3 DEF StatusOf, Current
<1> QED BY <1>2 DEF StatusInv

\* A step that replaces what is queued, waits or is shown on d, while the
\* database stays as it is.
LEMMA StatusQueues ==
    ASSUME StatusInv, DeskInv', OneAccount, NEW d \in Devices,
           NEW calls, NEW rest, NEW w, NEW a,
           fbq' = [fbq EXCEPT ![d] = calls], mainq' = [mainq EXCEPT ![d] = rest],
           waiting' = [waiting EXCEPT ![d] = w], app' = [app EXCEPT ![d] = a],
           UNCHANGED <<records, listen, cache, pending, refused>>,
           CallsAsk(calls, Owner[d]), WaitsAsk(w, Owner[d]),
           \A c \in Found(rest) \cup a.reedeemedArr :
               \/ c \in Found(mainq[d]) \cup app[d].reedeemedArr
               \/ <<Owner[d], c>> \in records \cup pending[d]
    PROVE  StatusInv'
<1>1. /\ fbq'[d] = calls /\ mainq'[d] = rest /\ waiting'[d] = w /\ app'[d] = a
      /\ \A e \in Devices \ {d} :
            /\ fbq'[e] = fbq[e] /\ mainq'[e] = mainq[e] /\ app'[e] = app[e]
            /\ waiting'[e] = waiting[e]
  BY StatusState DEF TypeOK, ServerTypeOK
<1>2. OnlyHere(d)
  BY <1>1 DEF OnlyHere
<1>3. \A c \in Found(mainq'[d]) \cup app'[d].reedeemedArr :
          <<Owner[d], c>> \in records' \cup pending'[d] \cup refused'
  BY <1>1, StatusState
<1> QED BY <1>1, <1>2, <1>3, StatusStep

\* Nothing is shown by a dead process.
LEMMA DeathStatus ==
    ASSUME StatusInv, DeskInv', OneAccount, NEW d \in Devices, NEW how, Terminate(d, how)
    PROVE  StatusInv'
<1>1. /\ fbq'[d] = <<>> /\ mainq'[d] = <<>> /\ app'[d] = Started("login")
      /\ waiting'[d] = NoReads
      /\ \A e \in Devices \ {d} :
            fbq'[e] = fbq[e] /\ mainq'[e] = mainq[e] /\ app'[e] = app[e]
      /\ OnlyHere(d) /\ UNCHANGED <<records, refused>>
  BY StatusState DEF Terminate, ForgetClient, TypeOK, ServerTypeOK, OnlyHere
<1>2. CallsAsk(fbq'[d], Owner[d]) /\ Found(mainq'[d]) = {} /\ app'[d].reedeemedArr = {}
  BY <1>1 DEF CallsAsk, Found, Started
<1>3. WaitsAsk(waiting'[d], Owner[d])
  BY <1>1, NoReadsType DEF WaitsAsk
<1> QED BY <1>1, <1>2, <1>3, StatusStep

\* check() asks for the owner, or ends the process.
LEMMA CheckStatus ==
    ASSUME StatusInv, DeskInv', OneAccount, NEW d \in Devices,
           NEW a, a.reedeemedArr = app[d].reedeemedArr,
           NEW calls \in Seq(Calls), CallsAsk(calls, Owner[d]),
           NEW rest \in Seq(Callbacks), Found(rest) \subseteq Found(mainq[d]),
           NEW w, WaitsAsk(w, Owner[d]),
           check(d, a, calls, rest, w)
    PROVE  StatusInv'
<1> DEFINE x == [op |-> "check", u |-> user[d]]
           new == IF a.listed THEN Push(calls, x) ELSE calls
<1>1. CASE Terminate(d, "crashed")
  BY <1>1, DeathStatus
<1>2. CASE /\ a.listed => user[d] # NoUser
           /\ app' = [app EXCEPT ![d] = a]
           /\ mainq' = [mainq EXCEPT ![d] = rest]
           /\ fbq' = [fbq EXCEPT ![d] = new]
           /\ waiting' = [waiting EXCEPT ![d] = w]
           /\ UNCHANGED <<records, listen, cache, pending, refused>>
  <2>1. a.listed => x \in Calls /\ x.u = Owner[d]
    BY <1>2, StatusState DEF TypeOK, Calls
  <2>2. CallsAsk(new, Owner[d])
    BY <2>1, AskAppend
  <2> HIDE DEF new
  <2> QED BY <1>2, <2>2, StatusQueues
<1> QED BY <1>1, <1>2 DEF check

\* A validation asks, but shows no status.
LEMMA ValidateStatus ==
    ASSUME StatusInv, DeskInv', OneAccount, NEW d \in Devices,
           NEW a \in AppMemory, a.reedeemedArr = app[d].reedeemedArr,
           NEW key \in Keys \cup {NoKey}, NEW via \in Givers,
           validateToken(d, a, key, via)
    PROVE  StatusInv'
<1> DEFINE x == [op |-> "read", u |-> user[d], c |-> a.currentT, via |-> via]
           b == Present(a, via, Verdict(a, key))
<1>1. CASE /\ Verdict(a, key) = "match" /\ user[d] # NoUser
           /\ app' = [app EXCEPT ![d] = a]
           /\ fbq' = [fbq EXCEPT ![d] = Append(@, x)]
           /\ UNCHANGED <<dbVars, mainq>>
  <2>1. x \in Calls /\ x.op # "check"
    BY <1>1, StatusState DEF Verdict, Calls, TypeOK, AppMemory
  <2> HIDE DEF x
  <2>2. CallsAsk(Append(fbq[d], x), Owner[d])
    BY <2>1, StatusState, AskAppend
  <2>3. /\ fbq' = [fbq EXCEPT ![d] = Append(fbq[d], x)]
        /\ UNCHANGED <<records, listen, cache, pending, refused, waiting, mainq>>
    BY <1>1 DEF dbVars
  <2> QED BY <1>1, <2>2, <2>3, StatusState, StatusQueues
<1>2. CASE Terminate(d, "crashed")
  BY <1>2, DeathStatus
<1>3. CASE /\ app' = [app EXCEPT ![d] = b]
           /\ Verdict(a, key) # "match"
           /\ UNCHANGED <<dbVars, fbq, mainq>>
  <2>1. Verdict(a, key) \in Alerts
    BY <1>3 DEF Verdict, Alerts
  <2>2. b.reedeemedArr = a.reedeemedArr
    BY <2>1, PresentType
  <2>3. UNCHANGED <<records, listen, cache, pending, refused, waiting, fbq, mainq>>
    BY <1>3 DEF dbVars
  <2> HIDE DEF b
  <2>4. /\ fbq' = [fbq EXCEPT ![d] = fbq[d]] /\ mainq' = [mainq EXCEPT ![d] = mainq[d]]
        /\ waiting' = [waiting EXCEPT ![d] = waiting[d]] /\ app' = [app EXCEPT ![d] = b]
        /\ CallsAsk(fbq[d], Owner[d]) /\ WaitsAsk(waiting[d], Owner[d])
        /\ b.reedeemedArr = app[d].reedeemedArr
    BY <1>3, <2>2, <2>3, StatusState
  <2> QED BY <2>3, <2>4, StatusQueues
<1> QED BY <1>1, <1>2, <1>3 DEF validateToken

\* Whatever the user does.
LEMMA UserStatus ==
    ASSUME StatusInv, DeskInv', OneAccount, NEW d \in Devices, UserStep(d)
    PROVE  StatusInv'
<1>0. /\ DeskInv /\ TypeOK /\ fbq[d] \in Seq(Calls) /\ mainq[d] \in Seq(Callbacks)
      /\ waiting[d] \in [Records -> Seq(Askers)]
      /\ CallsAsk(fbq[d], Owner[d]) /\ WaitsAsk(waiting[d], Owner[d])
      /\ app[d] \in AppMemory
  BY StatusState
<1>w. ASSUME NEW s \in Givers PROVE WaitsAsk(OrphanReads(waiting[d], s), Owner[d])
  BY <1>0, OrphanWaits DEF WaitsAsk
<1>1. CASE Kill(d)
  BY <1>1, DeathStatus DEF Kill
<1>2. CASE \/ MicButton(d) \/ SomethingWrong(d) \/ WrongPassword(d)
           \/ DismissAlert(d) \/ HandleTap(d) \/ DownButton(d) \/ VisitOther(d)
           \/ Logout(d) \/ SignOutIfTokenIsInvalid(d) \/ Launch(d)
           \/ \E u \in Users : Login(d, u)
           \/ \E c \in Coupons : SelectRow(d, c)
  <2>1. UNCHANGED <<records, listen, cache, pending, waiting, refused, fbq, mainq>>
    BY <1>2
       DEF MicButton, SomethingWrong, WrongPassword, DismissAlert, HandleTap, DownButton,
           VisitOther, Logout, SignOutIfTokenIsInvalid, Login, SelectRow, Launch, dbVars
  <2>2. /\ \A e \in Devices \ {d} : app'[e] = app[e]
        /\ app'[d].reedeemedArr \subseteq app[d].reedeemedArr
    <3>1. CASE WrongPassword(d)
      <4> DEFINE b == Present(app[d], "wrong", "other")
      <4>1. b.reedeemedArr = app[d].reedeemedArr
        BY <1>0, PresentType DEF Alerts
      <4>2. app' = [app EXCEPT ![d] = b]
        BY <3>1 DEF WrongPassword
      <4> HIDE DEF b
      <4> QED BY <1>0, <4>1, <4>2 DEF TypeOK
    <3>2. ASSUME NEW c \in Coupons, SelectRow(d, c)
          PROVE  /\ \A e \in Devices \ {d} : app'[e] = app[e]
                 /\ app'[d].reedeemedArr \subseteq app[d].reedeemedArr
      <4> DEFINE b == Selected(app[d], c)
      <4>1. b.reedeemedArr = app[d].reedeemedArr
        BY <1>0 DEF Selected, AppMemory
      <4>2. app' = [app EXCEPT ![d] = b]
        BY <3>2 DEF SelectRow
      <4> HIDE DEF b
      <4> QED BY <1>0, <4>1, <4>2 DEF TypeOK
    <3>3. CASE Launch(d)
      <4>1. PICK b : app' = [app EXCEPT ![d] = Started(b)]
        BY <3>3 DEF Launch
      <4>2. app'[d] = Started(b) /\ \A e \in Devices \ {d} : app'[e] = app[e]
        BY <1>0, <4>1 DEF TypeOK
      <4> QED BY <4>2 DEF Started
    <3>4. CASE Logout(d) \/ SignOutIfTokenIsInvalid(d) \/ \E u \in Users : Login(d, u)
      <4>1. app' = app \/ \E b \in Screens : app' = [app EXCEPT ![d].screen = b]
        BY <3>4 DEF Logout, SignOutIfTokenIsInvalid, Login, Screens
      <4>2. CASE app' = app
        BY <4>2
      <4>3. ASSUME NEW b \in Screens, app' = [app EXCEPT ![d].screen = b]
            PROVE  /\ app'[d].reedeemedArr = app[d].reedeemedArr
                   /\ \A e \in Devices \ {d} : app'[e] = app[e]
        BY <1>0, <4>3 DEF TypeOK, AppMemory
      <4> QED BY <4>1, <4>2, <4>3
    <3>5. ASSUME MicButton(d) \/ HandleTap(d) \/ DismissAlert(d)
          PROVE  /\ app'[d].reedeemedArr = app[d].reedeemedArr
                 /\ \A e \in Devices \ {d} : app'[e] = app[e]
      <4>1. CASE MicButton(d)
        BY <1>0, <4>1 DEF MicButton, TypeOK, AppMemory
      <4>2. CASE HandleTap(d)
        BY <1>0, <4>2 DEF HandleTap, TypeOK, AppMemory
      <4>3. CASE DismissAlert(d)
        BY <1>0, <4>3 DEF DismissAlert, TypeOK, AppMemory
      <4> QED BY <3>5, <4>1, <4>2, <4>3
    <3>6. CASE SomethingWrong(d) \/ DownButton(d) \/ VisitOther(d)
      <4>1. PICK b \in Screens : app' = [app EXCEPT ![d].screen = b]
        BY <3>6 DEF SomethingWrong, DownButton, VisitOther, Screens
      <4> QED BY <1>0, <4>1 DEF TypeOK, AppMemory
    <3> QED BY <1>2, <3>1, <3>2, <3>3, <3>4, <3>5, <3>6
  <2>3. OnlyHere(d)
    BY <2>1 DEF OnlyHere
  <2>4. \A c \in Found(mainq'[d]) \cup app'[d].reedeemedArr :
            <<Owner[d], c>> \in records' \cup pending'[d] \cup refused'
    BY <2>1, <2>2, StatusState
  <2> QED BY <1>0, <2>1, <2>2, <2>3, <2>4, StatusStep
<1>3. CASE VisitCoupons(d)
  <2> DEFINE x == [op |-> "observe"]
             old == Orphan(fbq[d], "coupons")
             rest == Orphan(mainq[d], "coupons")
             w == OrphanReads(waiting[d], "coupons")
             a == [app[d] EXCEPT !.screen = "coupons", !.k = 0, !.listed = FALSE]
  <2>1. x \in Calls /\ x.op # "check" /\ old \in Seq(Calls)
    BY <1>0, OrphanCalls DEF Calls
  <2>2. CallsAsk(Append(old, x), Owner[d])
    <3>1. CallsAsk(old, Owner[d])
      BY <1>0, AskOrphan
    <3> HIDE DEF old, x
    <3> QED BY <2>1, <3>1, AskAppend
  <2>3. Found(rest) = Found(mainq[d]) /\ a.reedeemedArr = app[d].reedeemedArr
    BY <1>0, FoundOrphan DEF AppMemory
  <2>4. WaitsAsk(w, Owner[d])
    BY <1>w DEF Givers
  <2>5. /\ fbq' = [fbq EXCEPT ![d] = Append(old, x)] /\ mainq' = [mainq EXCEPT ![d] = rest]
        /\ waiting' = [waiting EXCEPT ![d] = w] /\ app' = [app EXCEPT ![d] = a]
        /\ UNCHANGED <<records, listen, cache, pending, refused>>
    BY <1>0, <1>3 DEF VisitCoupons, TypeOK
  <2> HIDE DEF x, old, rest, w, a
  <2> QED BY <2>2, <2>3, <2>4, <2>5, StatusQueues
<1>4. CASE BackButtonPressed(d)
  <2> DEFINE a == [app[d] EXCEPT !.screen = "coupons"]
             rest == Orphan(mainq[d], "wrong")
             calls == Orphan(fbq[d], "wrong")
             w == OrphanReads(waiting[d], "wrong")
  <2>1. /\ calls \in Seq(Calls) /\ CallsAsk(calls, Owner[d])
        /\ rest \in Seq(Callbacks) /\ Found(rest) = Found(mainq[d])
        /\ a.reedeemedArr = app[d].reedeemedArr
    BY <1>0, OrphanCalls, OrphanCallbacks, AskOrphan, FoundOrphan DEF AppMemory
  <2>2. WaitsAsk(w, Owner[d])
    BY <1>w DEF Givers
  <2>3. \/ check(d, a, calls, rest, w)
        \/ /\ app' = [app EXCEPT ![d] = a] /\ waiting' = [waiting EXCEPT ![d] = w]
           /\ fbq' = [fbq EXCEPT ![d] = calls] /\ mainq' = [mainq EXCEPT ![d] = rest]
           /\ UNCHANGED <<records, listen, cache, pending, refused>>
    BY <1>4 DEF BackButtonPressed
  <2> HIDE DEF a, rest, calls, w
  <2>4. CASE check(d, a, calls, rest, w)
    BY <2>1, <2>2, <2>4, CheckStatus
  <2>5. CASE ~check(d, a, calls, rest, w)
    BY <2>1, <2>2, <2>3, <2>5, StatusQueues
  <2> QED BY <2>4, <2>5
<1>5. ASSUME NEW key \in Keys \cup {NoKey}, DataReceived(d, key) \/ AdminBypassAdd(d, key)
      PROVE  StatusInv'
  <2> DEFINE a == [app[d] EXCEPT !.listening = FALSE]
  <2>1. a \in AppMemory /\ a.reedeemedArr = app[d].reedeemedArr
    BY <1>0 DEF AppMemory
  <2> HIDE DEF a
  <2>2. CASE validateToken(d, a, key, "coupons")
    BY <2>1, <2>2, ValidateStatus DEF Givers
  <2>3. CASE validateToken(d, app[d], key, "wrong")
    BY <1>0, <2>3, ValidateStatus DEF Givers
  <2> QED BY <1>5, <2>2, <2>3 DEF DataReceived, AdminBypassAdd, a
<1> QED BY <1>1, <1>2, <1>3, <1>4, <1>5 DEF UserStep

\* The observers' events find nothing.
LEMMA EventsStatus ==
    ASSUME DeskInv, NEW d \in Devices, NEW q \in Seq(Callbacks), RaiseEvents(d, q)
    PROVE  /\ Found(mainq'[d]) \subseteq Found(q)
           /\ \A e \in Devices \ {d} : mainq'[e] = mainq[e]
<1> DEFINE x == [op |-> "scannables"]
<1>1. x \in Callbacks /\ x.op # "check"
  BY DEF Callbacks
<1>2. /\ mainq'[d] = q \/ mainq'[d] = Push(q, x)
      /\ \A e \in Devices \ {d} : mainq'[e] = mainq[e]
  BY DEF RaiseEvents, DeskInv, TypeOK
<1> HIDE DEF x
<1>3. Found(Push(q, x)) \subseteq Found(q)
  BY <1>1, FoundAppend
<1> QED BY <1>2, <1>3

\* What a check() that waited is told exists does.
LEMMA WaitsFound ==
    ASSUME StatusInv, NEW d \in Devices, NEW p \in Seq(Callbacks),
           \A i \in DOMAIN p :
               \E r \in Records : \E j \in DOMAIN waiting[d][r] : \E there \in BOOLEAN :
                   /\ p[i] = Answer(r, waiting[d][r][j], there)
                   /\ there => r \in records' \cup pending'[d]
    PROVE  \A c \in Found(p) : <<Owner[d], c>> \in records' \cup pending'[d]
<1> SUFFICES ASSUME NEW c \in Found(p)
             PROVE  <<Owner[d], c>> \in records' \cup pending'[d]
  OBVIOUS
<1>1. PICK i \in DOMAIN p : p[i].op = "check" /\ c \in p[i].found
  BY DEF Found
<1>2. PICK r \in Records :
          \E j \in DOMAIN waiting[d][r] : \E there \in BOOLEAN :
              /\ p[i] = Answer(r, waiting[d][r][j], there)
              /\ there => r \in records' \cup pending'[d]
  OBVIOUS
<1>3. PICK j \in DOMAIN waiting[d][r] :
          \E there \in BOOLEAN :
              /\ p[i] = Answer(r, waiting[d][r][j], there)
              /\ there => r \in records' \cup pending'[d]
  BY <1>2
<1>4. PICK there \in BOOLEAN :
          /\ p[i] = Answer(r, waiting[d][r][j], there)
          /\ there => r \in records' \cup pending'[d]
  BY <1>3
<1> DEFINE asker == waiting[d][r][j]
           y == p[i]
<1>5. y = Answer(r, asker, there) /\ y.op = "check" /\ c \in y.found
  BY <1>1, <1>4
<1>6. asker = "check" => r[1] = Owner[d]
  BY StatusState DEF WaitsAsk
<1> HIDE DEF asker, y
<1>7. asker = "check" /\ c = r[2] /\ there
  BY <1>5, AnswerOf
<1>8. r = <<Owner[d], c>>
  BY <1>6, <1>7 DEF Records
<1> QED BY <1>4, <1>7, <1>8

\* What a check() finds was found for the owner; a read of a record that the
\* client is writing finds the write.
LEMMA FirebaseStatus ==
    ASSUME StatusInv, DeskInv', OneAccount, NEW d \in Devices, FirebaseStep(d)
    PROVE  StatusInv'
<1> DEFINE call == Head(fbq[d])
           calls == Tail(fbq[d])
<1>0. /\ DeskInv /\ TypeOK /\ ServerTypeOK(Askers)
      /\ fbq[d] \in Seq(Calls) /\ mainq[d] \in Seq(Callbacks)
      /\ waiting[d] \in [Records -> Seq(Askers)]
      /\ CallsAsk(fbq[d], Owner[d]) /\ WaitsAsk(waiting[d], Owner[d])
      /\ mainq = [mainq EXCEPT ![d] = mainq[d]] /\ app = [app EXCEPT ![d] = app[d]]
      /\ waiting = [waiting EXCEPT ![d] = waiting[d]]
  BY StatusState
<1>1. /\ fbq[d] # <<>> /\ fbq' = [fbq EXCEPT ![d] = calls]
      /\ UNCHANGED <<app, cache, records, refused>>
  BY DEF FirebaseStep, FirebaseObserve, FirebaseRead, FirebaseCheck, FirebaseSet,
         AtHead, Observe, SetValue
<1>2. /\ CallsAsk(calls, Owner[d]) /\ call \in Calls
      /\ call.op = "check" => call.u = Owner[d]
  BY <1>0, <1>1, AskTail, TailElements
<1>3. /\ fbq'[d] = calls /\ \A e \in Devices \ {d} : fbq'[e] = fbq[e]
  BY <1>0, <1>1 DEF TypeOK
<1> HIDE DEF calls
<1>4. CASE FirebaseObserve(d)
  <2> DEFINE x == [op |-> "scannables"]
  <2>1. UNCHANGED <<pending, waiting>>
    BY <1>4 DEF FirebaseObserve, Observe
  <2>2. \A e \in Devices \ {d} : listen'[e] = listen[e]
    BY <1>0, <1>4 DEF FirebaseObserve, Observe, ServerTypeOK
  <2>3. x \in Callbacks /\ x.op # "check"
    BY DEF Callbacks
  <2>4. /\ mainq'[d] = mainq[d] \/ mainq'[d] = Push(mainq[d], x)
        /\ \A e \in Devices \ {d} : mainq'[e] = mainq[e]
    BY <1>0, <1>4 DEF FirebaseObserve, TypeOK
  <2> HIDE DEF x, call
  <2>5. Found(mainq'[d]) \subseteq Found(mainq[d])
    BY <1>0, <2>3, <2>4, FoundAppend
  <2>6. OnlyHere(d)
    BY <1>1, <2>1, <2>2 DEF OnlyHere
  <2>7. \A c \in Found(mainq'[d]) \cup app'[d].reedeemedArr :
            <<Owner[d], c>> \in records' \cup pending'[d] \cup refused'
    BY <1>1, <2>1, <2>5, StatusState
  <2> QED BY <1>0, <1>1, <1>2, <1>3, <2>1, <2>4, <2>6, <2>7, StatusStep
<1>5. CASE FirebaseRead(d)
  <2> DEFINE via == call.via
             r == <<call.u, call.c>>
             there == r \in LocalData(d)
             x == Answer(r, via, there)
             w == [waiting[d] EXCEPT ![r] = Append(@, via)]
  <2>1. call.op = "read" /\ UNCHANGED <<listen, pending>>
    BY <1>5 DEF FirebaseRead, AtHead
  <2>2. r \in Records /\ via \in Askers /\ via # "check" /\ there \in BOOLEAN
    BY <1>2, <2>1 DEF Calls, Records, Askers, Givers
  <2>3. \/ mainq' = [mainq EXCEPT ![d] = Append(mainq[d], x)] /\ UNCHANGED waiting
        \/ waiting' = [waiting EXCEPT ![d] = w] /\ UNCHANGED mainq
    BY <1>5 DEF FirebaseRead
  <2> HIDE DEF call, via, r, there
  <2>4. x \in Callbacks /\ x.op # "check"
    BY <2>2, AnswerType, AnswerOf
  <2>5. WaitsAsk(w, Owner[d])
    <3>1. ASSUME NEW s \in Records, NEW i \in DOMAIN w[s], w[s][i] = "check"
          PROVE  s[1] = Owner[d]
      <4>1. CASE s = r
        <5>1. w[s] = Append(waiting[d][s], via) /\ waiting[d][s] \in Seq(Askers)
          BY <1>0, <4>1
        <5>2. \E j \in DOMAIN waiting[d][s] : waiting[d][s][j] = "check"
          <6> DEFINE q == waiting[d][s]
                     p == w[s]
          <6>1. q \in Seq(Askers) /\ p = Append(q, via) /\ i \in DOMAIN p /\ p[i] # via
            BY <2>2, <3>1, <5>1
          <6> HIDE DEF q, p
          <6>2. i \in DOMAIN q /\ q[i] = p[i]
            BY <6>1
          <6> QED BY <3>1, <6>2 DEF q, p
        <5> QED BY <1>0, <5>2 DEF WaitsAsk
      <4>2. CASE s # r
        <5>1. w[s] = waiting[d][s]
          BY <1>0, <4>2
        <5> QED BY <1>0, <3>1, <5>1 DEF WaitsAsk
      <4> QED BY <4>1, <4>2
    <3> HIDE DEF w
    <3> QED BY <3>1 DEF WaitsAsk
  <2> HIDE DEF x, w
  <2>6. Found(Append(mainq[d], x)) \subseteq Found(mainq[d])
    BY <1>0, <2>4, FoundAppend
  <2>7. CASE mainq' = [mainq EXCEPT ![d] = Append(mainq[d], x)] /\ UNCHANGED waiting
    <3>1. waiting' = [waiting EXCEPT ![d] = waiting[d]] /\ app' = [app EXCEPT ![d] = app[d]]
      BY <1>0, <1>1, <2>7
    <3> QED BY <1>0, <1>1, <1>2, <2>1, <2>6, <2>7, <3>1, StatusQueues
  <2>8. CASE waiting' = [waiting EXCEPT ![d] = w] /\ UNCHANGED mainq
    <3>1. mainq' = [mainq EXCEPT ![d] = mainq[d]] /\ app' = [app EXCEPT ![d] = app[d]]
      BY <1>0, <1>1, <2>8
    <3> QED BY <1>0, <1>1, <1>2, <2>1, <2>5, <2>8, <3>1, StatusQueues
  <2> QED BY <2>3, <2>7, <2>8
<1>6. CASE FirebaseCheck(d)
  <2> DEFINE found == {c \in Coupons : <<call.u, c>> \in LocalData(d)}
             x == [op |-> "check", found |-> found]
             rest == IF found = {} THEN mainq[d] ELSE Push(mainq[d], x)
             w == [r \in Records |->
                      IF r[1] = call.u /\ ~Answerable(d, r)
                      THEN Asked(waiting[d][r]) ELSE waiting[d][r]]
  <2>1. /\ call.op = "check" /\ UNCHANGED <<listen, pending>>
        /\ mainq' = [mainq EXCEPT ![d] = rest] /\ waiting' = [waiting EXCEPT ![d] = w]
        /\ app' = [app EXCEPT ![d] = app[d]]
    BY <1>0, <1>6 DEF FirebaseCheck, AtHead
  <2>2. x \in Callbacks /\ x.op = "check" /\ x.found = found
    BY DEF Callbacks
  <2>3. \A c \in found : <<Owner[d], c>> \in records \cup pending[d]
    <3>1. cache[d] \subseteq records
      BY <1>0, PhoneState DEF CopyIsOld
    <3> QED BY <1>2, <2>1, <3>1 DEF LocalData
  <2>4. WaitsAsk(w, Owner[d])
    <3>1. ASSUME NEW r \in Records, NEW i \in DOMAIN w[r], w[r][i] = "check"
          PROVE  r[1] = Owner[d]
      <4>1. CASE r[1] = call.u
        BY <1>2, <2>1, <4>1
      <4>2. CASE r[1] # call.u
        <5>1. w[r] = waiting[d][r]
          BY <4>2
        <5> QED BY <1>0, <3>1, <5>1 DEF WaitsAsk
      <4> QED BY <4>1, <4>2
    <3> HIDE DEF w
    <3> QED BY <3>1 DEF WaitsAsk
  <2> HIDE DEF x, w, call
  <2>5. Found(rest) \subseteq Found(mainq[d]) \cup found
    <3> HIDE DEF found
    <3> QED BY <1>0, <2>2, FoundAppend
  <2> HIDE DEF found, rest
  <2>6. \A c \in Found(rest) \cup app[d].reedeemedArr :
            \/ c \in Found(mainq[d]) \cup app[d].reedeemedArr
            \/ <<Owner[d], c>> \in records \cup pending[d]
    BY <2>3, <2>5
  <2> QED BY <1>1, <1>2, <2>1, <2>4, <2>6, StatusQueues
<1>7. CASE FirebaseSet(d)
  <2> DEFINE r == <<call.u, call.c>>
             told == TRUE
             p == Answers(d, r, told)
             q == mainq[d] \o p
  <2>1. call.op = "set" /\ SetValue(d, r) /\ RaiseEvents(d, q)
    BY <1>7 DEF FirebaseSet, AtHead
  <2>2. r \in Records
    BY <1>2, <2>1 DEF Calls, Records
  <2>3. /\ pending[d] \subseteq pending'[d] /\ r \in pending'[d]
        /\ \A e \in Devices \ {d} : pending'[e] = pending[e]
        /\ waiting'[d] = [waiting[d] EXCEPT ![r] = <<>>]
        /\ \A e \in Devices \ {d} : waiting'[e] = waiting[e]
        /\ UNCHANGED listen
    <3> HIDE DEF r, p, q
    <3> QED BY <1>0, <2>1 DEF SetValue, TypeOK, ServerTypeOK
  <2>4. /\ p \in Seq(Callbacks)
        /\ \A i \in DOMAIN p :
              i \in DOMAIN waiting[d][r] /\ p[i] = Answer(r, waiting[d][r][i], told)
    <3>1. told \in BOOLEAN
      OBVIOUS
    <3> HIDE DEF r, told
    <3> QED BY <1>0, <2>2, <3>1, AnswersElements
  <2>5. \A c \in Found(p) : <<Owner[d], c>> \in records' \cup pending'[d]
    <3> HIDE DEF p, r
    <3>1. \A i \in DOMAIN p :
              \E s \in Records : \E j \in DOMAIN waiting[d][s] : \E there \in BOOLEAN :
                  /\ p[i] = Answer(s, waiting[d][s][j], there)
                  /\ there => s \in records' \cup pending'[d]
      BY <2>2, <2>3, <2>4
    <3> QED BY <2>4, <3>1, WaitsFound
  <2>6. q \in Seq(Callbacks) /\ Found(q) \subseteq Found(mainq[d]) \cup Found(p)
    <3> HIDE DEF p
    <3> QED BY <1>0, <2>4, FoundConcat
  <2> HIDE DEF call, p, q
  <2>7. /\ Found(mainq'[d]) \subseteq Found(q)
        /\ \A e \in Devices \ {d} : mainq'[e] = mainq[e]
    BY <1>0, <2>1, <2>6, EventsStatus
  <2>8. WaitsAsk(waiting'[d], Owner[d])
    <3> HIDE DEF r
    <3>1. ASSUME NEW s \in Records
          PROVE  waiting'[d][s] = waiting[d][s] \/ DOMAIN waiting'[d][s] = {}
      BY <1>0, <2>3
    <3> QED BY <1>0, <3>1 DEF WaitsAsk
  <2>9. OnlyHere(d)
    BY <1>1, <2>3 DEF OnlyHere
  <2>10. \A c \in Found(mainq'[d]) \cup app'[d].reedeemedArr :
             <<Owner[d], c>> \in records' \cup pending'[d] \cup refused'
    BY <1>1, <2>3, <2>5, <2>6, <2>7, StatusState
  <2> HIDE DEF r
  <2> QED BY <1>1, <1>2, <1>3, <2>7, <2>8, <2>9, <2>10, StatusStep
<1> QED BY <1>4, <1>5, <1>6, <1>7 DEF FirebaseStep

\* A key appended to reedeemedArr is no coupon.
LEMMA RedeemStatus ==
    ASSUME NamesApart, StatusInv, DeskInv', OneAccount, NEW d \in Devices, Redeem(d)
    PROVE  StatusInv'
<1> DEFINE c == Head(mainq[d]).c
           via == Head(mainq[d]).via
           x == [op |-> "set", u |-> user[d], c |-> c]
           a == TokenAppended(app[d])
           b == Present(a, via, "other")
<1>0. /\ DeskInv /\ TypeOK /\ fbq[d] \in Seq(Calls) /\ mainq[d] \in Seq(Callbacks)
      /\ CallsAsk(fbq[d], Owner[d]) /\ WaitsAsk(waiting[d], Owner[d])
      /\ app[d] \in AppMemory /\ waiting = [waiting EXCEPT ![d] = waiting[d]]
  BY StatusState
<1>1. mainq[d] # <<>> /\ Head(mainq[d]).op = "read"
  BY DEF Redeem, AtHead
<1>2. CASE Terminate(d, "crashed")
  BY <1>2, DeathStatus
<1>3. CASE ~Terminate(d, "crashed")
  <2>1. /\ user[d] # NoUser
        /\ fbq' = [fbq EXCEPT ![d] = Append(fbq[d], x)]
        /\ app' = [app EXCEPT ![d] = b]
        /\ mainq' = [mainq EXCEPT ![d] = Tail(@)]
        /\ UNCHANGED dbVars
    BY <1>3, Zenon DEF Redeem
  <2>2. c \in Coupons
    <3>1. Head(mainq[d]) \in Callbacks
      BY <1>0, <1>1, TailElements
    <3> QED BY <1>1, <3>1 DEF Callbacks
  <2>3. x \in Calls /\ x.op # "check"
    BY <1>0, <2>1, <2>2 DEF Calls, TypeOK
  <2>4. b.reedeemedArr = app[d].reedeemedArr
    <3>1. {app[d].token} \cap Coupons = {}
      BY <1>0 DEF AppMemory, NamesApart
    <3>2. a \in AppMemory /\ a.reedeemedArr = app[d].reedeemedArr
      BY <1>0, <3>1 DEF TokenAppended, AppMemory
    <3> HIDE DEF a
    <3> QED BY <3>2, PresentType DEF Alerts
  <2> HIDE DEF x, b, c
  <2>5. CallsAsk(Append(fbq[d], x), Owner[d])
    BY <1>0, <2>3, AskAppend
  <2>6. Found(Tail(mainq[d])) \subseteq Found(mainq[d])
    BY <1>0, <1>1, FoundTail
  <2>7. /\ mainq' = [mainq EXCEPT ![d] = Tail(mainq[d])]
        /\ waiting' = [waiting EXCEPT ![d] = waiting[d]]
        /\ UNCHANGED <<records, listen, cache, pending, refused>>
    BY <1>0, <2>1 DEF dbVars
  <2> QED BY <1>0, <2>1, <2>4, <2>5, <2>6, <2>7, StatusQueues
<1> QED BY <1>2, <1>3

\* What a check() has found moves from the queue to reedeemedArr.
LEMMA MainStatus ==
    ASSUME NamesApart, StatusInv, DeskInv', OneAccount, NEW d \in Devices, MainStep(d)
    PROVE  StatusInv'
<1> DEFINE x == Head(mainq[d])
           rest == Tail(mainq[d])
<1>0. /\ DeskInv /\ TypeOK /\ fbq[d] \in Seq(Calls) /\ mainq[d] \in Seq(Callbacks)
      /\ CallsAsk(fbq[d], Owner[d]) /\ WaitsAsk(waiting[d], Owner[d])
      /\ app[d] \in AppMemory
      /\ fbq = [fbq EXCEPT ![d] = fbq[d]] /\ waiting = [waiting EXCEPT ![d] = waiting[d]]
  BY StatusState
<1>1. mainq[d] # <<>>
  BY DEF MainStep, AlreadyRedeemed, Redeem, Checked, Scannables, AtHead
<1>2. /\ x \in Callbacks /\ rest \in Seq(Callbacks) /\ Found(rest) \subseteq Found(mainq[d])
      /\ x.op = "check" => x.found \subseteq Found(mainq[d])
  BY <1>0, <1>1, TailElements, FoundTail
<1>3. CASE AlreadyRedeemed(d)
  <2> DEFINE b == Present(app[d], x.via, "other")
  <2>1. b.reedeemedArr = app[d].reedeemedArr
    BY <1>0, PresentType DEF Alerts
  <2>2. /\ app' = [app EXCEPT ![d] = b] /\ mainq' = [mainq EXCEPT ![d] = rest]
        /\ UNCHANGED <<records, listen, cache, pending, refused, waiting, fbq>>
    BY <1>3 DEF AlreadyRedeemed, dbVars
  <2> HIDE DEF b, rest, x
  <2>3. fbq' = [fbq EXCEPT ![d] = fbq[d]] /\ waiting' = [waiting EXCEPT ![d] = waiting[d]]
    BY <1>0, <2>2
  <2> QED BY <1>0, <1>2, <2>1, <2>2, <2>3, StatusQueues
<1>4. CASE Checked(d)
  <2> DEFINE b == [app[d] EXCEPT !.reedeemedArr = @ \cup x.found]
  <2>1. /\ x.op = "check"
        /\ app' = [app EXCEPT ![d] = b]
        /\ mainq' = [mainq EXCEPT ![d] = rest]
        /\ UNCHANGED <<records, listen, cache, pending, refused, waiting, fbq>>
    BY <1>0, <1>4 DEF Checked, AtHead, dbVars, TypeOK
  <2>2. b.reedeemedArr = app[d].reedeemedArr \cup x.found
    BY <1>0 DEF AppMemory
  <2> HIDE DEF x, rest, b
  <2>3. fbq' = [fbq EXCEPT ![d] = fbq[d]] /\ waiting' = [waiting EXCEPT ![d] = waiting[d]]
    BY <1>0, <2>1
  <2> QED BY <1>0, <1>2, <2>1, <2>2, <2>3, StatusQueues
<1>5. CASE Scannables(d)
  <2> DEFINE a == [app[d] EXCEPT !.listed = TRUE]
  <2>1. check(d, a, fbq[d], rest, waiting[d]) /\ a.reedeemedArr = app[d].reedeemedArr
    BY <1>0, <1>5 DEF Scannables, AppMemory
  <2> HIDE DEF a
  <2> QED BY <1>0, <1>2, <2>1, CheckStatus
<1> QED BY <1>3, <1>4, <1>5, RedeemStatus DEF MainStep

\* With a list, or alone, come the answers to the check()s that waited.
LEMMA AnswersStatus ==
    ASSUME StatusInv, NEW d \in Devices,
           Listened(d) \/ \E r \in Records : ReadReturned(d, r)
    PROVE  /\ \A c \in Found(mainq'[d]) :
                 c \in Found(mainq[d]) \/ <<Owner[d], c>> \in records' \cup pending'[d]
           /\ \A e \in Devices \ {d} : mainq'[e] = mainq[e]
<1>0. /\ DeskInv /\ TypeOK /\ mainq[d] \in Seq(Callbacks)
      /\ mainq \in [Devices -> Seq(Callbacks)]
  BY StatusState DEF TypeOK
<1>u. \A r : r \in Current(d) => r \in records' \cup pending'[d]
  BY DEF Listened, ListenAnswered, ReadReturned, ReadAnswered, Current
<1>1. CASE Listened(d)
  <2> DEFINE x == [op |-> "scannables"]
  <2>1. PICK n \in 0..Cardinality(Reads(d)) :
            \E order \in Bijection(1..n, Reads(d)) :
                mainq' = [mainq EXCEPT ![d] = Push(@ \o ListenedReads(d, n, order), x)]
    BY <1>1, Zenon DEF Listened, ListenedReads
  <2>2. PICK order \in Bijection(1..n, Reads(d)) :
            mainq' = [mainq EXCEPT ![d] = Push(@ \o ListenedReads(d, n, order), x)]
    BY <2>1
  <2>3. n \in Nat /\ order \in [1..n -> Reads(d)]
    BY DEF Bijection, Injection, Surjection
  <2> DEFINE p == ListenedReads(d, n, order)
  <2>4. /\ p \in Seq(Callbacks)
        /\ \A i \in DOMAIN p :
               \E r \in Records : \E j \in DOMAIN waiting[d][r] :
                   p[i] = Answer(r, waiting[d][r][j], r \in Current(d))
    BY <1>0, <2>3, ListenedElements
  <2>5. /\ mainq'[d] = Push(mainq[d] \o p, x)
        /\ \A e \in Devices \ {d} : mainq'[e] = mainq[e]
    BY <1>0, <2>2
  <2>6. x \in Callbacks /\ x.op # "check"
    BY DEF Callbacks
  <2> HIDE DEF p, x
  <2>7. \A c \in Found(p) : <<Owner[d], c>> \in records' \cup pending'[d]
    <3>1. ASSUME NEW i \in DOMAIN p
          PROVE  \E r \in Records : \E j \in DOMAIN waiting[d][r] : \E there \in BOOLEAN :
                     /\ p[i] = Answer(r, waiting[d][r][j], there)
                     /\ there => r \in records' \cup pending'[d]
      <4>1. PICK r \in Records :
                \E j \in DOMAIN waiting[d][r] :
                    p[i] = Answer(r, waiting[d][r][j], r \in Current(d))
        BY <2>4
      <4> DEFINE known == r \in Current(d)
      <4>2. known \in BOOLEAN /\ (known => r \in records' \cup pending'[d])
        BY <1>u
      <4>3. \E j \in DOMAIN waiting[d][r] : p[i] = Answer(r, waiting[d][r][j], known)
        BY <4>1
      <4> HIDE DEF known
      <4> QED BY <4>2, <4>3
    <3> QED BY <2>4, <3>1, WaitsFound
  <2>8. /\ mainq[d] \o p \in Seq(Callbacks)
        /\ Found(mainq[d] \o p) \subseteq Found(mainq[d]) \cup Found(p)
    BY <1>0, <2>4, FoundConcat
  <2>9. Found(mainq'[d]) \subseteq Found(mainq[d]) \cup Found(p)
    BY <2>5, <2>6, <2>8, FoundAppend
  <2> QED BY <2>5, <2>7, <2>9
<1>2. ASSUME NEW r \in Records, ReadReturned(d, r)
      PROVE  /\ \A c \in Found(mainq'[d]) :
                   \/ c \in Found(mainq[d])
                   \/ <<Owner[d], c>> \in records' \cup pending'[d]
             /\ \A e \in Devices \ {d} : mainq'[e] = mainq[e]
  <2> DEFINE there == r \in Current(d)
             p == Answers(d, r, there)
  <2>1. mainq' = [mainq EXCEPT ![d] = @ \o p] \/ UNCHANGED mainq
    BY <1>2 DEF ReadReturned
  <2>2. /\ p \in Seq(Callbacks) /\ there \in BOOLEAN
        /\ \A i \in DOMAIN p : /\ i \in DOMAIN waiting[d][r]
                               /\ p[i] = Answer(r, waiting[d][r][i], there)
    <3>1. there \in BOOLEAN
      OBVIOUS
    <3> HIDE DEF there
    <3> QED BY <1>0, <3>1, AnswersElements
  <2>3. there => r \in records' \cup pending'[d]
    BY <1>u
  <2>4. CASE UNCHANGED mainq
    BY <2>4
  <2>5. CASE mainq' = [mainq EXCEPT ![d] = @ \o p]
    <3> HIDE DEF p, there
    <3>1. \A c \in Found(p) : <<Owner[d], c>> \in records' \cup pending'[d]
      <4>1. \A i \in DOMAIN p :
                \E s \in Records : \E j \in DOMAIN waiting[d][s] : \E b \in BOOLEAN :
                    /\ p[i] = Answer(s, waiting[d][s][j], b)
                    /\ b => s \in records' \cup pending'[d]
        BY <2>2, <2>3
      <4> QED BY <2>2, <4>1, WaitsFound
    <3>2. Found(mainq[d] \o p) \subseteq Found(mainq[d]) \cup Found(p)
      BY <1>0, <2>2, FoundConcat
    <3>3. /\ mainq'[d] = mainq[d] \o p
          /\ \A e \in Devices \ {d} : mainq'[e] = mainq[e]
      BY <1>0, <2>5
    <3> QED BY <3>1, <3>2, <3>3
  <2> QED BY <2>1, <2>4, <2>5
<1> QED BY <1>1, <1>2

\* A write is struck off when its record is on the server, or as refused.
LEMMA NetworkStatus ==
    ASSUME StatusInv, DeskInv', OneAccount, NEW d \in Devices, NetworkStep(d)
    PROVE  StatusInv'
<1>0. /\ DeskInv /\ TypeOK /\ ServerTypeOK(Askers) /\ mainq[d] \in Seq(Callbacks)
      /\ CallsAsk(fbq[d], Owner[d]) /\ WaitsAsk(waiting[d], Owner[d])
  BY StatusState
<1>1. UNCHANGED <<app, fbq>>
  BY DEF NetworkStep, Listened, Cancelled, ReadReturned
<1>2. /\ \/ ListenAnswered(d) \/ ListenLost(d)
         \/ \E r \in Records : \/ ReadAnswered(d, r)
                               \/ DataUpdate(d, r) \/ ServerPut(d, r)
                               \/ AckWrite(d, r) \/ RevertWrite(d, r)
      /\ OnlyHere(d) /\ records \subseteq records'
      /\ \A r \in Records : waiting'[d][r] \in {waiting[d][r], <<>>}
  <2>1. \/ ListenAnswered(d) \/ ListenLost(d)
        \/ \E r \in Records : \/ ReadAnswered(d, r)
                              \/ DataUpdate(d, r) \/ ServerPut(d, r)
                              \/ AckWrite(d, r) \/ RevertWrite(d, r)
    BY DEF NetworkStep, Listened, Cancelled, ReadReturned
  <2> QED BY <1>0, <2>1, ServerStep
<1>3. WaitsAsk(waiting'[d], Owner[d])
  <2>1. ASSUME NEW r \in Records
        PROVE  waiting'[d][r] = waiting[d][r] \/ DOMAIN waiting'[d][r] = {}
    BY <1>2
  <2> QED BY <1>0, <2>1 DEF WaitsAsk
<1>4. /\ refused \subseteq refused'
      /\ records \cup pending[d] \cup refused \subseteq records' \cup pending'[d] \cup refused'
  <2>1. CASE ListenAnswered(d) \/ ListenLost(d) \/ \E r \in Records : ReadAnswered(d, r)
    BY <2>1 DEF ListenAnswered, ListenLost, ReadAnswered
  <2>2. ASSUME NEW r \in Records, DataUpdate(d, r) \/ ServerPut(d, r)
        PROVE  UNCHANGED <<pending, refused>>
    BY <2>2 DEF DataUpdate, ServerPut
  <2>3. ASSUME NEW r \in Records, AckWrite(d, r)
        PROVE  UNCHANGED refused /\ pending'[d] = pending[d] \ {r} /\ r \in records
    BY <1>0, <2>3 DEF AckWrite, ServerTypeOK
  <2>4. ASSUME NEW r \in Records, RevertWrite(d, r)
        PROVE  refused' = refused \cup {r} /\ pending'[d] = pending[d] \ {r}
    BY <1>0, <2>4 DEF RevertWrite, ServerTypeOK
  <2> QED BY <1>2, <2>1, <2>2, <2>3, <2>4
<1>5. /\ \A c \in Found(mainq'[d]) :
            c \in Found(mainq[d]) \/ <<Owner[d], c>> \in records' \cup pending'[d]
      /\ \A e \in Devices \ {d} : mainq'[e] = mainq[e]
  <2>1. CASE Listened(d) \/ \E r \in Records : ReadReturned(d, r)
    BY <2>1, AnswersStatus
  <2>2. CASE Cancelled(d)
    BY <2>2 DEF Cancelled
  <2>3. CASE RaiseEvents(d, mainq[d])
    BY <1>0, <2>3, EventsStatus
  <2> QED BY <2>1, <2>2, <2>3 DEF NetworkStep
<1>6. \A c \in Found(mainq'[d]) \cup app'[d].reedeemedArr :
          <<Owner[d], c>> \in records' \cup pending'[d] \cup refused'
  <2>1. \A c \in Found(mainq[d]) \cup app[d].reedeemedArr :
            <<Owner[d], c>> \in records \cup pending[d] \cup refused
    BY StatusState
  <2>2. app'[d] = app[d]
    BY <1>1
  <2> QED BY <1>4, <1>5, <2>1, <2>2
<1> QED BY <1>0, <1>1, <1>2, <1>3, <1>4, <1>5, <1>6, StatusStep

-----------------------------------------------------------------------------
(* The specification. *)

\* At first nothing is asked, found or shown.
LEMMA InitStatus == Init => StatusInv
<1> SUFFICES ASSUME Init PROVE StatusInv
  OBVIOUS
<1>1. DeskInv
  BY InitInv
<1>2. ASSUME NEW d \in Devices PROVE StatusOf(d)
  <2>1. /\ user[d] = NoUser /\ app[d].reedeemedArr = {}
        /\ DOMAIN fbq[d] = {} /\ DOMAIN mainq[d] = {}
        /\ \A r \in Records : DOMAIN waiting[d][r] = {}
    BY NoReadsType DEF Init, DatabaseInit, Started
  <2>2. Found(mainq[d]) = {} /\ AskedForOwner(d)
    BY <2>1 DEF Found, AskedForOwner
  <2> QED BY <2>1, <2>2 DEF StatusOf
<1> QED BY <1>1, <1>2 DEF StatusInv

\* Every step of PersonalSpec keeps it.
LEMMA NextStatus == NamesApart /\ StatusInv /\ [Next /\ OneAccount]_vars => StatusInv'
<1> SUFFICES ASSUME NamesApart, StatusInv, [Next /\ OneAccount]_vars PROVE StatusInv'
  OBVIOUS
<1>1. DeskInv'
  BY NextInv DEF StatusInv
<1>2. CASE Next /\ OneAccount
  BY <1>1, <1>2, UserStatus, FirebaseStatus, MainStatus, NetworkStatus DEF Next
<1>3. CASE UNCHANGED vars
  <2>1. UNCHANGED <<records, pending, waiting, refused, user, app, fbq, mainq>>
    BY <1>3 DEF vars
  <2>2. ASSUME NEW d \in Devices PROVE StatusOf(d)'
    <3>1. StatusOf(d)
      BY DEF StatusInv
    <3>2. AskedForOwner(d)'
      BY <2>1, <3>1 DEF StatusOf, AskedForOwner
    <3> QED BY <2>1, <3>1, <3>2 DEF StatusOf, Found, Current
  <2> QED BY <1>1, <2>2 DEF StatusInv
<1> QED BY <1>2, <1>3

\* While each phone has one account, what check() has found on its way to
\* reedeemedArr, and what reedeemedArr holds, that account has redeemed: the
\* record is on the server, or still a write of the phone, or was refused.
THEOREM StatusInvariant ==
    ASSUME NamesApart
    PROVE  PersonalSpec => []StatusInv
BY InitStatus, NextStatus, PTL DEF PersonalSpec

\* While each phone has one account, a coupon shown as "Redeemed" was redeemed
\* by the account that is signed in, or its redemption was refused: reedeemedArr
\* is filled by callbacks that outlive the screen, the session and the listen,
\* and is never emptied.
THEOREM StatusIsOwn ==
    ASSUME NamesApart
    PROVE  PersonalSpec => []RedeemedStatusIsOwn
<1>1. StatusInv => RedeemedStatusIsOwn
  BY DEF StatusInv, StatusOf, RedeemedStatusIsOwn
<1> QED BY <1>1, StatusInvariant, PTL

\* An event with one account and one phone needs no discipline for it.
THEOREM StatusOfOneAccountIsOwn ==
    ASSUME NamesApart, \A d \in Devices : \A u \in Users : u = Owner[d]
    PROVE  Spec => []RedeemedStatusIsOwn
<1>1. DeskInv' => OneAccount
  BY DEF DeskInv, TypeOK, OneAccount
<1>2. StatusInv /\ [Next]_vars => StatusInv'
  <2>1. StatusInv => DeskInv
    BY DEF StatusInv
  <2>2. DeskInv /\ [Next]_vars => DeskInv'
    BY NextInv
  <2> QED BY <1>1, <2>1, <2>2, NextStatus
<1>3. StatusInv => RedeemedStatusIsOwn
  BY DEF StatusInv, StatusOf, RedeemedStatusIsOwn
<1> QED BY <1>2, <1>3, InitStatus, PTL DEF Spec
=============================================================================
