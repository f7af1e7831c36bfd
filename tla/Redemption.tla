----------------------------- MODULE Redemption -----------------------------
(***************************************************************************)
(* Redeeming food coupons: FoodCouponsVC, validateToken, someThingWrongVC  *)
(* and the part of BottomMenuVC and AppDelegate that decides who is signed *)
(* in while they run, on every phone of the event, over the Realtime       *)
(* Database.                                                               *)
(*                                                                         *)
(* Calls into Firebase are queued on the SDK's serial queue (fbq), and its *)
(* callbacks on the main queue (mainq), so the app goes on handling taps   *)
(* and sounds between a read and its callback, between the callback and    *)
(* the write it issues, and between the write and its acknowledgement.     *)
(***************************************************************************)
EXTENDS RealtimeDatabase, FiniteSets, Functions

CONSTANTS
    Keys,        \* keys that speakers play or organizers type
    NoKey,       \* ""
    NoCoupon,    \* "" in currentT
    NoUser,      \* Auth.auth().currentUser is nil
    KeyOf,       \* scannableKey of a coupon; NoKey when the field is missing
    MaxQueue,    \* bound: no new user input while this many calls are queued
    MaxServed    \* bound: successes counted per record

ASSUME KeysAssumption ==
    /\ NoKey \notin Keys
    /\ KeyOf \in [Coupons -> Keys \cup {NoKey}]
ASSUME NamesAssumption ==
    /\ NoCoupon \notin Coupons
    /\ NoUser \notin Users
ASSUME BoundsAssumption == MaxQueue \in Nat /\ MaxServed \in Nat

VARIABLES
    proc,        \* proc[d]: "running", "killed" or "crashed"
    user,        \* user[d]: Auth's currentUser (in the keychain)
    status,      \* status[d]: UserDefaults "status"
    app,         \* app[d]: screen, globals and table of the running app
    fbq,         \* fbq[d]: calls waiting on the SDK's serial queue
    mainq,       \* mainq[d]: callbacks waiting on the main queue
    heard,       \* history: the keys received on d that matched
    served       \* history: how often a success was shown for a record

appVars == <<proc, user, status, app, fbq, mainq, heard, served>>
vars == <<records, listen, cache, pending, waiting, refused,
          proc, user, status, app, fbq, mainq, heard, served>>

Screens == {"login", "elsewhere", "coupons", "menu", "wrong"}
Alerts == {"none", "redeemed", "other"}  \* "redeemed" is AppDelegate.swift:183
Givers == {"coupons", "wrong", "gone"}   \* validateToken's viewController

AppMemory ==
    [screen : Screens,
     message : Alerts,                   \* the alert on the screen
     listening : BOOLEAN,                \* chirp is running
     k : {0, 1},                         \* a row has been tapped
     token : Keys \cup {NoKey},
     currentT : Coupons \cup {NoCoupon},
     listed : BOOLEAN,                   \* typeArr, tokenArr, ... are filled
     reedeemedArr : SUBSET Coupons]      \* the coupons in that array

Askers == Givers \cup {"check"}           \* who waits for an answer

Calls ==
    [op : {"read"}, u : Users, c : Coupons, via : Givers]
        \cup [op : {"check"}, u : Users]
        \cup [op : {"set"}, u : Users, c : Coupons]
        \cup [op : {"observe"}]

Callbacks ==
    [op : {"read"}, c : Coupons, exists : BOOLEAN, via : Givers]
        \cup [op : {"check"}, found : SUBSET Coupons]
        \cup [op : {"scannables"}]

TypeOK ==
    /\ ServerTypeOK(Askers)
    /\ proc \in [Devices -> {"running", "killed", "crashed"}]
    /\ user \in [Devices -> Users \cup {NoUser}]
    /\ status \in [Devices -> BOOLEAN]
    /\ app \in [Devices -> AppMemory]
    /\ fbq \in [Devices -> Seq(Calls)]
    /\ mainq \in [Devices -> Seq(Callbacks)]
    /\ heard \in [Devices -> SUBSET (Keys \cup {NoKey})]
    /\ served \in [Records -> Nat]

\* A process that has shown its first screen; also the memory of a dead one.
Started(screen) ==
    [screen |-> screen, message |-> "none", listening |-> FALSE, k |-> 0,
     token |-> NoKey, currentT |-> NoCoupon, listed |-> FALSE,
     reedeemedArr |-> {}]

Init ==
    /\ DatabaseInit
    /\ proc = [d \in Devices |-> "running"]
    /\ user = [d \in Devices |-> NoUser]
    /\ status = [d \in Devices |-> FALSE]
    /\ app = [d \in Devices |-> Started("login")]
    /\ fbq = [d \in Devices |-> <<>>]
    /\ mainq = [d \in Devices |-> <<>>]
    /\ heard = [d \in Devices |-> {}]
    /\ served = [r \in Records |-> 0]

-----------------------------------------------------------------------------
(* The two queues and the death of a process *)

Running(d) == proc[d] = "running"
Room(d) == Len(fbq[d]) + Len(mainq[d]) + Cardinality(Reads(d)) < MaxQueue

\* The user can touch the screen s of d: no alert covers it.
At(d, s) == Running(d) /\ app[d].screen = s /\ app[d].message = "none"

\* Two equal neighbours that only refresh have the effect of one.
Push(q, x) ==
    IF x.op \in {"check", "scannables"} /\ q # <<>> /\ q[Len(q)] = x
    THEN q ELSE Append(q, x)

\* Validations begun on screen s, when that controller is gone.
Orphan(q, s) ==
    [i \in DOMAIN q |->
        IF q[i].op = "read" /\ q[i].via = s
        THEN [q[i] EXCEPT !.via = "gone"] ELSE q[i]]
OrphanReads(reads, s) ==
    [r \in Records |->
        [i \in DOMAIN reads[r] |->
            IF reads[r][i] = s THEN "gone" ELSE reads[r][i]]]

\* What dies with the process: everything that is not on disk.
Terminate(d, how) ==
    /\ proc' = [proc EXCEPT ![d] = how]
    /\ app' = [app EXCEPT ![d] = Started("login")]
    /\ fbq' = [fbq EXCEPT ![d] = <<>>]
    /\ mainq' = [mainq EXCEPT ![d] = <<>>]
    /\ ForgetClient(d)
    /\ UNCHANGED <<user, status, heard, served>>

\* present(alert): only a visible controller that presents nothing else can.
Present(a, via, alert) ==
    IF a.screen = via /\ a.message = "none"
    THEN [a EXCEPT !.message = alert] ELSE a

-----------------------------------------------------------------------------
(* FoodCouponsVC *)

\* viewDidLoad and get(): clear the table, register one more observer.
\* check() in viewDidAppear then reads nothing, or, if the observer fills the
\* table before the transition ends, what Scannables has just read.
VisitCoupons(d) ==
    /\ At(d, "elsewhere") \/ At(d, "menu")
    /\ Room(d)
    /\ app' = [app EXCEPT ![d].screen = "coupons", ![d].k = 0,
                          ![d].listed = FALSE]
    /\ fbq' = [fbq EXCEPT ![d] =
                 Append(Orphan(@, "coupons"), [op |-> "observe"])]
    /\ mainq' = [mainq EXCEPT ![d] = Orphan(@, "coupons")]
    /\ waiting' = [waiting EXCEPT ![d] = OrphanReads(@, "coupons")]
    /\ UNCHANGED <<records, listen, cache, pending, refused,
                   proc, user, status, heard, served>>

\* check(), with a the app's memory, calls and rest the two queues and reads
\* what waits when it is called: one read per listed coupon, all below the
\* node of currentUser!.
check(d, a, calls, rest, reads) ==
    \/ /\ a.listed => user[d] # NoUser
       /\ app' = [app EXCEPT ![d] = a]
       /\ mainq' = [mainq EXCEPT ![d] = rest]
       /\ fbq' = [fbq EXCEPT ![d] =
                    IF a.listed THEN Push(calls, [op |-> "check", u |-> user[d]])
                                ELSE calls]
       /\ waiting' = [waiting EXCEPT ![d] = reads]
       /\ UNCHANGED <<records, listen, cache, pending, refused,
                      proc, user, status, heard, served>>
    \/ /\ a.listed /\ user[d] = NoUser
       /\ Terminate(d, "crashed")

\* (mutants) every tap selects; the token of the first selection is kept
SelectedByEveryTap(a, c) ==
    [a EXCEPT !.k = @ + 1, !.token = KeyOf[c], !.currentT = c]
SelectedWithOldToken(a, c) ==
    IF a.k = 0
    THEN [a EXCEPT !.k = 1, !.token = IF @ = NoKey THEN KeyOf[c] ELSE @,
                   !.currentT = IF c \in a.reedeemedArr THEN NoCoupon ELSE c]
    ELSE [a EXCEPT !.k = 0, !.currentT = NoCoupon]

\* didSelectRowAt a row of coupon c; the second tap only clears.
Selected(a, c) ==
    IF a.k = 0
    THEN [a EXCEPT !.k = 1, !.token = KeyOf[c],
                   !.currentT = IF c \in a.reedeemedArr THEN NoCoupon ELSE c]
    ELSE [a EXCEPT !.k = 0, !.token = NoKey, !.currentT = NoCoupon]

SelectRow(d, c) ==
    /\ At(d, "coupons") /\ app[d].listed
    /\ app' = [app EXCEPT ![d] = Selected(@, c)]
    /\ UNCHANGED <<dbVars, proc, user, status, fbq, mainq, heard, served>>

MicButton(d) ==
    /\ At(d, "coupons")
    /\ app' = [app EXCEPT ![d].listening = ~@]
    /\ UNCHANGED <<dbVars, proc, user, status, fbq, mainq, heard, served>>

\* (mutant) any key will do once a coupon is selected
VerdictOfAnyKey(a, key) ==
    IF key # NoKey /\ a.currentT # NoCoupon THEN "match" ELSE "other"

\* What validateToken finds in the globals when key has just been received.
Verdict(a, key) ==
    IF key # NoKey /\ a.currentT # NoCoupon
    THEN IF a.token # NoKey /\ a.token = key THEN "match" ELSE "other"
    ELSE IF key = NoKey THEN "other" ELSE "redeemed"

\* validateToken(viewController: via), with a the app's memory at the call.
validateToken(d, a, key, via) ==
    \/ /\ Verdict(a, key) = "match" /\ user[d] # NoUser
       /\ app' = [app EXCEPT ![d] = a]
       /\ fbq' = [fbq EXCEPT ![d] = Append(@,
                    [op |-> "read", u |-> user[d], c |-> a.currentT,
                     via |-> via])]
       /\ heard' = [heard EXCEPT ![d] = @ \cup {key}]
       /\ UNCHANGED <<dbVars, proc, user, status, mainq, served>>
    \/ /\ Verdict(a, key) = "match" /\ user[d] = NoUser     \* currentUser!
       /\ Terminate(d, "crashed")
    \/ /\ Verdict(a, key) # "match"
       /\ app' = [app EXCEPT ![d] = Present(a, via, Verdict(a, key))]
       /\ UNCHANGED <<dbVars, proc, user, status, fbq, mainq, heard, served>>

\* chirp's receivedBlock; bytes that are not ASCII give "".
DataReceived(d, key) ==
    /\ Running(d) /\ app[d].listening
    /\ Room(d)
    /\ validateToken(d, [app[d] EXCEPT !.listening = FALSE], key, "coupons")

-----------------------------------------------------------------------------
(* someThingWrongVC *)

SomethingWrong(d) ==
    /\ At(d, "coupons")
    /\ app' = [app EXCEPT ![d].screen = "wrong"]
    /\ UNCHANGED <<dbVars, proc, user, status, fbq, mainq, heard, served>>

\* The coupons appear again; on iOS versions whose default presentation had
\* taken them off the screen viewDidAppear calls check().
BackButtonPressed(d) ==
    LET back == [app[d] EXCEPT !.screen = "coupons"]
        rest == Orphan(mainq[d], "wrong")
        calls == Orphan(fbq[d], "wrong")
        reads == OrphanReads(waiting[d], "wrong")
    IN  /\ At(d, "wrong") /\ Room(d)
        /\ \/ check(d, back, calls, rest, reads)
           \/ /\ app' = [app EXCEPT ![d] = back]
              /\ fbq' = [fbq EXCEPT ![d] = calls]
              /\ mainq' = [mainq EXCEPT ![d] = rest]
              /\ waiting' = [waiting EXCEPT ![d] = reads]
              /\ UNCHANGED <<records, listen, cache, pending, refused,
                             proc, user, status, heard, served>>

AdminBypassAdd(d, key) ==
    /\ At(d, "wrong")
    /\ Room(d)
    /\ validateToken(d, app[d], key, "wrong")

WrongPassword(d) ==
    /\ At(d, "wrong")
    /\ app' = [app EXCEPT ![d] = Present(@, "wrong", "other")]
    /\ UNCHANGED <<dbVars, proc, user, status, fbq, mainq, heard, served>>

DismissAlert(d) ==
    /\ Running(d) /\ app[d].message # "none"
    /\ app' = [app EXCEPT ![d].message = "none"]
    /\ UNCHANGED <<dbVars, proc, user, status, fbq, mainq, heard, served>>

-----------------------------------------------------------------------------
(* BottomMenuVC; over a screen other than the coupons it is not shown *)

HandleTap(d) ==
    /\ At(d, "coupons")
    /\ app' = [app EXCEPT ![d].screen = "menu", ![d].listening = FALSE]
    /\ UNCHANGED <<dbVars, proc, user, status, fbq, mainq, heard, served>>

DownButton(d) ==
    /\ At(d, "menu")
    /\ app' = [app EXCEPT ![d].screen = "coupons"]
    /\ UNCHANGED <<dbVars, proc, user, status, fbq, mainq, heard, served>>

VisitOther(d) ==
    /\ At(d, "menu")
    /\ app' = [app EXCEPT ![d].screen = "elsewhere"]
    /\ UNCHANGED <<dbVars, proc, user, status, fbq, mainq, heard, served>>

\* The globals, the observers and the calls in flight outlive the session; if
\* signOut fails, only status has changed.
Logout(d) ==
    /\ At(d, "menu") \/ At(d, "elsewhere")
    /\ status' = [status EXCEPT ![d] = FALSE]
    /\ \/ /\ user' = [user EXCEPT ![d] = NoUser]
          /\ app' = [app EXCEPT ![d].screen = "login"]
       \/ UNCHANGED <<user, app>>
    /\ UNCHANGED <<dbVars, proc, fbq, mainq, heard, served>>

\* A sign-in that ends on the agenda (module Session has its steps).
Login(d, u) ==
    /\ At(d, "login")
    /\ status' = [status EXCEPT ![d] = TRUE]
    /\ user' = [user EXCEPT ![d] = u]
    /\ app' = [app EXCEPT ![d].screen = "elsewhere"]
    /\ UNCHANGED <<dbVars, proc, fbq, mainq, heard, served>>

\* signOutIfTokenIsInvalid: the account was disabled, removed or its password
\* changed elsewhere; the SDK forgets the user, the app is not told.
SignOutIfTokenIsInvalid(d) ==
    /\ Running(d) /\ user[d] # NoUser
    /\ user' = [user EXCEPT ![d] = NoUser]
    /\ UNCHANGED <<dbVars, proc, status, app, fbq, mainq, heard, served>>

Kill(d) ==
    /\ Running(d)
    /\ Terminate(d, "killed")

\* didFinishLaunchingWithOptions asks only UserDefaults who is signed in.
Launch(d) ==
    /\ ~Running(d)
    /\ proc' = [proc EXCEPT ![d] = "running"]
    /\ app' = [app EXCEPT ![d] =
                 Started(IF status[d] THEN "elsewhere" ELSE "login")]
    /\ UNCHANGED <<dbVars, user, status, fbq, mainq, heard, served>>
-----------------------------------------------------------------------------
(* The SDK's serial queue *)

AtHead(q, op) == q # <<>> /\ Head(q).op = op

\* (mutant) observers hear of the server's changes only
RaiseServerEvents(d, q) ==
    mainq' = [mainq EXCEPT ![d] =
                IF Synced(d) /\ cache'[d] # cache[d]
                THEN Push(q, [op |-> "scannables"]) ELSE q]

\* Observers of "scannables" hear of every change that d can see, after the
\* callbacks in q.
RaiseEvents(d, q) ==
    mainq' = [mainq EXCEPT ![d] =
                IF Synced(d) /\ cache'[d] \cup pending'[d] # LocalData(d)
                THEN Push(q, [op |-> "scannables"]) ELSE q]

\* The callback of a read of r: validateToken's, or check()'s of one coupon.
Answer(r, asker, exists) ==
    IF asker = "check"
    THEN [op |-> "check", found |-> IF exists THEN {r[2]} ELSE {}]
    ELSE [op |-> "read", c |-> r[2], exists |-> exists, via |-> asker]

\* Reads of the same node wait together and are answered together.
Answers(d, r, exists) ==
    [i \in DOMAIN waiting[d][r] |-> Answer(r, waiting[d][r][i], exists)]

\* One more check() that waits for r adds nothing to what the first will find.
Asked(asks) ==
    IF \E i \in DOMAIN asks : asks[i] = "check"
    THEN asks ELSE Append(asks, "check")

FirebaseObserve(d) ==
    /\ AtHead(fbq[d], "observe")
    /\ fbq' = [fbq EXCEPT ![d] = Tail(@)]
    /\ Observe(d)
    /\ mainq' = [mainq EXCEPT ![d] =
                   IF Synced(d) THEN Push(@, [op |-> "scannables"]) ELSE @]
    /\ UNCHANGED <<proc, user, status, app, heard, served>>

FirebaseRead(d) ==
    LET via == Head(fbq[d]).via
        r == <<Head(fbq[d]).u, Head(fbq[d]).c>>
    IN
    /\ AtHead(fbq[d], "read")
    /\ fbq' = [fbq EXCEPT ![d] = Tail(@)]
    /\ \/ /\ Answerable(d, r)
          /\ mainq' = [mainq EXCEPT ![d] =
                         Append(@, Answer(r, via, r \in LocalData(d)))]
          /\ UNCHANGED waiting
       \/ /\ ~Answerable(d, r)
          /\ waiting' = [waiting EXCEPT ![d][r] = Append(@, via)]
          /\ UNCHANGED mainq
    /\ UNCHANGED <<records, listen, cache, pending, refused,
                   proc, user, status, app, heard, served>>

\* The reads that d can answer are answered together, the others wait; a
\* callback that finds nothing does nothing.
FirebaseCheck(d) ==
    LET u == Head(fbq[d]).u
        found == {c \in Coupons : <<u, c>> \in LocalData(d)}
    IN
    /\ AtHead(fbq[d], "check")
    /\ fbq' = [fbq EXCEPT ![d] = Tail(@)]
    /\ mainq' = [mainq EXCEPT ![d] =
                   IF found = {} THEN @
                   ELSE Push(@, [op |-> "check", found |-> found])]
    /\ waiting' = [waiting EXCEPT ![d] =
                     [r \in Records |->
                        IF r[1] = u /\ ~Answerable(d, r)
                        THEN Asked(@[r]) ELSE @[r]]]
    /\ UNCHANGED <<records, listen, cache, pending, refused,
                   proc, user, status, app, heard, served>>

FirebaseSet(d) ==
    LET r == <<Head(fbq[d]).u, Head(fbq[d]).c>> IN
    /\ AtHead(fbq[d], "set")
    /\ fbq' = [fbq EXCEPT ![d] = Tail(@)]
    /\ SetValue(d, r)
    /\ RaiseEvents(d, mainq[d] \o Answers(d, r, TRUE))
    /\ UNCHANGED <<proc, user, status, app, heard, served>>

FirebaseStep(d) ==
    FirebaseObserve(d) \/ FirebaseRead(d) \/ FirebaseCheck(d) \/ FirebaseSet(d)

-----------------------------------------------------------------------------
(* The main queue *)

\* validateToken's read found a record.
AlreadyRedeemed(d) ==
    /\ AtHead(mainq[d], "read") /\ Head(mainq[d]).exists
    /\ mainq' = [mainq EXCEPT ![d] = Tail(@)]
    /\ app' = [app EXCEPT ![d] = Present(@, Head(mainq[d]).via, "other")]
    /\ UNCHANGED <<dbVars, proc, user, status, fbq, heard, served>>

\* (mutant) the coupon that is selected now is marked
SelectedAppended(a) ==
    [a EXCEPT !.reedeemedArr = @ \cup ({a.currentT} \cap Coupons)]

\* reedeemedArr.append(token): a key, seldom the name of a coupon too.
TokenAppended(a) ==
    [a EXCEPT !.reedeemedArr = @ \cup ({a.token} \cap Coupons)]

\* It found none: write one for whoever is signed in now, append the global
\* token (of whatever row is selected now) and report success.
Redeem(d) ==
    /\ AtHead(mainq[d], "read") /\ ~Head(mainq[d]).exists
    /\ \/ /\ user[d] # NoUser
          /\ LET c == Head(mainq[d]).c
                 via == Head(mainq[d]).via
                 shown == app[d].screen = via /\ app[d].message = "none"
                 r == <<user[d], c>>
             IN
             /\ fbq' = [fbq EXCEPT ![d] =
                          Append(@, [op |-> "set", u |-> user[d], c |-> c])]
             /\ app' = [app EXCEPT ![d] =
                          Present(TokenAppended(@), via, "other")]
             /\ served' = [served EXCEPT ![r] =
                             IF shown /\ @ < MaxServed THEN @ + 1 ELSE @]
          /\ mainq' = [mainq EXCEPT ![d] = Tail(@)]
          /\ UNCHANGED <<dbVars, proc, user, status, heard>>
       \/ /\ user[d] = NoUser                               \* currentUser!
          /\ Terminate(d, "crashed")

Checked(d) ==
    /\ AtHead(mainq[d], "check")
    /\ mainq' = [mainq EXCEPT ![d] = Tail(@)]
    /\ app' = [app EXCEPT ![d].reedeemedArr = @ \cup Head(mainq[d]).found]
    /\ UNCHANGED <<dbVars, proc, user, status, fbq, heard, served>>

\* get()'s observer fills the table and checks again.
Scannables(d) ==
    /\ AtHead(mainq[d], "scannables")
    /\ check(d, [app[d] EXCEPT !.listed = TRUE], fbq[d], Tail(mainq[d]),
             waiting[d])

MainStep(d) ==
    AlreadyRedeemed(d) \/ Redeem(d) \/ Checked(d) \/ Scannables(d)

-----------------------------------------------------------------------------
(* The network: the database and the events it causes on d *)

\* The nodes below tell their reads first, in any order, then the observers.
Listened(d) ==
    /\ ListenAnswered(d)
    /\ \E n \in 0..Cardinality(Reads(d)) : \E order \in Bijection(1..n, Reads(d)) :
         mainq' = [mainq EXCEPT ![d] =
           Push(@ \o [i \in 1..n |->
                  LET r == order[i][1]
                  IN  Answer(r, waiting[d][r][order[i][2]], r \in Current(d))],
                [op |-> "scannables"])]
    /\ UNCHANGED <<proc, user, status, app, fbq, heard, served>>

\* The app gives no block for cancellations: the loss of its observers and a
\* refused read go unnoticed.
Cancelled(d) ==
    /\ ListenLost(d)
    /\ UNCHANGED <<proc, user, status, app, fbq, mainq, heard, served>>

ReadReturned(d, r) ==
    /\ ReadAnswered(d, r)
    /\ \/ mainq' = [mainq EXCEPT ![d] = @ \o Answers(d, r, r \in Current(d))]
       \/ UNCHANGED mainq
    /\ UNCHANGED <<proc, user, status, app, fbq, heard, served>>

NetworkStep(d) ==
    \/ Listened(d) \/ Cancelled(d)
    \/ \E r \in Records :
         \/ ReadReturned(d, r)
         \/ /\ DataUpdate(d, r) \/ ServerPut(d, r)
                  \/ AckWrite(d, r) \/ RevertWrite(d, r)
            /\ RaiseEvents(d, mainq[d])
            /\ UNCHANGED <<proc, user, status, app, fbq, heard, served>>

-----------------------------------------------------------------------------
UserStep(d) ==
    \/ VisitCoupons(d) \/ MicButton(d)
    \/ SomethingWrong(d) \/ BackButtonPressed(d) \/ WrongPassword(d)
    \/ DismissAlert(d) \/ HandleTap(d) \/ DownButton(d) \/ VisitOther(d)
    \/ Logout(d) \/ SignOutIfTokenIsInvalid(d) \/ Kill(d) \/ Launch(d)
    \/ \E c \in Coupons : SelectRow(d, c)
    \/ \E u \in Users : Login(d, u)
    \/ \E key \in Keys \cup {NoKey} :
          DataReceived(d, key) \/ AdminBypassAdd(d, key)

Next == \E d \in Devices :
            UserStep(d) \/ FirebaseStep(d) \/ MainStep(d) \/ NetworkStep(d)

Spec == Init /\ [][Next]_vars

\* Dispatch queues are served; the network comes back in the end.
Fairness ==
    \A d \in Devices :
        /\ WF_vars(FirebaseStep(d)) /\ WF_vars(MainStep(d))
        /\ \A r \in Records :
              /\ WF_vars(Listened(d) \/ ReadReturned(d, r))
              /\ WF_vars(NetworkStep(d) /\ r \notin records /\ r \in records')

FairSpec == Spec /\ Fairness
=============================================================================
