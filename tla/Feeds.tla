------------------------------- MODULE Feeds -------------------------------
(***************************************************************************)
(* The lists that the app shows: AgendaVC, SponsorsVC and the table of     *)
(* FoodCouponsVC.  Each controller observes its node of the database for   *)
(* as long as the process lives, even when another one covers it, and adds *)
(* every version of the list to its rows; the rows of FoodCouponsVC are    *)
(* globals (typeArr, tokenArr, ...) that all its instances share.          *)
(***************************************************************************)
EXTENDS Naturals, Sequences, SequencesExt

CONSTANTS
    Items,            \* entries of the lists
    Blank,            \* what SwiftyJSON makes of an index beyond the end
    MaxLength,        \* bound: length of a list
    MaxControllers,   \* bound: screens opened in one process
    MaxChanges        \* bound: changes of a list or of the attendance

ASSUME BlankAssumption == Blank \notin Items
ASSUME BoundsAssumption ==
    MaxLength \in Nat /\ MaxControllers \in Nat /\ MaxChanges \in Nat

Lists == BoundedSeq(Items, MaxLength)
Topics == {"agenda", "sponsors", "coupons"}

VARIABLES
    server,      \* the list of each topic on the server
    listen,      \* the SDK's listen on each: "none", "wait" or "synced"
    seen,        \* the SDK's copy of each
    stack,       \* the controllers presented, the last one on the screen
    table,       \* the global arrays of FoodCouponsVC
    mainq,       \* events waiting on the main queue
    changes      \* how often a list or the attendance has changed

vars == <<server, listen, seen, stack, table, mainq, changes>>

Rows == Seq(Items \cup {Blank})

TypeOK ==
    /\ server \in [Topics -> Lists] /\ seen \in [Topics -> Lists]
    /\ listen \in [Topics -> {"none", "wait", "synced"}]
    /\ stack \in Seq([topic : Topics, data : Rows, rows : Nat])
    /\ table \in Seq(Items)
    /\ mainq \in Seq([to : DOMAIN stack, list : Lists])
    /\ changes \in Nat

\* A controller whose view has just loaded; the coupons' data stays <<>>.
Opened(topic) == [topic |-> topic, data |-> <<>>, rows |-> 0]

\* A process starts on the agenda (of a signed-in user), which observes it.
FirstListen == [f \in Topics |-> IF f = "agenda" THEN "wait" ELSE "none"]
NoCopy == [f \in Topics |-> <<>>]
FirstScreen == <<Opened("agenda")>>

Init ==
    /\ server \in [Topics -> Lists]
    /\ listen = FirstListen /\ seen = NoCopy /\ stack = FirstScreen
    /\ table = <<>> /\ mainq = <<>> /\ changes = 0

-----------------------------------------------------------------------------
Top == stack[Len(stack)]
Alive == stack # <<>>

\* An event for every controller of the topic, in the order they observed it.
Raise(topic, list) ==
    LET observers == {i \in DOMAIN stack : stack[i].topic = topic}
    IN  \E n \in 0..Len(stack) : \E to \in [1..n -> observers] :
            /\ \A j, k \in 1..n : j < k => to[j] < to[k]
            /\ \A i \in observers : \E k \in 1..n : to[k] = i
            /\ mainq' = mainq \o [k \in 1..n |-> [to |-> to[k], list |-> list]]

\* A row of the menu is tapped; viewDidLoad calls get(), which, for the
\* coupons, first empties the arrays of all the instances.
Visit(topic) ==
    /\ Alive /\ Len(stack) < MaxControllers
    /\ stack' = Append(stack, Opened(topic))
    /\ table' = IF topic = "coupons" THEN <<>> ELSE table
    /\ listen' = [listen EXCEPT ![topic] = IF @ = "none" THEN "wait" ELSE @]
    /\ mainq' = IF listen[topic] = "synced"
                THEN Append(mainq, [to |-> Len(stack) + 1, list |-> seen[topic]])
                ELSE mainq
    /\ UNCHANGED <<server, seen, changes>>

\* (mutant) the arrays are emptied on every appearance
ViewDidAppearEmpty ==
    /\ Alive /\ Top.topic = "coupons"
    /\ table' = <<>>
    /\ UNCHANGED <<server, listen, seen, stack, mainq, changes>>

\* FoodCouponsVC on the screen, or there again: reloadData.
ViewDidAppear ==
    /\ Alive /\ Top.topic = "coupons"
    /\ stack' = [stack EXCEPT ![Len(stack)].rows = Len(table)]
    /\ UNCHANGED <<server, listen, seen, table, mainq, changes>>

\* The organizers edit a list.
Edit(topic, list) ==
    /\ changes < MaxChanges /\ list # server[topic]
    /\ server' = [server EXCEPT ![topic] = list]
    /\ changes' = changes + 1
    /\ UNCHANGED <<listen, seen, stack, table, mainq>>

\* The SDK learns of the list, or of a change of it.
ListUpdate(topic) ==
    /\ Alive
    /\ \/ listen[topic] = "wait"
       \/ listen[topic] = "synced" /\ seen[topic] # server[topic]
    /\ listen' = [listen EXCEPT ![topic] = "synced"]
    /\ seen' = [seen EXCEPT ![topic] = server[topic]]
    /\ Raise(topic, server[topic])
    /\ UNCHANGED <<server, stack, table, changes>>

\* Someone redeems a coupon: the node observed is scannables, which holds the
\* attendance too, so the same list comes again.
AttendanceChanged ==
    /\ Alive /\ changes < MaxChanges /\ listen["coupons"] = "synced"
    /\ Raise("coupons", seen["coupons"])
    /\ changes' = changes + 1
    /\ UNCHANGED <<server, listen, seen, stack, table>>

-----------------------------------------------------------------------------
(* The closures of observe(.value) *)

\* (mutant) the rows are not reloaded when the list arrives
AgendaNotReloaded(c, list) == [c EXCEPT !.data = Append(@ \o list, Blank)]

\* (mutant) the loop is 0..<json.count
AgendaLoadedExactly(c, list) ==
    LET all == c.data \o list
    IN  [c EXCEPT !.data = all, !.rows = Len(all) - 1]

\* get() runs over 0...json.count, one too many; numberOfSections is
\* agendaArray.count - 1, so that the last blank is not shown.
AgendaLoaded(c, list) ==
    LET all == Append(c.data \o list, Blank)
    IN  [c EXCEPT !.data = all, !.rows = Len(all) - 1]

SponsorsLoaded(c, list) ==
    [c EXCEPT !.data = @ \o list, !.rows = Len(c.data) + Len(list)]

\* 0...count-1 and value! do not survive an empty list.
Crashes(c, list) == c.topic # "agenda" /\ list = <<>>

Arrived ==
    /\ mainq # <<>>
    /\ LET i == Head(mainq).to
           list == Head(mainq).list
           c == stack[i]
       IN
       /\ ~Crashes(c, list)
       /\ \/ /\ c.topic = "agenda"
             /\ stack' = [stack EXCEPT ![i] = AgendaLoaded(c, list)]
             /\ UNCHANGED table
          \/ /\ c.topic = "sponsors"
             /\ stack' = [stack EXCEPT ![i] = SponsorsLoaded(c, list)]
             /\ UNCHANGED table
          \/ /\ c.topic = "coupons"
             /\ table' = table \o list
             /\ stack' = [stack EXCEPT ![i].rows = Len(table) + Len(list)]
    /\ mainq' = Tail(mainq)
    /\ UNCHANGED <<server, listen, seen, changes>>

\* What dies with the process.
Die ==
    /\ stack' = <<>> /\ table' = <<>> /\ mainq' = <<>>
    /\ listen' = [f \in Topics |-> "none"] /\ seen' = NoCopy
    /\ UNCHANGED <<server, changes>>

Crash ==
    /\ mainq # <<>>
    /\ Crashes(stack[Head(mainq).to], Head(mainq).list)
    /\ Die

\* The system or the user ends the process.
Kill == Alive /\ Die

Launch ==
    /\ ~Alive
    /\ listen' = FirstListen /\ stack' = FirstScreen
    /\ UNCHANGED <<server, seen, table, mainq, changes>>

Next ==
    \/ \E f \in Topics : Visit(f) \/ ListUpdate(f)
    \/ \E f \in Topics : \E list \in Lists : Edit(f, list)
    \/ ViewDidAppear \/ AttendanceChanged \/ Arrived
    \/ Crash \/ Kill \/ Launch

Spec == Init /\ [][Next]_vars

\* The main queue is served and the network delivers in the end.
Fairness ==
    /\ WF_vars(Arrived) /\ WF_vars(Crash)
    /\ \A f \in Topics : WF_vars(ListUpdate(f))

FairSpec == Spec /\ Fairness
=============================================================================
