---------------------------- MODULE SessionProofs ----------------------------
(***************************************************************************)
(* SessionInv is an inductive invariant of Session, for any set of emails  *)
(* and any bounds: whatever is pressed, answered and changed in between,   *)
(* only emails of the list get accounts, and the timeline opens only on a  *)
(* phone that was signed in.                                               *)
(***************************************************************************)
EXTENDS SessionProperties, TLAPS

-----------------------------------------------------------------------------
(* Requests, callbacks and observers, one at a time. *)

\* Nobody is ever taken off the histories, so what was good stays good.
LEMMA StaysOK ==
    ASSUME ever \subseteq ever', signedIn \subseteq signedIn',
           verified \subseteq verified'
    PROVE  /\ \A r : RequestOK(r) => RequestOK(r)'
           /\ \A c : CallbackOK(c) => CallbackOK(c)'
           /\ \A o : ObserverOK(o) => ObserverOK(o)'
           /\ ConfirmedHere => ConfirmedHere'
           /\ \A e : MemberHere(e) => MemberHere(e)'
BY DEF RequestOK, CallbackOK, ObserverOK, ConfirmedHere, MemberHere

\* Covering the controller of a request, a callback or an observer changes
\* nothing else, and never covers AppDelegate.
LEMMA CoveredOK ==
    ASSUME NEW gone \in SUBSET {"login", "signup"}
    PROVE  /\ \A r \in Requests : /\ Covered(r, gone) \in Requests
                                  /\ RequestOK(r)' => RequestOK(Covered(r, gone))'
           /\ \A c \in Callbacks : /\ Covered(c, gone) \in Callbacks
                                   /\ CallbackOK(c)' => CallbackOK(Covered(c, gone))'
           /\ \A o \in Observers :
                 /\ Covered(o, gone) \in Observers
                 /\ ObserverOK(o)' => ObserverOK(Covered(o, gone))'
<1>1. ASSUME NEW r \in Requests
      PROVE  /\ Covered(r, gone) \in Requests
             /\ RequestOK(r)' => RequestOK(Covered(r, gone))'
  BY DEF Covered, Requests, Controllers, RequestOK
<1>2. ASSUME NEW c \in Callbacks
      PROVE  /\ Covered(c, gone) \in Callbacks
             /\ CallbackOK(c)' => CallbackOK(Covered(c, gone))'
  BY DEF Covered, Callbacks, Controllers, CallbackOK
<1>3. ASSUME NEW o \in Observers
      PROVE  /\ Covered(o, gone) \in Observers
             /\ ObserverOK(o)' => ObserverOK(Covered(o, gone))'
  BY DEF Covered, Observers, Controllers, ObserverOK
<1> QED BY <1>1, <1>2, <1>3

-----------------------------------------------------------------------------
(* Queues, as the sets of what is in them. *)

\* What is in a queue.
Elements(q) == {q[i] : i \in DOMAIN q}

\* What the operations on queues put in and leave in.
LEMMA QueueElements ==
    ASSUME NEW S, NEW q \in Seq(S)
    PROVE  /\ Elements(q) \subseteq S
           /\ \A x \in S : /\ Append(q, x) \in Seq(S)
                           /\ Elements(Append(q, x)) = Elements(q) \cup {x}
           /\ \A p \in Seq(S) : /\ q \o p \in Seq(S)
                                /\ Elements(q \o p) = Elements(q) \cup Elements(p)
           /\ q # <<>> => /\ Head(q) \in S /\ Head(q) \in Elements(q)
                          /\ Tail(q) \in Seq(S) /\ Elements(Tail(q)) \subseteq Elements(q)
<1>1. Elements(q) \subseteq S
  BY DEF Elements
<1>2. ASSUME NEW x \in S
      PROVE  /\ Append(q, x) \in Seq(S)
             /\ Elements(Append(q, x)) = Elements(q) \cup {x}
  <2> DEFINE p == Append(q, x)
             n == Len(q) + 1
  <2>1. /\ DOMAIN p = DOMAIN q \cup {n} /\ p[n] = x
        /\ \A i \in DOMAIN q : p[i] = q[i] /\ i # n
    OBVIOUS
  <2> HIDE DEF p, n
  <2>2. Elements(p) = Elements(q) \cup {x}
    BY <2>1 DEF Elements
  <2> QED BY <2>2 DEF p
<1>3. ASSUME NEW p \in Seq(S)
      PROVE  q \o p \in Seq(S) /\ Elements(q \o p) = Elements(q) \cup Elements(p)
  <2> DEFINE c == q \o p
  <2>1. /\ \A i \in DOMAIN q : i \in DOMAIN c /\ c[i] = q[i]
        /\ \A i \in DOMAIN p : i + Len(q) \in DOMAIN c /\ c[i + Len(q)] = p[i]
        /\ \A i \in DOMAIN c : \/ i \in DOMAIN q
                               \/ i - Len(q) \in DOMAIN p /\ c[i] = p[i - Len(q)]
    OBVIOUS
  <2>2. c \in Seq(S)
    OBVIOUS
  <2> HIDE DEF c
  <2>3. Elements(c) = Elements(q) \cup Elements(p)
    BY <2>1 DEF Elements
  <2> QED BY <2>2, <2>3 DEF c
<1>4. ASSUME q # <<>>
      PROVE  /\ Head(q) \in S /\ Head(q) \in Elements(q)
             /\ Tail(q) \in Seq(S) /\ Elements(Tail(q)) \subseteq Elements(q)
  <2>1. /\ 1 \in DOMAIN q /\ Head(q) = q[1]
        /\ \A i \in DOMAIN Tail(q) : i + 1 \in DOMAIN q /\ Tail(q)[i] = q[i + 1]
    BY <1>4
  <2> QED BY <1>4, <2>1 DEF Elements
<1> QED BY <1>1, <1>2, <1>3, <1>4

\* Leave covers controllers and changes nothing else.
LEMMA LeaveOK ==
    ASSUME NEW gone \in SUBSET {"login", "signup"},
           NEW reqs \in SUBSET Requests, \A r \in reqs : RequestOK(r)',
           NEW queue \in Seq(Callbacks), \A c \in Elements(queue) : CallbackOK(c)',
           observers \in Seq(Observers), \A o \in Elements(observers) : ObserverOK(o)',
           Leave(gone, reqs, queue)
    PROVE  /\ requests' \subseteq Requests /\ \A r \in requests' : RequestOK(r)'
           /\ mainq' \in Seq(Callbacks) /\ \A c \in Elements(mainq') : CallbackOK(c)'
           /\ observers' \in Seq(Observers)
           /\ \A o \in Elements(observers') : ObserverOK(o)'
<1>1. /\ requests' = {Covered(r, gone) : r \in reqs}
      /\ observers' = [i \in DOMAIN observers |-> Covered(observers[i], gone)]
      /\ mainq' = [i \in DOMAIN queue |-> Covered(queue[i], gone)]
  BY DEF Leave
<1>2. requests' \subseteq Requests /\ \A r \in requests' : RequestOK(r)'
  BY <1>1, CoveredOK
<1>3. mainq' \in Seq(Callbacks) /\ \A c \in Elements(mainq') : CallbackOK(c)'
  <2>1. \A i \in DOMAIN queue : queue[i] \in Callbacks /\ queue[i] \in Elements(queue)
    BY DEF Elements
  <2>2. \A i \in DOMAIN queue :
           Covered(queue[i], gone) \in Callbacks /\ CallbackOK(Covered(queue[i], gone))'
    BY <2>1, CoveredOK
  <2>3. DOMAIN queue = 1 .. Len(queue) /\ Len(queue) \in Nat
    OBVIOUS
  <2>4. /\ DOMAIN mainq' = 1 .. Len(queue)
        /\ \A i \in 1 .. Len(queue) : mainq'[i] = Covered(queue[i], gone)
        /\ mainq' = [i \in 1 .. Len(queue) |-> mainq'[i]]
    BY <1>1, <2>3
  <2>5. mainq' \in Seq(Callbacks)
    BY <2>2, <2>3, <2>4
  <2> QED BY <2>2, <2>3, <2>4, <2>5 DEF Elements
<1>4. observers' \in Seq(Observers) /\ \A o \in Elements(observers') : ObserverOK(o)'
  <2>1. \A i \in DOMAIN observers :
           observers[i] \in Observers /\ observers[i] \in Elements(observers)
    BY DEF Elements
  <2>2. \A i \in DOMAIN observers :
           /\ Covered(observers[i], gone) \in Observers
           /\ \E o : o = Covered(observers[i], gone) /\ ObserverOK(o)'
    BY <2>1, CoveredOK DEF Observers
  <2>3. DOMAIN observers = 1 .. Len(observers) /\ Len(observers) \in Nat
    OBVIOUS
  <2>4. /\ DOMAIN observers' = 1 .. Len(observers)
        /\ \A i \in 1 .. Len(observers) : observers'[i] = Covered(observers[i], gone)
        /\ observers' = [i \in 1 .. Len(observers) |-> observers'[i]]
    BY <1>1, <2>3
  <2>5. observers' \in Seq(Observers)
    BY <2>2, <2>3, <2>4
  <2> QED BY <2>2, <2>3, <2>4, <2>5 DEF Elements
<1> QED BY <1>2, <1>3, <1>4

\* What is in a queue after a callback has been taken off it.
LEMMA TailOK ==
    ASSUME SessionInv, mainq # <<>>
    PROVE  /\ Head(mainq) \in Callbacks /\ CallbackOK(Head(mainq))
           /\ Tail(mainq) \in Seq(Callbacks)
           /\ \A c \in Elements(Tail(mainq)) : c \in Callbacks /\ CallbackOK(c)
<1>1. /\ mainq \in Seq(Callbacks)
      /\ \A c \in Elements(mainq) : CallbackOK(c)
  BY DEF SessionInv, TypeOK, Elements
<1> QED BY <1>1, QueueElements

-----------------------------------------------------------------------------
(* Steps. *)

\* What a step has to show: everything new in a queue is good.
LEMMA Preserved ==
    ASSUME SessionInv, TypeOK',
           ever \subseteq ever', signedIn \subseteq signedIn', verified \subseteq verified',
           registered' \cup seen' \subseteq ever',
           user' # NoUser => user' \in signedIn',
           confirmed' => user' \in verified',
           message' = "unverified" => screen' \in {"login", "signup"},
           \A r \in requests' : r \in requests \/ RequestOK(r)',
           \A c \in Elements(mainq') : c \in Elements(mainq) \/ CallbackOK(c)',
           \A o \in Elements(observers') : o \in Elements(observers) \/ ObserverOK(o)',
           OnlyRegistered', TimelineIsForMembers'
    PROVE  SessionInv'
<1>1. \A r \in requests' : RequestOK(r)'
  BY StaysOK DEF SessionInv
<1>2. \A c \in Elements(mainq') : CallbackOK(c)'
  <2>1. \A c \in Elements(mainq) : CallbackOK(c)
    BY DEF SessionInv, Elements
  <2> QED BY <2>1, StaysOK
<1>3. \A o \in Elements(observers') : ObserverOK(o)'
  <2>1. \A o \in Elements(observers) : ObserverOK(o)
    BY DEF SessionInv, Elements
  <2> QED BY <2>1, StaysOK
<1>4. \A i \in DOMAIN mainq' : CallbackOK(mainq[i])'
  <2> SUFFICES ASSUME NEW i \in DOMAIN mainq' PROVE CallbackOK(mainq[i])'
    OBVIOUS
  <2>1. \E c : c = mainq'[i] /\ CallbackOK(c)'
    BY <1>2 DEF Elements
  <2> QED BY <2>1 DEF CallbackOK, MemberHere, ConfirmedHere
<1>5. \A i \in DOMAIN observers' : ObserverOK(observers[i])'
  <2> SUFFICES ASSUME NEW i \in DOMAIN observers' PROVE ObserverOK(observers[i])'
    OBVIOUS
  <2>1. \E o : o = observers'[i] /\ ObserverOK(o)'
    BY <1>3 DEF Elements
  <2> QED BY <2>1 DEF ObserverOK, ConfirmedHere
<1> QED BY <1>1, <1>4, <1>5 DEF SessionInv

\* A step that asks Auth at most for something good, and otherwise only shows
\* something else or signs out.
LEMMA Quiet ==
    ASSUME SessionInv, TypeOK',
           UNCHANGED <<registered, accounts, users, ever, seen, signedIn, mainq, observers>>,
           verified \subseteq verified',
           user' \in {user, NoUser}, confirmed' => confirmed /\ user' = user,
           status' => status,
           message' = "unverified" => screen' \in {"login", "signup"},
           \A r \in requests' : r \in requests \/ RequestOK(r)'
    PROVE  SessionInv'
<1>1. OnlyRegistered' /\ TimelineIsForMembers'
  BY DEF SessionInv, OnlyRegistered, TimelineIsForMembers
<1>2. /\ registered' \cup seen' \subseteq ever'
      /\ user' # NoUser => user' \in signedIn'
      /\ confirmed' => user' \in verified'
  BY DEF SessionInv
<1> QED BY <1>1, <1>2, Preserved

\* Buttons, alerts, the mail's link, and the agenda's own observer.
LEMMA QuietInv ==
    ASSUME SessionInv,
           \/ \E e \in Emails : LoginButtonPressed(e) \/ GoogleSigninButtonPressed(e)
           \/ /\ \/ SignupScreenButton \/ SignUpNothingTyped \/ DismissAlert
                 \/ SendVerification \/ Logout \/ Launch \/ AgendaArrived
                 \/ \E e \in Emails : LinkFollowed(e)
              /\ UNCHANGED presses
    PROVE  SessionInv'
<1> USE DEF serverVars, uiVars, authVars, listVars
<1>0. TypeOK /\ (message = "unverified" => screen \in {"login", "signup"})
  BY DEF SessionInv
<1>1. ASSUME NEW e \in Emails, LoginButtonPressed(e) \/ GoogleSigninButtonPressed(e)
      PROVE  SessionInv'
  <2> DEFINE login == [op |-> "signIn", email |-> e, via |-> "login"]
             google == [op |-> "google", email |-> e, via |-> "app"]
  <2>0. /\ login \in Requests /\ login.op = "signIn"
        /\ google \in Requests /\ google.op = "google"
        /\ requests' = requests \cup {login} \/ requests' = requests \cup {google}
    BY <1>1 DEF LoginButtonPressed, GoogleSigninButtonPressed, Requests, Controllers
  <2> HIDE DEF login, google
  <2>1. PICK r \in Requests : requests' = requests \cup {r} /\ RequestOK(r)'
    BY <2>0 DEF RequestOK
  <2>2. /\ UNCHANGED <<serverVars, uiVars, authVars, listVars, mainq>>
        /\ presses' = presses + 1
    BY <1>1 DEF LoginButtonPressed, GoogleSigninButtonPressed, Press
  <2>3. TypeOK'
    BY <1>0, <2>1, <2>2 DEF TypeOK
  <2> QED BY <1>0, <2>1, <2>2, <2>3, Quiet
<1>2. CASE /\ SignupScreenButton \/ SignUpNothingTyped \/ DismissAlert \/ AgendaArrived
           /\ UNCHANGED presses
  <2>1. TypeOK'
    BY <1>0, <1>2
       DEF TypeOK, SignupScreenButton, SignUpNothingTyped, DismissAlert, AgendaArrived, Alerts
  <2>2. message' = "unverified" => screen' \in {"login", "signup"}
    BY <1>0, <1>2 DEF SignupScreenButton, SignUpNothingTyped, DismissAlert, AgendaArrived
  <2>3. UNCHANGED <<serverVars, authVars, listVars, requests, mainq, status>>
    BY <1>2 DEF SignupScreenButton, SignUpNothingTyped, DismissAlert, AgendaArrived
  <2> QED BY <2>1, <2>2, <2>3, Quiet
<1>3. CASE SendVerification /\ UNCHANGED presses
  <2> DEFINE r == [op |-> "verify", of |-> user, via |-> screen]
  <2>1. user # NoUser => r \in Requests
    BY <1>0, <1>3 DEF SendVerification, TypeOK, Someone, Requests, Controllers
  <2>2. RequestOK(r)'
    BY DEF RequestOK
  <2>3. /\ requests' = requests \cup (IF user = NoUser THEN {} ELSE {r})
        /\ message' = "none"
        /\ UNCHANGED <<serverVars, screen, spinner, timeline, status, authVars, listVars, mainq>>
    BY <1>3 DEF SendVerification
  <2> HIDE DEF r
  <2>4. TypeOK'
    BY <1>0, <1>3, <2>1, <2>3 DEF TypeOK, Alerts
  <2>5. \A x \in requests' : x \in requests \/ RequestOK(x)'
    <3>1. \A x \in requests' : x \in requests \/ x = r
      BY <2>3
    <3> QED BY <2>2, <3>1 DEF RequestOK, r
  <2> QED BY <2>3, <2>4, <2>5, Quiet
<1>4. CASE Logout /\ UNCHANGED presses
  <2>1. TypeOK'
    BY <1>0, <1>4 DEF TypeOK, Logout, Someone
  <2>2. /\ UNCHANGED <<serverVars, message, signedIn, listVars, requests, mainq>>
        /\ status' = FALSE /\ message = "none"
        /\ user' \in {user, NoUser} /\ (confirmed' => confirmed /\ user' = user)
    BY <1>4 DEF Logout, At
  <2> QED BY <2>1, <2>2, Quiet
<1>5. CASE Launch /\ UNCHANGED presses
  <2>1. TypeOK'
    BY <1>0, <1>5 DEF TypeOK, Launch, ShowAgenda, Alerts
  <2>2. /\ UNCHANGED <<serverVars, authVars, listVars, requests, mainq>>
        /\ status' => status
        /\ message' = "unverified" => screen' \in {"login", "signup"}
    BY <1>5 DEF Launch, ShowAgenda
  <2> QED BY <2>1, <2>2, Quiet
<1>6. ASSUME NEW e \in Emails, LinkFollowed(e), UNCHANGED presses
      PROVE  SessionInv'
  <2>1. TypeOK'
    BY <1>0, <1>6 DEF TypeOK, LinkFollowed
  <2>2. /\ UNCHANGED <<registered, accounts, users, ever, uiVars, authVars, listVars,
                       requests, mainq>>
        /\ verified \subseteq verified'
    BY <1>6 DEF LinkFollowed
  <2> QED BY <1>0, <2>1, <2>2, Quiet
<1> QED BY <1>1, <1>2, <1>3, <1>4, <1>5, <1>6

\* One more observer of the list: it is told at once if the SDK has the list.
LEMMA ObserveOK ==
    ASSUME SessionInv, NEW o \in Observers, ObserverOK(o)',
           NEW queue \in Seq(Callbacks), ObserveList(o, queue), ever' = ever
    PROVE  /\ listen' \in {"none", "wait", "synced"} /\ seen' = seen
           /\ observers' \in Seq(Observers)
           /\ \A x \in Elements(observers') : x \in Elements(observers) \/ ObserverOK(x)'
           /\ mainq' \in Seq(Callbacks)
           /\ \A c \in Elements(mainq') : c \in Elements(queue) \/ CallbackOK(c)'
<1>1. /\ observers \in Seq(Observers) /\ listen \in {"none", "wait", "synced"}
      /\ seen \subseteq Emails /\ seen \subseteq ever
  BY DEF SessionInv, TypeOK
<1>2. /\ observers' = Append(observers, o) /\ seen' = seen
      /\ listen' \in {"none", "wait", "synced"}
      /\ mainq' = queue \/ mainq' = Append(queue, Event(o, seen))
  BY <1>1 DEF ObserveList
<1>3. Event(o, seen) \in Callbacks /\ CallbackOK(Event(o, seen))'
  BY <1>1, <1>2 DEF Event, Callbacks, Observers, CallbackOK, ObserverOK
<1>4. observers' \in Seq(Observers) /\ Elements(observers') = Elements(observers) \cup {o}
  BY <1>1, <1>2, QueueElements
<1>5. /\ mainq' \in Seq(Callbacks)
      /\ \A c \in Elements(mainq') : c \in Elements(queue) \/ c = Event(o, seen)
  <2> DEFINE news == Event(o, seen)
  <2>1. news \in Callbacks
    BY <1>3
  <2> SUFFICES /\ mainq' \in Seq(Callbacks)
               /\ \A c \in Elements(mainq') : c \in Elements(queue) \/ c = news
    OBVIOUS
  <2>2. mainq' = queue \/ mainq' = Append(queue, news)
    BY <1>2
  <2> HIDE DEF news
  <2>3. Append(queue, news) \in Seq(Callbacks)
        /\ Elements(Append(queue, news)) = Elements(queue) \cup {news}
    BY <2>1, QueueElements
  <2> QED BY <2>2, <2>3
<1>6. \A c : c = Event(o, seen) => CallbackOK(c)'
  BY <1>2, <1>3
<1> QED BY <1>2, <1>4, <1>5, <1>6

\* Sign Up: the email typed is looked for on the list.
LEMMA SignUpInv ==
    ASSUME SessionInv, NEW e \in Someone, SignUpButtonPressed(e)
    PROVE  SessionInv'
<1> DEFINE o == [email |-> e, via |-> "signup"]
<1>1. /\ o \in Observers /\ ObserverOK(o)' /\ ObserveList(o, mainq)
      /\ mainq \in Seq(Callbacks)
  BY DEF Observers, Controllers, ObserverOK, SignUpButtonPressed, SessionInv, TypeOK
<1> HIDE DEF o
<1>2. /\ message' = "notRegistered" /\ spinner' = FALSE /\ presses' = presses + 1
      /\ UNCHANGED <<serverVars, screen, timeline, status, authVars, requests>>
  BY DEF SignUpButtonPressed, Press
<1>3. /\ listen' \in {"none", "wait", "synced"} /\ seen' = seen
      /\ observers' \in Seq(Observers)
      /\ \A x \in Elements(observers') : x \in Elements(observers) \/ ObserverOK(x)'
      /\ mainq' \in Seq(Callbacks)
      /\ \A c \in Elements(mainq') : c \in Elements(mainq) \/ CallbackOK(c)'
  BY <1>1, <1>2, ObserveOK DEF serverVars
<1>4. TypeOK'
  <2>1. TypeOK
    BY DEF SessionInv
  <2>2. /\ listen' \in {"none", "wait", "synced"} /\ seen' = seen
        /\ observers' \in Seq(Observers) /\ mainq' \in Seq(Callbacks)
    BY <1>3
  <2>3. /\ message' \in Alerts /\ spinner' \in BOOLEAN /\ presses' \in Nat
        /\ UNCHANGED <<serverVars, screen, timeline, status, authVars, requests>>
    <3>1. message' \in Alerts
      BY <1>2 DEF Alerts
    <3>2. spinner' \in BOOLEAN
      BY <1>2
    <3>3. presses' \in Nat
      BY <1>2, <2>1 DEF TypeOK
    <3>4. UNCHANGED <<serverVars, screen, timeline, status, authVars, requests>>
      BY <1>2
    <3> QED BY <3>1, <3>2, <3>3, <3>4
  <2> QED BY <2>1, <2>2, <2>3 DEF TypeOK, serverVars, authVars
<1>5. /\ ever' = ever /\ signedIn' = signedIn /\ verified' = verified
      /\ registered' \cup seen' \subseteq ever'
      /\ user' # NoUser => user' \in signedIn'
      /\ confirmed' => user' \in verified'
      /\ OnlyRegistered' /\ TimelineIsForMembers'
  BY <1>2, <1>3 DEF SessionInv, serverVars, authVars, OnlyRegistered, TimelineIsForMembers
<1> QED BY <1>2, <1>3, <1>4, <1>5, Preserved

\* Back to the login screen: the callbacks of the other one are covered.
LEMMA GoToLoginInv ==
    ASSUME SessionInv, GoToLoginScreen, UNCHANGED presses
    PROVE  SessionInv'
<1>1. /\ screen' = "login" /\ Leave({"signup"}, requests, mainq)
      /\ UNCHANGED <<serverVars, message, spinner, timeline, status, authVars, listen, seen>>
  BY DEF GoToLoginScreen
<1>2. /\ requests \in SUBSET Requests /\ mainq \in Seq(Callbacks)
      /\ observers \in Seq(Observers)
      /\ \A r \in requests : RequestOK(r)
      /\ \A c \in Elements(mainq) : CallbackOK(c)
      /\ \A o \in Elements(observers) : ObserverOK(o)
  BY DEF SessionInv, TypeOK, Elements
<1>3. /\ \A r \in requests : RequestOK(r)'
      /\ \A c \in Elements(mainq) : CallbackOK(c)'
      /\ \A o \in Elements(observers) : ObserverOK(o)'
  BY <1>1, <1>2, StaysOK DEF serverVars, authVars
<1>4. /\ requests' \subseteq Requests /\ \A r \in requests' : RequestOK(r)'
      /\ mainq' \in Seq(Callbacks) /\ \A c \in Elements(mainq') : CallbackOK(c)'
      /\ observers' \in Seq(Observers)
      /\ \A o \in Elements(observers') : ObserverOK(o)'
  BY <1>1, <1>2, <1>3, LeaveOK
<1>5. TypeOK'
  BY <1>1, <1>4 DEF SessionInv, TypeOK, serverVars, authVars
<1>6. /\ ever' = ever /\ signedIn' = signedIn /\ verified' = verified
      /\ registered' \cup seen' \subseteq ever'
      /\ user' # NoUser => user' \in signedIn'
      /\ confirmed' => user' \in verified'
      /\ message' = "unverified" => screen' \in {"login", "signup"}
      /\ OnlyRegistered' /\ TimelineIsForMembers'
  BY <1>1 DEF SessionInv, serverVars, authVars, OnlyRegistered, TimelineIsForMembers
<1> QED BY <1>4, <1>5, <1>6, Preserved

\* The end of the process: the server may have carried out what was asked, and
\* creates only accounts that were on the list.
LEMMA KillInv ==
    ASSUME SessionInv, Kill, UNCHANGED presses
    PROVE  SessionInv'
<1>1. PICK received \in SUBSET requests :
         /\ accounts' = accounts \cup {r.email : r \in Op(received, "create")}
         /\ verified' = verified \cup {r.email : r \in Op(received, "google")}
         /\ mailed' = mailed \cup {r.of : r \in Op(received, "verify")}
  BY DEF Kill
<1>2. /\ screen' = "off" /\ message' = "none" /\ spinner' = FALSE /\ timeline' = FALSE
      /\ listen' = "none" /\ seen' = {} /\ observers' = <<>>
      /\ requests' = {} /\ mainq' = <<>>
      /\ UNCHANGED <<registered, users, ever, changes, status, user, confirmed, signedIn>>
  BY DEF Kill, authVars
<1>3. \A r \in received : /\ r.op = "create" => r.email \in Emails /\ r.email \in ever
                          /\ r.op = "google" => r.email \in Emails
                          /\ r.op = "verify" => r.of \in Emails
  BY DEF SessionInv, TypeOK, Requests, RequestOK
<1>4. /\ accounts' \subseteq Emails /\ accounts' \subseteq ever
      /\ verified' \subseteq Emails /\ mailed' \subseteq Emails
      /\ verified \subseteq verified'
  BY <1>1, <1>3 DEF Op, SessionInv, TypeOK, OnlyRegistered
<1>5. TypeOK'
  <2>1. <<>> \in Seq(Callbacks) /\ <<>> \in Seq(Observers)
    OBVIOUS
  <2> QED BY <1>2, <1>4, <2>1 DEF SessionInv, TypeOK, Alerts
<1>6. /\ Elements(mainq') = {} /\ Elements(observers') = {}
  BY <1>2 DEF Elements
<1>7. OnlyRegistered' /\ TimelineIsForMembers'
  BY <1>2, <1>4 DEF SessionInv, OnlyRegistered, TimelineIsForMembers
<1>8. /\ registered' \cup seen' \subseteq ever'
      /\ user' # NoUser => user' \in signedIn'
      /\ confirmed' => user' \in verified'
  BY <1>2, <1>4 DEF SessionInv
<1> QED BY <1>2, <1>4, <1>5, <1>6, <1>7, <1>8, Preserved

\* The list changes, and the SDK hears of it and tells every observer.
LEMMA ListInv ==
    ASSUME SessionInv, ListUpdate \/ \E e \in Emails : EditList(e), UNCHANGED presses
    PROVE  SessionInv'
<1>0. SessionInv
  OBVIOUS
<1>1. CASE ListUpdate
  <2> DEFINE news == Events(registered)
  <2>1. /\ listen' = "synced" /\ seen' = registered /\ mainq' = mainq \o news
        /\ UNCHANGED <<serverVars, uiVars, authVars, observers, requests>>
    BY <1>1 DEF ListUpdate
  <2>2. ASSUME NEW i \in DOMAIN observers
        PROVE  /\ Event(observers[i], registered) \in Callbacks
               /\ CallbackOK(Event(observers[i], registered))
    <3>1. observers[i] \in Observers /\ ObserverOK(observers[i])
      BY <1>0 DEF SessionInv, TypeOK
    <3>2. registered \subseteq Emails /\ registered \subseteq ever
      BY <1>0 DEF SessionInv, TypeOK
    <3> QED BY <3>1, <3>2 DEF Observers, Event, Callbacks, CallbackOK, ObserverOK
  <2>3. /\ news \in Seq(Callbacks) /\ DOMAIN news = DOMAIN observers
        /\ \A i \in DOMAIN news : news[i] = Event(observers[i], registered)
    <3>1. observers \in Seq(Observers)
      BY <1>0 DEF SessionInv, TypeOK
    <3>2. DOMAIN observers = 1 .. Len(observers) /\ Len(observers) \in Nat
      BY <3>1
    <3> QED BY <2>2, <3>2 DEF Events
  <2> HIDE DEF news
  <2>4. \A c \in Elements(news) : CallbackOK(c)
    BY <2>2, <2>3 DEF Elements
  <2>5. /\ mainq' \in Seq(Callbacks)
        /\ Elements(mainq') = Elements(mainq) \cup Elements(news)
    BY <1>0, <2>1, <2>3, QueueElements DEF SessionInv, TypeOK
  <2>6. /\ ever' = ever /\ signedIn' = signedIn /\ verified' = verified
        /\ status' = status /\ requests' = requests /\ observers' = observers
        /\ registered' = registered /\ user' = user /\ confirmed' = confirmed
        /\ message' = message /\ screen' = screen /\ accounts' = accounts /\ users' = users
    BY <2>1 DEF serverVars, uiVars, authVars
  <2>7. \A c \in Elements(news) : CallbackOK(c)'
    BY <2>4, <2>6, StaysOK
  <2>8. TypeOK'
    BY <1>0, <2>1, <2>5 DEF SessionInv, TypeOK, serverVars, uiVars, authVars
  <2>9. /\ OnlyRegistered' /\ TimelineIsForMembers' /\ registered' \cup seen' \subseteq ever'
        /\ user' # NoUser => user' \in signedIn'
        /\ confirmed' => user' \in verified'
        /\ message' = "unverified" => screen' \in {"login", "signup"}
    BY <1>0, <2>1, <2>6 DEF SessionInv, OnlyRegistered, TimelineIsForMembers
  <2> QED BY <2>5, <2>6, <2>7, <2>8, <2>9, Preserved
<1>2. ASSUME NEW e \in Emails, EditList(e)
      PROVE  SessionInv'
  <2>1. /\ changes' = changes + 1
        /\ registered' \subseteq registered \cup {e} /\ ever' = ever \cup registered'
        /\ UNCHANGED <<accounts, verified, mailed, users, uiVars, authVars, listVars,
                       requests, mainq>>
    BY <1>2 DEF EditList
  <2>2. TypeOK'
    BY <1>0, <2>1 DEF SessionInv, TypeOK, uiVars, authVars, listVars
  <2>3. /\ ever \subseteq ever' /\ signedIn' = signedIn /\ verified' = verified
        /\ OnlyRegistered' /\ TimelineIsForMembers' /\ registered' \cup seen' \subseteq ever'
        /\ user' # NoUser => user' \in signedIn'
        /\ confirmed' => user' \in verified'
        /\ message' = "unverified" => screen' \in {"login", "signup"}
        /\ requests' = requests /\ observers' = observers /\ mainq' = mainq
    BY <1>0, <2>1 DEF SessionInv, OnlyRegistered, TimelineIsForMembers, uiVars, authVars,
                      listVars
  <2> QED BY <2>2, <2>3, Preserved
<1> QED BY <1>1, <1>2

-----------------------------------------------------------------------------
(* Answers of Auth. *)

\* What an answer has to show: who is signed in now was entered in the
\* histories, and the callback, if there is one, is good.
LEMMA Answered1 ==
    ASSUME SessionInv, NEW r \in requests, requests' = requests \ {r},
           UNCHANGED <<uiVars, listVars, registered, users, ever, changes, presses>>,
           user' \in Someone, confirmed' \in BOOLEAN,
           accounts' \subseteq Emails, accounts' \subseteq ever,
           verified' \subseteq Emails, verified \subseteq verified',
           mailed' \subseteq Emails,
           signedIn' \subseteq Emails, signedIn \subseteq signedIn',
           user' # NoUser => user' \in signedIn',
           confirmed' => user' \in verified',
           \/ mainq' = mainq
           \/ \E c \in Callbacks : mainq' = Append(mainq, c) /\ CallbackOK(c)'
    PROVE  SessionInv'
<1>1. mainq \in Seq(Callbacks) /\ TypeOK
  BY DEF SessionInv, TypeOK
<1>2. /\ mainq' \in Seq(Callbacks)
      /\ \A c \in Elements(mainq') : c \in Elements(mainq) \/ CallbackOK(c)'
  <2>1. ASSUME NEW x \in Callbacks, mainq' = Append(mainq, x), CallbackOK(x)'
        PROVE  /\ mainq' \in Seq(Callbacks)
               /\ \A c \in Elements(mainq') : c \in Elements(mainq) \/ CallbackOK(c)'
    <3>1. /\ mainq' \in Seq(Callbacks)
          /\ \A c \in Elements(mainq') : c \in Elements(mainq) \/ c = x
      BY <1>1, <2>1, QueueElements
    <3>2. \A c : c = x => CallbackOK(c)'
      BY <2>1
    <3> QED BY <3>1, <3>2
  <2> QED BY <1>1, <2>1
<1>3. UNCHANGED <<screen, message, spinner, timeline, status, listen, seen, observers>>
  BY DEF uiVars, listVars
<1>4. TypeOK'
  BY <1>1, <1>2, <1>3 DEF TypeOK
<1>5. /\ ever' = ever /\ registered' \cup seen' \subseteq ever'
      /\ message' = "unverified" => screen' \in {"login", "signup"}
  BY <1>3 DEF SessionInv
<1>6. OnlyRegistered' /\ TimelineIsForMembers'
  BY <1>3 DEF SessionInv, OnlyRegistered, TimelineIsForMembers
<1> QED BY <1>2, <1>3, <1>4, <1>5, <1>6, Preserved

\* signIn: an account was signed in by the name that it was created with.
LEMMA SignInInv ==
    ASSUME SessionInv, NEW r \in requests, requests' = requests \ {r}, SignInAnswered(r),
           UNCHANGED <<uiVars, listVars, presses>>
    PROVE  SessionInv'
<1> DEFINE c(ok) == [op |-> "signIn", email |-> r.email, ok |-> ok, via |-> r.via]
<1>1. PICK ok \in BOOLEAN :
         /\ ok => r.email \in accounts
         /\ IF ok THEN SignedInAs(r.email, r.email \in verified) ELSE UNCHANGED authVars
         /\ mainq' = Append(mainq, c(ok))
  BY DEF SignInAnswered
<1>2. UNCHANGED <<registered, accounts, verified, mailed, users, ever, changes>>
  BY DEF SignInAnswered, serverVars
<1>3. /\ TypeOK /\ accounts \subseteq ever /\ r.email \in Emails
      /\ r.via \in Controllers /\ r.op = "signIn"
      /\ user # NoUser => user \in signedIn
      /\ confirmed => user \in verified
  BY DEF SessionInv, TypeOK, OnlyRegistered, Requests, SignInAnswered
<1>4. /\ user' \in Someone /\ confirmed' \in BOOLEAN
      /\ signedIn' \subseteq Emails /\ signedIn \subseteq signedIn'
      /\ user' # NoUser => user' \in signedIn'
      /\ confirmed' => user' \in verified'
      /\ ok => r.email \in signedIn' \cap ever'
  <2>1. CASE ok
    <3>1. /\ user' = r.email /\ signedIn' = signedIn \cup {r.email}
          /\ confirmed' = (r.email \in verified) /\ r.email \in accounts
      BY <1>1, <2>1 DEF SignedInAs
    <3>2. confirmed' \in BOOLEAN
      BY <3>1
    <3>3. confirmed' => user' \in verified'
      BY <1>2, <3>1
    <3> QED BY <1>2, <1>3, <3>1, <3>2, <3>3 DEF TypeOK, Someone
  <2>2. CASE ~ok
    BY <1>1, <1>2, <1>3, <2>2 DEF authVars, TypeOK
  <2> QED BY <2>1, <2>2
<1>5. c(ok) \in Callbacks /\ CallbackOK(c(ok))'
  BY <1>3, <1>4 DEF Callbacks, CallbackOK, MemberHere
<1>6. /\ accounts' \subseteq Emails /\ accounts' \subseteq ever
      /\ verified' \subseteq Emails /\ verified \subseteq verified' /\ mailed' \subseteq Emails
  BY <1>2, <1>3 DEF TypeOK
<1> HIDE DEF c
<1> QED BY <1>1, <1>2, <1>4, <1>5, <1>6, Answered1

\* Google: the account signed in is a confirmed one.
LEMMA GoogleInv ==
    ASSUME SessionInv, NEW r \in requests, requests' = requests \ {r}, GoogleAnswered(r),
           UNCHANGED <<uiVars, listVars, presses>>
    PROVE  SessionInv'
<1>1. /\ TypeOK /\ accounts \subseteq ever /\ r.email \in Emails
      /\ user # NoUser => user \in signedIn
      /\ confirmed => user \in verified
  BY DEF SessionInv, TypeOK, OnlyRegistered, Requests, GoogleAnswered
<1>2. CASE UNCHANGED <<serverVars, authVars, mainq>>
  <2>1. UNCHANGED <<registered, accounts, verified, mailed, users, ever, changes,
                    user, confirmed, signedIn, mainq>>
    BY <1>2 DEF serverVars, authVars
  <2>2. /\ user' \in Someone /\ confirmed' \in BOOLEAN /\ signedIn' \subseteq Emails
        /\ accounts' \subseteq Emails /\ verified' \subseteq Emails /\ mailed' \subseteq Emails
    BY <1>1, <2>1 DEF TypeOK
  <2> QED BY <1>1, <2>1, <2>2, Answered1
<1>3. CASE /\ verified' = verified \cup {r.email}
           /\ SignedInAs(r.email, TRUE)
           /\ mainq' = Append(mainq, [op |-> "google"])
           /\ UNCHANGED <<registered, accounts, mailed, users, ever, changes>>
  <2> DEFINE c == [op |-> "google"]
  <2>1. user' = r.email /\ confirmed' = TRUE /\ signedIn' = signedIn \cup {r.email}
    BY <1>3 DEF SignedInAs
  <2>2. c \in Callbacks /\ c.op = "google"
    BY DEF Callbacks
  <2>3. ConfirmedHere'
    BY <1>3, <2>1 DEF ConfirmedHere
  <2> HIDE DEF c
  <2>4. CallbackOK(c)'
    BY <2>2, <2>3 DEF CallbackOK
  <2>5. /\ user' \in Someone /\ signedIn' \subseteq Emails
        /\ accounts' \subseteq Emails /\ verified' \subseteq Emails /\ mailed' \subseteq Emails
    BY <1>1, <1>3, <2>1 DEF TypeOK, Someone
  <2>6. confirmed' \in BOOLEAN
    BY <2>1
  <2>7. mainq' = Append(mainq, c)
    BY <1>3 DEF c
  <2>8. /\ user' \in verified' /\ user' \in signedIn'
        /\ verified \subseteq verified' /\ signedIn \subseteq signedIn'
        /\ accounts' \subseteq ever
    BY <1>1, <1>3, <2>1
  <2> QED BY <1>3, <2>2, <2>4, <2>5, <2>6, <2>7, <2>8, Answered1
<1> QED BY <1>2, <1>3 DEF GoogleAnswered

\* createUser: it is asked only for an email of the list.
LEMMA CreateInv ==
    ASSUME SessionInv, NEW r \in requests, requests' = requests \ {r}, CreateAnswered(r),
           UNCHANGED <<uiVars, listVars, presses>>
    PROVE  SessionInv'
<1> DEFINE c(ok) == [op |-> "create", email |-> r.email, ok |-> ok, via |-> r.via]
<1>1. PICK ok \in BOOLEAN :
         /\ IF ok THEN accounts' = accounts \cup {r.email} /\ SignedInAs(r.email, FALSE)
                  ELSE UNCHANGED <<accounts, authVars>>
         /\ mainq' = Append(mainq, c(ok))
  BY DEF CreateAnswered
<1>2. UNCHANGED <<registered, verified, mailed, users, ever, changes>>
  BY DEF CreateAnswered
<1>3. /\ TypeOK /\ accounts \subseteq ever /\ r.email \in Emails /\ r.email \in ever
      /\ r.via \in Controllers /\ r.op = "create"
      /\ user # NoUser => user \in signedIn
      /\ confirmed => user \in verified
  <2>1. r \in Requests /\ r.op = "create" /\ RequestOK(r)
    BY DEF SessionInv, TypeOK, CreateAnswered
  <2>2. r.email \in Emails /\ r.email \in ever /\ r.via \in Controllers
    <3>1. r \in [op : {"signIn", "create"}, email : Emails, via : Controllers]
      BY <2>1 DEF Requests
    <3> QED BY <2>1, <3>1 DEF RequestOK
  <2> QED BY <2>1, <2>2 DEF SessionInv, OnlyRegistered
<1>4. /\ user' \in Someone /\ confirmed' \in BOOLEAN
      /\ signedIn' \subseteq Emails /\ signedIn \subseteq signedIn'
      /\ user' # NoUser => user' \in signedIn'
      /\ confirmed' => user' \in verified'
      /\ ok => r.email \in signedIn' \cap ever'
      /\ accounts' \subseteq Emails /\ accounts' \subseteq ever
  <2>1. CASE ok
    BY <1>1, <1>2, <1>3, <2>1 DEF SignedInAs, TypeOK, Someone
  <2>2. CASE ~ok
    BY <1>1, <1>2, <1>3, <2>2 DEF authVars, TypeOK
  <2> QED BY <2>1, <2>2
<1>5. c(ok) \in Callbacks /\ CallbackOK(c(ok))'
  BY <1>3, <1>4 DEF Callbacks, CallbackOK, MemberHere
<1>6. verified' \subseteq Emails /\ verified \subseteq verified' /\ mailed' \subseteq Emails
  BY <1>2, <1>3 DEF TypeOK
<1> HIDE DEF c
<1> QED BY <1>1, <1>2, <1>4, <1>5, <1>6, Answered1

\* A refused request signs at most its own account out.
LEMMA SignedOutOK ==
    ASSUME SessionInv, NEW e, SignedOut(e), UNCHANGED verified
    PROVE  /\ user' \in Someone /\ confirmed' \in BOOLEAN /\ signedIn' = signedIn
           /\ user' # NoUser => user' \in signedIn'
           /\ confirmed' => user' \in verified'
<1>1. user' \in {user, NoUser} /\ signedIn' = signedIn
  BY DEF SignedOut
<1>2. confirmed' \in BOOLEAN
  BY DEF SignedOut
<1>3. confirmed' => confirmed /\ user' = user
  BY DEF SignedOut
<1> QED BY <1>1, <1>2, <1>3 DEF SessionInv, TypeOK, Someone

\* reload: if the flag comes up, an account this phone was signed in to is
\* confirmed, whoever is signed in now.
LEMMA ReloadInv ==
    ASSUME SessionInv, NEW r \in requests, requests' = requests \ {r}, ReloadAnswered(r),
           UNCHANGED <<uiVars, listVars, presses>>
    PROVE  SessionInv'
<1> DEFINE c(flag) == [op |-> "reload", email |-> r.email, via |-> r.via, flag |-> flag]
<1>1. PICK ok \in BOOLEAN :
         /\ \/ /\ ok /\ confirmed' = IF user = r.of THEN r.of \in verified ELSE confirmed
               /\ UNCHANGED <<user, signedIn>>
            \/ ~ok /\ SignedOut(r.of)
            \/ ~ok /\ UNCHANGED authVars
         /\ mainq' = Append(mainq, c(IF ok THEN r.of \in verified ELSE r.was))
  BY DEF ReloadAnswered
<1>2. UNCHANGED <<registered, accounts, verified, mailed, users, ever, changes>>
  BY DEF ReloadAnswered, serverVars
<1>3. /\ r \in Requests /\ r.op = "reload" /\ RequestOK(r) /\ TypeOK
      /\ user # NoUser => user \in signedIn
      /\ confirmed => user \in verified
      /\ accounts \subseteq ever
  BY DEF SessionInv, TypeOK, OnlyRegistered, ReloadAnswered
<1>4. /\ r.email \in Emails /\ r.of \in Emails /\ r.was \in BOOLEAN /\ r.via \in Controllers
      /\ MemberHere(r.email) /\ r.of \in signedIn
      /\ r.was => r.of \in verified
  <2>1. r \in [op : {"reload"}, email : Emails, of : Emails, was : BOOLEAN,
               via : Controllers]
    BY <1>3 DEF Requests
  <2>2. MemberHere(r.email) /\ r.of \in signedIn /\ (r.was => r.of \in verified)
    BY <1>3 DEF RequestOK
  <2> QED BY <2>1, <2>2
<1>5. /\ user' \in Someone /\ confirmed' \in BOOLEAN /\ signedIn' = signedIn
      /\ user' # NoUser => user' \in signedIn'
      /\ confirmed' => user' \in verified'
  <2>1. CASE ok /\ confirmed' = (IF user = r.of THEN r.of \in verified ELSE confirmed)
             /\ UNCHANGED <<user, signedIn>>
    <3>1. user' = user /\ signedIn' = signedIn
      BY <2>1
    <3>2. CASE user = r.of
      <4>1. confirmed' = (r.of \in verified)
        BY <2>1, <3>2
      <4>2. confirmed' \in BOOLEAN
        BY <4>1
      <4>3. confirmed' => user' \in verified'
        BY <1>2, <3>1, <3>2, <4>1
      <4> QED BY <1>3, <3>1, <4>2, <4>3 DEF TypeOK
    <3>3. CASE user # r.of
      <4>1. confirmed' = confirmed
        BY <2>1, <3>3
      <4> QED BY <1>2, <1>3, <3>1, <4>1 DEF TypeOK
    <3> QED BY <3>2, <3>3
  <2>2. CASE SignedOut(r.of)
    BY <1>2, <2>2, SignedOutOK
  <2>3. CASE UNCHANGED authVars
    BY <1>2, <1>3, <2>3 DEF authVars, TypeOK
  <2> QED BY <1>1, <2>1, <2>2, <2>3
<1>6. PICK f \in BOOLEAN : /\ mainq' = Append(mainq, c(f))
                           /\ f => r.of \in verified
  <2> HIDE DEF c
  <2>1. CASE ok
    <3>1. mainq' = Append(mainq, c(r.of \in verified))
      BY <1>1, <2>1
    <3>2. (r.of \in verified) \in BOOLEAN
      OBVIOUS
    <3> QED BY <3>1, <3>2, Zenon
  <2>2. CASE ~ok
    <3>1. mainq' = Append(mainq, c(r.was))
      BY <1>1, <2>2
    <3> QED BY <1>4, <3>1, Zenon
  <2> QED BY <2>1, <2>2
<1>7. c(f) \in Callbacks /\ CallbackOK(c(f))' /\ mainq' = Append(mainq, c(f))
  <2>1. c(f) \in Callbacks /\ mainq' = Append(mainq, c(f))
    BY <1>4, <1>6 DEF Callbacks
  <2>2. MemberHere(r.email)'
    BY <1>2, <1>4, <1>5 DEF MemberHere
  <2>3. f => ConfirmedHere'
    <3>1. r.of \in verified => ConfirmedHere'
      BY <1>2, <1>4, <1>5 DEF ConfirmedHere
    <3> QED BY <1>6, <3>1
  <2>4. CallbackOK(c(f))'
    BY <2>2, <2>3 DEF CallbackOK, MemberHere, ConfirmedHere
  <2> QED BY <2>1, <2>4
<1>8. /\ accounts' \subseteq Emails /\ accounts' \subseteq ever
      /\ verified' \subseteq Emails /\ verified \subseteq verified' /\ mailed' \subseteq Emails
      /\ signedIn' \subseteq Emails /\ signedIn \subseteq signedIn'
  BY <1>2, <1>3, <1>5 DEF TypeOK
<1> HIDE DEF c
<1> QED BY <1>2, <1>5, <1>7, <1>8, Answered1

\* sendEmailVerification: its callback claims nothing.
LEMMA VerifyInv ==
    ASSUME SessionInv, NEW r \in requests, requests' = requests \ {r}, VerifyAnswered(r),
           UNCHANGED <<uiVars, listVars, presses>>
    PROVE  SessionInv'
<1> DEFINE c(ok) == [op |-> "verify", ok |-> ok, via |-> r.via]
<1>1. PICK ok \in BOOLEAN :
         /\ \/ ok /\ mailed' = mailed \cup {r.of} /\ UNCHANGED authVars
            \/ ~ok /\ SignedOut(r.of) /\ UNCHANGED mailed
            \/ ~ok /\ UNCHANGED <<authVars, mailed>>
         /\ mainq' = Append(mainq, c(ok))
  BY DEF VerifyAnswered
<1>2. UNCHANGED <<registered, accounts, verified, users, ever, changes>>
  BY DEF VerifyAnswered
<1>3. /\ r \in Requests /\ r.op = "verify" /\ TypeOK
      /\ user # NoUser => user \in signedIn
      /\ confirmed => user \in verified
      /\ accounts \subseteq ever
  BY DEF SessionInv, TypeOK, OnlyRegistered, VerifyAnswered
<1>4. r.of \in Emails /\ r.via \in Controllers
  BY <1>3 DEF Requests
<1>5. /\ user' \in Someone /\ confirmed' \in BOOLEAN /\ signedIn' = signedIn
      /\ user' # NoUser => user' \in signedIn'
      /\ confirmed' => user' \in verified'
  <2>1. CASE SignedOut(r.of)
    BY <1>2, <2>1, SignedOutOK
  <2>2. CASE UNCHANGED authVars
    BY <1>2, <1>3, <2>2 DEF authVars, TypeOK
  <2> QED BY <1>1, <2>1, <2>2
<1>6. c(ok) \in Callbacks /\ CallbackOK(c(ok))'
  BY <1>4 DEF Callbacks, CallbackOK
<1>7. mailed' \subseteq Emails
  BY <1>1, <1>3, <1>4 DEF TypeOK
<1>8. /\ accounts' \subseteq Emails /\ accounts' \subseteq ever
      /\ verified' \subseteq Emails /\ verified \subseteq verified'
      /\ signedIn' \subseteq Emails /\ signedIn \subseteq signedIn'
  BY <1>2, <1>3, <1>5 DEF TypeOK
<1> HIDE DEF c
<1> QED BY <1>1, <1>2, <1>5, <1>6, <1>7, <1>8, Answered1

\* Every answer of Auth preserves SessionInv.
LEMMA AnswerInv ==
    ASSUME SessionInv, NEW r \in requests, Answer(r)
    PROVE  SessionInv'
<1>1. requests' = requests \ {r} /\ UNCHANGED <<uiVars, listVars, presses>>
  BY DEF Answer
<1>2. \/ SignInAnswered(r) \/ GoogleAnswered(r) \/ CreateAnswered(r)
      \/ ReloadAnswered(r) \/ VerifyAnswered(r)
  BY DEF Answer
<1> QED BY <1>1, <1>2, SignInInv, GoogleInv, CreateInv, ReloadInv, VerifyInv

-----------------------------------------------------------------------------
(* The main queue. *)

\* What no callback touches.
Kept == <<registered, accounts, verified, mailed, ever, changes, user, confirmed, signedIn,
          listen, seen, presses>>
\* Some account that signed in was on the list, and some is verified.
MembersOfOld == signedIn \cap ever # {} /\ signedIn \cap verified # {}

\* A callback that leaves the observers alone.
LEMMA Handled ==
    ASSUME SessionInv, mainq # <<>>, mainq' = Tail(mainq), UNCHANGED <<Kept, observers>>,
           users' \in [Emails -> Someone],
           \A e \in Emails : users'[e] # NoUser => users'[e] \in ever,
           screen' \in {"off", "login", "signup", "agenda"}, message' \in Alerts,
           spinner' \in BOOLEAN, timeline' \in BOOLEAN, status' \in BOOLEAN,
           message' = "unverified" => screen' \in {"login", "signup"},
           status' => status \/ MembersOfOld,
           \A r \in requests' : r \in requests \/ (r \in Requests /\ RequestOK(r))
    PROVE  SessionInv'
<1>1. UNCHANGED <<registered, accounts, verified, mailed, ever, changes, user, confirmed,
                  signedIn, listen, seen, presses, observers>>
  BY DEF Kept
<1>2. TypeOK
  BY DEF SessionInv
<1>3. requests' \subseteq Requests
  BY <1>2 DEF TypeOK
<1>4. /\ mainq' \in Seq(Callbacks)
      /\ \A c \in Elements(mainq') : c \in Elements(mainq)
  BY <1>2, QueueElements DEF TypeOK
<1>5. TypeOK'
  BY <1>1, <1>2, <1>3, <1>4 DEF TypeOK
<1>6. \A r \in requests' : r \in requests \/ RequestOK(r)'
  BY <1>1, StaysOK
<1>7. OnlyRegistered' /\ TimelineIsForMembers'
  BY <1>1 DEF SessionInv, OnlyRegistered, TimelineIsForMembers, MembersOfOld
<1>8. /\ registered' \cup seen' \subseteq ever'
      /\ user' # NoUser => user' \in signedIn'
      /\ confirmed' => user' \in verified'
  BY <1>1 DEF SessionInv
<1> QED BY <1>1, <1>4, <1>5, <1>6, <1>7, <1>8, Preserved

\* A callback that opens the agenda.
LEMMA Opened ==
    ASSUME SessionInv, mainq # <<>>, UNCHANGED Kept,
           NEW reqs \in SUBSET Requests, \A r \in reqs : RequestOK(r),
           ShowAgenda, Leave({"login", "signup"}, reqs, Tail(mainq)),
           users' \in [Emails -> Someone],
           \A e \in Emails : users'[e] # NoUser => users'[e] \in ever,
           MembersOfOld
    PROVE  SessionInv'
<1>1. UNCHANGED <<registered, accounts, verified, mailed, ever, changes, user, confirmed,
                  signedIn, listen, seen, presses>>
  BY DEF Kept
<1>2. /\ Tail(mainq) \in Seq(Callbacks) /\ observers \in Seq(Observers)
      /\ \A r \in reqs : RequestOK(r)'
      /\ \A c \in Elements(Tail(mainq)) : CallbackOK(c)'
      /\ \A o \in Elements(observers) : ObserverOK(o)'
  <2>1. /\ Tail(mainq) \in Seq(Callbacks) /\ \A c \in Elements(Tail(mainq)) : CallbackOK(c)
    BY TailOK
  <2>2. observers \in Seq(Observers) /\ \A o \in Elements(observers) : ObserverOK(o)
    BY DEF SessionInv, TypeOK, Elements
  <2> QED BY <1>1, <2>1, <2>2, StaysOK
<1>3. /\ requests' \subseteq Requests /\ \A r \in requests' : RequestOK(r)'
      /\ mainq' \in Seq(Callbacks) /\ \A c \in Elements(mainq') : CallbackOK(c)'
      /\ observers' \in Seq(Observers)
      /\ \A o \in Elements(observers') : ObserverOK(o)'
  BY <1>2, LeaveOK
<1>4. /\ screen' = "agenda" /\ message' = "none"
      /\ spinner' = TRUE /\ timeline' = TRUE /\ status' = TRUE
  BY DEF ShowAgenda
<1>5. TypeOK'
  <2>1. TypeOK
    BY DEF SessionInv
  <2>2. /\ screen' \in {"off", "login", "signup", "agenda"} /\ message' \in Alerts
        /\ spinner' \in BOOLEAN /\ timeline' \in BOOLEAN /\ status' \in BOOLEAN
    BY <1>4 DEF Alerts
  <2> QED BY <1>1, <1>3, <2>1, <2>2 DEF TypeOK
<1>6. OnlyRegistered' /\ TimelineIsForMembers'
  BY <1>1 DEF SessionInv, OnlyRegistered, TimelineIsForMembers, MembersOfOld
<1>7. /\ registered' \cup seen' \subseteq ever'
      /\ user' # NoUser => user' \in signedIn'
      /\ confirmed' => user' \in verified'
  BY <1>1 DEF SessionInv
<1>8. message' = "unverified" => screen' \in {"login", "signup"}
  BY <1>4
<1> QED BY <1>1, <1>3, <1>5, <1>6, <1>7, <1>8, Preserved

\* A callback that wants to open it, from a screen that may be gone.
LEMMA Entered ==
    ASSUME SessionInv, mainq # <<>>, UNCHANGED Kept, NEW via,
           NEW reqs \in SUBSET Requests, \A r \in reqs : RequestOK(r),
           EnterFrom(via, reqs, Tail(mainq)),
           users' \in [Emails -> Someone],
           \A e \in Emails : users'[e] # NoUser => users'[e] \in ever,
           MembersOfOld
    PROVE  SessionInv'
<1>1. CASE At(via)
  BY <1>1, Opened DEF EnterFrom
<1>2. CASE ~At(via)
  <2>1. /\ status' = TRUE /\ requests' = reqs /\ mainq' = Tail(mainq)
        /\ UNCHANGED <<screen, message, spinner, timeline, observers>>
    BY <1>2 DEF EnterFrom
  <2>2. /\ screen' \in {"off", "login", "signup", "agenda"} /\ message' \in Alerts
        /\ spinner' \in BOOLEAN /\ timeline' \in BOOLEAN
        /\ message' = "unverified" => screen' \in {"login", "signup"}
    BY <2>1 DEF SessionInv, TypeOK
  <2>3. status' \in BOOLEAN
    BY <2>1
  <2> QED BY <2>1, <2>2, <2>3, Handled
<1> QED BY <1>1, <1>2

\* Every user's document and every flag keep their types when they are kept.
LEMMA Document ==
    ASSUME SessionInv, NEW e \in Emails, NEW new \in Emails, new \in ever,
           users' = [users EXCEPT ![e] = new] \/ users' = users
    PROVE  /\ users' \in [Emails -> Someone]
           /\ \A x \in Emails : users'[x] # NoUser => users'[x] \in ever
BY DEF SessionInv, TypeOK, OnlyRegistered, Someone

\* What SessionInv says of the screen, the users and the requests.
LEMMA ScreenKept ==
    ASSUME SessionInv
    PROVE  /\ users \in [Emails -> Someone]
           /\ \A x \in Emails : users[x] # NoUser => users[x] \in ever
           /\ screen \in {"off", "login", "signup", "agenda"} /\ message \in Alerts
           /\ spinner \in BOOLEAN /\ timeline \in BOOLEAN /\ status \in BOOLEAN
           /\ message = "unverified" => screen \in {"login", "signup"}
           /\ requests \in SUBSET Requests /\ \A r \in requests : RequestOK(r)
BY DEF SessionInv, TypeOK, OnlyRegistered

\* An alert is shown only by a controller on the screen.
LEMMA Presented ==
    ASSUME SessionInv, NEW via \in Controllers, NEW alert \in Alerts, Present(via, alert),
           screen' = screen
    PROVE  /\ message' \in Alerts
           /\ message' = "unverified" => screen' \in {"login", "signup"}
BY DEF SessionInv, TypeOK, Controllers, Present, At, Alerts

\* After Google's sign-in the app observes the list for the new user's email.
LEMMA GoogleSignedInInv ==
    ASSUME SessionInv, GoogleSignedIn, UNCHANGED presses
    PROVE  SessionInv'
<1>0. PICK who \in Someone : who = user
  BY DEF SessionInv, TypeOK
<1> DEFINE o == [email |-> who, via |-> "app"]
<1>1. /\ mainq # <<>> /\ Head(mainq).op = "google" /\ spinner' = TRUE
      /\ ObserveList(o, Tail(mainq))
      /\ UNCHANGED <<serverVars, screen, message, timeline, status, authVars, requests>>
  BY <1>0 DEF GoogleSignedIn, Callback
<1>2. /\ Tail(mainq) \in Seq(Callbacks) /\ ConfirmedHere
      /\ \A c \in Elements(Tail(mainq)) : CallbackOK(c)
  BY <1>1, TailOK DEF CallbackOK
<1>3. UNCHANGED <<registered, accounts, verified, mailed, users, ever, changes, screen,
                  message, timeline, status, user, confirmed, signedIn, requests>>
  BY <1>1 DEF serverVars, authVars
<1>4. o \in Observers /\ ObserverOK(o)'
  <2>1. who # NoUser => who \in signedIn
    BY <1>0 DEF SessionInv
  <2>2. ConfirmedHere'
    BY <1>2, <1>3 DEF ConfirmedHere
  <2> QED BY <1>3, <2>1, <2>2 DEF Observers, ObserverOK
<1> HIDE DEF o
<1>5. /\ listen' \in {"none", "wait", "synced"} /\ seen' = seen
      /\ observers' \in Seq(Observers)
      /\ \A x \in Elements(observers') : x \in Elements(observers) \/ ObserverOK(x)'
      /\ mainq' \in Seq(Callbacks)
      /\ \A c \in Elements(mainq') : c \in Elements(Tail(mainq)) \/ CallbackOK(c)'
  BY <1>1, <1>2, <1>3, <1>4, ObserveOK
<1>6. \A c \in Elements(mainq') : CallbackOK(c)'
  BY <1>2, <1>3, <1>5, StaysOK
<1>7. TypeOK'
  <2>1. spinner' \in BOOLEAN
    BY <1>1
  <2> QED BY <1>3, <1>5, <2>1 DEF SessionInv, TypeOK
<1>8. OnlyRegistered' /\ TimelineIsForMembers'
  BY <1>3 DEF SessionInv, OnlyRegistered, TimelineIsForMembers
<1>9. /\ registered' \cup seen' \subseteq ever'
      /\ user' # NoUser => user' \in signedIn'
      /\ confirmed' => user' \in verified'
      /\ message' = "unverified" => screen' \in {"login", "signup"}
  BY <1>3, <1>5 DEF SessionInv
<1> QED BY <1>3, <1>5, <1>6, <1>7, <1>8, <1>9, Preserved

\* The observer of AppDelegate finds the email that Google signed in.
LEMMA ListSeenByAppInv ==
    ASSUME SessionInv, ListSeenByApp, UNCHANGED presses
    PROVE  SessionInv'
<1> DEFINE c == Head(mainq)
<1>1. /\ mainq # <<>> /\ c.op = "list" /\ c.via = "app"
      /\ UNCHANGED <<user, confirmed, signedIn, listen, seen>>
  BY DEF ListSeenByApp, Callback, authVars
<1>2. c \in Callbacks /\ CallbackOK(c)
  BY <1>1, TailOK
<1>3. /\ c.email \in Someone /\ c.list \subseteq Emails /\ c.list \subseteq ever
      /\ ConfirmedHere /\ (c.email # NoUser => c.email \in signedIn)
  <2>1. c.email \in Someone /\ c.list \subseteq Emails
    BY <1>1, <1>2 DEF Callbacks
  <2> QED BY <1>1, <1>2, <2>1 DEF CallbackOK
<1>4. CASE /\ OnList(c)
           /\ users' = [users EXCEPT ![c.email] = c.email]
           /\ ShowAgenda
           /\ Leave({"login", "signup"}, requests, Tail(mainq))
           /\ UNCHANGED <<registered, accounts, verified, mailed, ever, changes>>
  <2>1. c.email \in Emails /\ c.email \in ever /\ c.email \in signedIn
    BY <1>3, <1>4, EmailsAssumption DEF OnList
  <2>2. MembersOfOld
    BY <1>3, <2>1 DEF MembersOfOld, ConfirmedHere
  <2>3. UNCHANGED Kept
    BY <1>1, <1>4 DEF Kept
  <2>4. /\ users' \in [Emails -> Someone]
        /\ \A x \in Emails : users'[x] # NoUser => users'[x] \in ever
    BY <1>4, <2>1, Document
  <2> QED BY <1>1, <1>4, <2>2, <2>3, <2>4, ScreenKept, Opened
<1>5. CASE /\ mainq' = Tail(mainq)
           /\ UNCHANGED <<serverVars, screen, message, spinner, timeline, status, observers,
                          requests>>
  <2>1. UNCHANGED <<Kept, observers, users, screen, message, spinner, timeline, status, requests>>
    BY <1>1, <1>5 DEF Kept, serverVars
  <2> QED BY <1>1, <1>5, <2>1, ScreenKept, Handled
<1> QED BY <1>4, <1>5 DEF ListSeenByApp

\* The observer of SignUpViewController: an account is asked for only by an
\* email on the list.
LEMMA ListSeenBySignUpInv ==
    ASSUME SessionInv, ListSeenBySignUp, UNCHANGED presses
    PROVE  SessionInv'
<1> DEFINE c == Head(mainq)
           r == [op |-> "create", email |-> c.email, via |-> c.via]
<1>1. /\ mainq # <<>> /\ c.op = "list" /\ c.via # "app" /\ mainq' = Tail(mainq)
      /\ UNCHANGED <<serverVars, screen, message, timeline, status, authVars, listVars>>
      /\ \/ OnList(c) /\ spinner' = FALSE /\ requests' = requests \cup {r}
         \/ UNCHANGED <<spinner, requests>>
  BY DEF ListSeenBySignUp, Callback
<1>2. c \in Callbacks /\ CallbackOK(c)
  BY <1>1, TailOK
<1>3. /\ c.email \in Someone /\ c.list \subseteq Emails /\ c.list \subseteq ever
      /\ c.via \in Controllers
  <2>1. c.email \in Someone /\ c.list \subseteq Emails /\ c.via \in Controllers
    BY <1>1, <1>2 DEF Callbacks
  <2> QED BY <1>1, <1>2, <2>1 DEF CallbackOK
<1>4. OnList(c) => r \in Requests /\ RequestOK(r)
  BY <1>3, EmailsAssumption DEF OnList, Requests, RequestOK, Someone
<1>5. UNCHANGED <<Kept, observers, users, screen, message, timeline, status>>
  BY <1>1 DEF Kept, serverVars, authVars, listVars
<1>6. spinner' \in BOOLEAN
  BY <1>1, ScreenKept
<1> HIDE DEF c, r
<1>7. \A x \in requests' : x \in requests \/ (x \in Requests /\ RequestOK(x))
  BY <1>1, <1>4
<1> QED BY <1>1, <1>5, <1>6, <1>7, ScreenKept, Handled

\* createUser's callback: the account created was on the list; whoever is
\* signed in and confirmed now gets in.
LEMMA CreatedInv ==
    ASSUME SessionInv, Created, UNCHANGED presses
    PROVE  SessionInv'
<1> DEFINE c == Head(mainq)
           r == [op |-> "verify", of |-> user, via |-> c.via]
<1>1. /\ mainq # <<>> /\ c.op = "create"
      /\ UNCHANGED <<Kept>>
  BY DEF Created, Callback, Kept, authVars
<1>2. /\ c.email \in Emails /\ c.via \in Controllers
      /\ c.ok => c.email \in ever /\ c.email \in signedIn
  <2>1. c \in Callbacks /\ CallbackOK(c)
    BY <1>1, TailOK
  <2>2. c \in [op : {"signIn", "create"}, email : Emails, ok : BOOLEAN, via : Controllers]
    BY <1>1, <2>1 DEF Callbacks
  <2> QED BY <1>1, <2>1, <2>2 DEF CallbackOK, MemberHere
<1>3. user # NoUser => /\ r \in Requests /\ RequestOK(r)
                       /\ user \in Emails /\ user \in signedIn
  BY <1>2 DEF SessionInv, TypeOK, Someone, Requests, RequestOK
<1>4. CASE /\ Present(c.via, "other") /\ mainq' = Tail(mainq)
           /\ UNCHANGED <<users, screen, spinner, timeline, status, observers, requests>>
  <2>1. /\ message' \in Alerts /\ (message' = "unverified" => screen' \in {"login", "signup"})
    BY <1>2, <1>4, Presented DEF Alerts
  <2> QED BY <1>1, <1>4, <2>1, ScreenKept, Handled
<1>5. CASE /\ mainq' = Tail(mainq)
           /\ UNCHANGED <<users, screen, message, spinner, timeline, status, observers, requests>>
  BY <1>1, <1>5, ScreenKept, Handled
<1>6. CASE /\ user # NoUser /\ requests' = requests \cup {r} /\ mainq' = Tail(mainq)
           /\ UNCHANGED <<users, screen, message, spinner, timeline, status, observers>>
  <2>1. \A x \in requests' : x \in requests \/ (x \in Requests /\ RequestOK(x))
    <3> HIDE DEF r
    <3> QED BY <1>3, <1>6
  <2> QED BY <1>1, <1>6, <2>1, ScreenKept, Handled
<1>7. CASE /\ c.ok /\ user # NoUser /\ confirmed
           /\ users' = [users EXCEPT ![user] = c.email]
           /\ EnterFrom(c.via, requests \cup {r}, Tail(mainq))
  <2> HIDE DEF r
  <2> DEFINE reqs == requests \cup {r}
  <2>1. reqs \in SUBSET Requests /\ \A x \in reqs : RequestOK(x)
    BY <1>3, <1>7, ScreenKept
  <2>2. MembersOfOld
    BY <1>2, <1>3, <1>7 DEF SessionInv, MembersOfOld
  <2>3. /\ users' \in [Emails -> Someone]
        /\ \A x \in Emails : users'[x] # NoUser => users'[x] \in ever
    BY <1>2, <1>3, <1>7, Document
  <2>4. EnterFrom(c.via, reqs, Tail(mainq))
    BY <1>7
  <2> HIDE DEF reqs
  <2> QED BY <1>1, <2>1, <2>2, <2>3, <2>4, Entered
<1>8. \/ /\ Present(c.via, "other") /\ mainq' = Tail(mainq)
         /\ UNCHANGED <<users, screen, spinner, timeline, status, observers, requests>>
      \/ /\ mainq' = Tail(mainq)
         /\ UNCHANGED <<users, screen, message, spinner, timeline, status, observers, requests>>
      \/ /\ user # NoUser /\ requests' = requests \cup {r} /\ mainq' = Tail(mainq)
         /\ UNCHANGED <<users, screen, message, spinner, timeline, status, observers>>
      \/ /\ c.ok /\ user # NoUser /\ confirmed
         /\ users' = [users EXCEPT ![user] = c.email]
         /\ EnterFrom(c.via, requests \cup {r}, Tail(mainq))
  BY DEF Created
<1> QED BY <1>4, <1>5, <1>6, <1>7, <1>8

\* signIn's callback: whoever is signed in now is asked for anew.
LEMMA SignedInInv ==
    ASSUME SessionInv, SignedIn, UNCHANGED presses
    PROVE  SessionInv'
<1> DEFINE c == Head(mainq)
           r == [op |-> "reload", email |-> c.email, of |-> user, was |-> confirmed,
                 via |-> c.via]
<1>1. /\ mainq # <<>> /\ c.op = "signIn" /\ mainq' = Tail(mainq)
      /\ UNCHANGED <<serverVars, screen, spinner, timeline, status, authVars, listVars>>
      /\ \/ Present(c.via, "other") /\ UNCHANGED requests
         \/ UNCHANGED <<message, requests>>
         \/ c.ok /\ user # NoUser /\ requests' = requests \cup {r} /\ UNCHANGED message
  BY DEF SignedIn, Callback
<1>2. /\ c.email \in Emails /\ c.via \in Controllers
      /\ c.ok => MemberHere(c.email)
  <2>1. c \in Callbacks /\ CallbackOK(c)
    BY <1>1, TailOK
  <2>2. c \in [op : {"signIn", "create"}, email : Emails, ok : BOOLEAN, via : Controllers]
    BY <1>1, <2>1 DEF Callbacks
  <2> QED BY <1>1, <2>1, <2>2 DEF CallbackOK
<1>3. c.ok /\ user # NoUser => r \in Requests /\ RequestOK(r)
  <2>1. /\ user # NoUser => user \in Emails /\ user \in signedIn
        /\ confirmed \in BOOLEAN
        /\ confirmed => user \in verified
    BY DEF SessionInv, TypeOK, Someone
  <2>2. user # NoUser => r \in Requests
    BY <1>2, <2>1 DEF Requests
  <2>3. c.ok /\ user # NoUser => RequestOK(r)
    BY <1>2, <2>1 DEF RequestOK
  <2> QED BY <2>2, <2>3
<1>4. UNCHANGED <<Kept, observers, users, screen, spinner, timeline, status>>
  BY <1>1 DEF Kept, serverVars, authVars, listVars
<1>5. /\ message' \in Alerts /\ (message' = "unverified" => screen' \in {"login", "signup"})
  <2>1. CASE Present(c.via, "other")
    BY <1>2, <1>4, <2>1, Presented DEF Alerts
  <2>2. CASE UNCHANGED message
    BY <1>4, <2>2, ScreenKept
  <2> QED BY <1>1, <2>1, <2>2
<1> HIDE DEF c, r
<1>6. \A x \in requests' : x \in requests \/ (x \in Requests /\ RequestOK(x))
  BY <1>1, <1>3
<1> QED BY <1>1, <1>4, <1>5, <1>6, ScreenKept, Handled

\* reload's callback: the flag is of an account that this phone was signed in
\* to, the email of one that it logged in to.
LEMMA ReloadedInv ==
    ASSUME SessionInv, Reloaded, UNCHANGED presses
    PROVE  SessionInv'
<1> DEFINE c == Head(mainq)
<1>1. /\ mainq # <<>> /\ c.op = "reload" /\ UNCHANGED Kept
  BY DEF Reloaded, Callback, Kept, authVars
<1>2. /\ c.email \in Emails /\ c.via \in Controllers
      /\ MemberHere(c.email) /\ (c.flag => ConfirmedHere)
  <2>1. c \in Callbacks /\ CallbackOK(c)
    BY <1>1, TailOK
  <2>2. c \in [op : {"reload"}, email : Emails, flag : BOOLEAN, via : Controllers]
    BY <1>1, <2>1 DEF Callbacks
  <2> QED BY <1>1, <2>1, <2>2 DEF CallbackOK
<1>3. user \in Someone
  BY DEF SessionInv, TypeOK
<1>4. CASE /\ c.flag
           /\ users' = IF user = NoUser THEN users ELSE [users EXCEPT ![user] = c.email]
           /\ EnterFrom(c.via, requests, Tail(mainq))
  <2>1. MembersOfOld
    BY <1>2, <1>4 DEF MembersOfOld, MemberHere, ConfirmedHere
  <2>2. c.email \in ever
    BY <1>2 DEF MemberHere
  <2>3. /\ users' \in [Emails -> Someone]
        /\ \A x \in Emails : users'[x] # NoUser => users'[x] \in ever
    <3>1. CASE user = NoUser
      BY <1>4, <3>1, ScreenKept
    <3>2. CASE user \in Emails
      BY <1>2, <1>4, <2>2, <3>2, EmailsAssumption, Document
    <3> QED BY <1>3, <3>1, <3>2 DEF Someone
  <2> QED BY <1>1, <1>4, <2>1, <2>3, ScreenKept, Entered
<1>5. CASE /\ Present(c.via, "unverified") /\ mainq' = Tail(mainq)
           /\ UNCHANGED <<users, screen, spinner, timeline, status, observers, requests>>
  <2>1. /\ message' \in Alerts /\ (message' = "unverified" => screen' \in {"login", "signup"})
    BY <1>2, <1>5, Presented DEF Alerts
  <2> QED BY <1>1, <1>5, <2>1, ScreenKept, Handled
<1>6. CASE /\ mainq' = Tail(mainq)
           /\ UNCHANGED <<users, screen, message, spinner, timeline, status, observers, requests>>
  BY <1>1, <1>6, ScreenKept, Handled
<1> QED BY <1>4, <1>5, <1>6 DEF Reloaded

\* The answer to a verification mail only shows an alert.
LEMMA VerificationSentInv ==
    ASSUME SessionInv, VerificationSent, UNCHANGED presses
    PROVE  SessionInv'
<1> DEFINE c == Head(mainq)
<1>1. /\ mainq # <<>> /\ c.op = "verify" /\ mainq' = Tail(mainq)
      /\ UNCHANGED <<serverVars, screen, spinner, timeline, status, authVars, listVars,
                     requests>>
      /\ UNCHANGED message \/ Present(c.via, "other")
  BY DEF VerificationSent, Callback
<1>2. c.via \in Controllers
  BY <1>1, TailOK DEF Callbacks
<1>3. UNCHANGED <<Kept, observers, users, screen, spinner, timeline, status, requests>>
  BY <1>1 DEF Kept, serverVars, authVars, listVars
<1>4. /\ message' \in Alerts /\ (message' = "unverified" => screen' \in {"login", "signup"})
  <2>1. CASE Present(c.via, "other")
    BY <1>2, <1>3, <2>1, Presented DEF Alerts
  <2>2. CASE UNCHANGED message
    BY <1>3, <2>2, ScreenKept
  <2> QED BY <1>1, <2>1, <2>2
<1> QED BY <1>1, <1>3, <1>4, ScreenKept, Handled

-----------------------------------------------------------------------------
(* The specification. *)

\* Before the first launch nobody is in.
LEMMA InitInv == Init => SessionInv
<1> SUFFICES ASSUME Init PROVE SessionInv
  OBVIOUS
<1>1. TypeOK
  <2>1. <<>> \in Seq(Callbacks) /\ <<>> \in Seq(Observers)
    OBVIOUS
  <2> QED BY <2>1 DEF Init, TypeOK, Someone, Alerts
<1> QED BY <1>1 DEF Init, SessionInv, OnlyRegistered, TimelineIsForMembers

\* Every step of Session preserves SessionInv.
LEMMA NextInv == SessionInv /\ [Next]_vars => SessionInv'
<1> SUFFICES ASSUME SessionInv, [Next]_vars PROVE SessionInv'
  OBVIOUS
<1>1. CASE UserStep
  <2>1. \/ \E e \in Emails : LoginButtonPressed(e) \/ GoogleSigninButtonPressed(e)
        \/ \E e \in Someone : SignUpButtonPressed(e)
        \/ UNCHANGED presses /\ GoToLoginScreen
        \/ UNCHANGED presses /\ Kill
        \/ UNCHANGED presses /\ (\/ SignupScreenButton \/ SignUpNothingTyped
                                 \/ DismissAlert \/ SendVerification \/ Logout \/ Launch
                                 \/ \E e \in Emails : LinkFollowed(e))
    BY <1>1 DEF UserStep
  <2> QED BY <2>1, QuietInv, SignUpInv, GoToLoginInv, KillInv
<1>2. CASE ServerStep
  <2>1. \/ UNCHANGED presses /\ AgendaArrived
        \/ UNCHANGED presses /\ (ListUpdate \/ \E e \in Emails : EditList(e))
        \/ \E r \in requests : Answer(r)
    BY <1>2 DEF ServerStep
  <2> QED BY <2>1, QuietInv, ListInv, AnswerInv
<1>3. CASE MainStep
  BY <1>3, GoogleSignedInInv, ListSeenByAppInv, ListSeenBySignUpInv, CreatedInv, SignedInInv,
     ReloadedInv, VerificationSentInv DEF MainStep
<1>4. CASE UNCHANGED vars
  <2>1. /\ UNCHANGED <<registered, accounts, verified, mailed, users, screen, message,
                       spinner, timeline, status, user, confirmed, listen, seen>>
        /\ UNCHANGED <<observers, requests, mainq, ever, signedIn, changes, presses>>
    BY <1>4 DEF vars
  <2>2. TypeOK'
    BY <2>1 DEF SessionInv, TypeOK
  <2>3. /\ OnlyRegistered' /\ TimelineIsForMembers'
        /\ registered' \cup seen' \subseteq ever'
        /\ user' # NoUser => user' \in signedIn'
        /\ confirmed' => user' \in verified'
        /\ message' = "unverified" => screen' \in {"login", "signup"}
    BY <2>1 DEF SessionInv, OnlyRegistered, TimelineIsForMembers
  <2> QED BY <2>1, <2>2, <2>3, Preserved
<1> QED BY <1>1, <1>2, <1>3, <1>4 DEF Next

\* Every request, callback and observer of the list speaks of somebody this
\* phone was signed in to, or of an email that was on the list: SessionInv
\* holds throughout, whatever happens between a request and its callback.
THEOREM SessionInvariant == Spec => []SessionInv
BY InitInv, NextInv, PTL DEF Spec

\* The screens, the queues and what waits in them are what the model says.
THEOREM SessionTypeCorrect == Spec => []TypeOK
<1>1. SessionInv => TypeOK
  BY DEF SessionInv
<1> QED BY <1>1, SessionInvariant, PTL

\* Neither an account with a password nor a place in users is ever given to an
\* email that was not on the list, however stale the copy the observers of
\* AppDelegate and SignUpViewController compare with.
THEOREM OnlyInvitedGetIn == Spec => []OnlyRegistered
<1>1. SessionInv => OnlyRegistered
  BY DEF SessionInv
<1> QED BY <1>1, SessionInvariant, PTL

\* The flag with which AppDelegate opens the timeline at launch is set only on
\* a phone that was signed in to a registered and to a confirmed account.
THEOREM TimelineNeedsASignIn == Spec => []TimelineIsForMembers
<1>1. SessionInv => TimelineIsForMembers
  BY DEF SessionInv
<1> QED BY <1>1, SessionInvariant, PTL
=============================================================================
