------------------------------ MODULE Session -------------------------------
(***************************************************************************)
(* Getting into the app on one phone: AppDelegate (launch, Google sign-in),*)
(* ViewController (log in), SignUpViewController and the logout row of     *)
(* BottomMenuVC, over Firebase Auth and the list registeredEmails.         *)
(*                                                                         *)
(* Every request to Auth is answered on the main queue in a callback that  *)
(* reads Auth.auth().currentUser anew, and every observer of the list      *)
(* outlives the screen and the session that registered it.  An account is  *)
(* named by its email.                                                     *)
(***************************************************************************)
EXTENDS Naturals, Sequences, FiniteSets

CONSTANTS
    Emails,
    NoUser,        \* nil, and the empty email field
    MaxCalls,      \* bound: requests and callbacks waiting at a user's step
    MaxObservers,  \* bound: observers of the list in one process
    MaxChanges,    \* bound: changes of the list
    MaxPresses     \* bound: sign-ins and sign-ups begun

ASSUME EmailsAssumption == NoUser \notin Emails
ASSUME BoundsAssumption ==
    /\ MaxCalls \in Nat /\ MaxObservers \in Nat
    /\ MaxChanges \in Nat /\ MaxPresses \in Nat

VARIABLES
    registered,   \* the list registeredEmails on the server
    accounts,     \* emails with a password account
    verified,     \* emails that Auth has seen confirmed
    mailed,       \* emails to which a verification link was sent
    users,        \* users[e]: what the phone wrote to users/<uid of e>
    screen,       \* "off", "login", "signup" or "agenda" and what it leads to
    message,      \* the alert on the screen
    spinner,      \* activityindicator, one for all screens, is animating
    timeline,     \* an AgendaVC of this process observes the agenda
    status,       \* UserDefaults "status"
    user,         \* Auth's currentUser
    confirmed,    \* its isEmailVerified
    listen,       \* "none", "wait" or "synced": the listen on the list
    seen,         \* the SDK's copy of the list
    observers,    \* the observers of the list, in the order registered
    requests,     \* requests to Auth not yet answered
    mainq,        \* callbacks waiting on the main queue
    ever,         \* history: every email that was ever on the list
    signedIn,     \* history: every account this phone was signed in as
    changes,      \* how often the list has changed
    presses       \* how often a sign-in or a sign-up was begun

serverVars == <<registered, accounts, verified, mailed, users, ever, changes>>
listVars == <<listen, seen, observers>>
authVars == <<user, confirmed, signedIn>>
uiVars == <<screen, message, spinner, timeline, status>>
vars == <<registered, accounts, verified, mailed, users, screen, message,
          spinner, timeline, status, user, confirmed, listen, seen, observers, requests,
          mainq, ever, signedIn, changes, presses>>

Someone == Emails \cup {NoUser}
Alerts == {"none", "notRegistered", "unverified", "other"}

\* The controller that a callback belongs to; once it is off the screen for
\* good it is "covered": below another one, or only held by a closure.
Controllers == {"login", "signup", "covered"}

Requests ==
    [op : {"signIn", "create"}, email : Emails, via : Controllers]
        \cup [op : {"google"}, email : Emails, via : {"app"}]
        \cup [op : {"reload"}, email : Emails, of : Emails, was : BOOLEAN,
              via : Controllers]
        \cup [op : {"verify"}, of : Emails, via : Controllers]

Callbacks ==
    [op : {"signIn", "create"}, email : Emails, ok : BOOLEAN, via : Controllers]
        \cup [op : {"google"}]
        \cup [op : {"reload"}, email : Emails, flag : BOOLEAN, via : Controllers]
        \cup [op : {"verify"}, ok : BOOLEAN, via : Controllers]
        \cup [op : {"list"}, email : Someone, list : SUBSET Emails,
              via : Controllers \cup {"app"}]

Observers == [email : Someone, via : Controllers \cup {"app"}]

TypeOK ==
    /\ registered \subseteq Emails /\ accounts \subseteq Emails
    /\ verified \subseteq Emails /\ mailed \subseteq Emails
    /\ users \in [Emails -> Someone]
    /\ screen \in {"off", "login", "signup", "agenda"}
    /\ message \in Alerts
    /\ spinner \in BOOLEAN /\ timeline \in BOOLEAN /\ status \in BOOLEAN
    /\ user \in Someone /\ confirmed \in BOOLEAN
    /\ listen \in {"none", "wait", "synced"} /\ seen \subseteq Emails
    /\ observers \in Seq(Observers)
    /\ requests \subseteq Requests
    /\ mainq \in Seq(Callbacks)
    /\ ever \subseteq Emails /\ signedIn \subseteq Emails
    /\ changes \in Nat /\ presses \in Nat

Init ==
    /\ registered \in SUBSET Emails /\ ever = registered
    /\ changes = 0 /\ presses = 0
    /\ accounts = {} /\ verified = {} /\ mailed = {}
    /\ users = [e \in Emails |-> NoUser]
    /\ screen = "login" /\ message = "none"
    /\ spinner = FALSE /\ timeline = FALSE /\ status = FALSE
    /\ user = NoUser /\ confirmed = FALSE /\ signedIn = {}
    /\ listen = "none" /\ seen = {} /\ observers = <<>>
    /\ requests = {} /\ mainq = <<>>

-----------------------------------------------------------------------------
(* Screens, alerts and who answers to whom *)

Room == Cardinality(requests) + Len(mainq) < MaxCalls
Press == presses < MaxPresses /\ presses' = presses + 1

\* The user can touch screen s: no alert covers it.
At(s) == screen = s /\ message = "none"

\* present(alert) and performSegue work only from a controller on the screen
\* that presents nothing yet.
Present(via, alert) == message' = IF At(via) THEN alert ELSE message

\* The controllers gone leave the screen; their callbacks will still come.
Covered(x, gone) ==
    IF "via" \in DOMAIN x /\ x.via \in gone THEN [x EXCEPT !.via = "covered"] ELSE x
Leave(gone, reqs, queue) ==
    /\ requests' = {Covered(r, gone) : r \in reqs}
    /\ observers' = [i \in DOMAIN observers |-> Covered(observers[i], gone)]
    /\ mainq' = [i \in DOMAIN queue |-> Covered(queue[i], gone)]

\* AgendaVC's viewDidLoad: it, too, says that someone has logged in.
ShowAgenda ==
    /\ screen' = "agenda" /\ message' = "none"
    /\ spinner' = TRUE /\ timeline' = TRUE /\ status' = TRUE

\* performSegue to the agenda, or its refusal: status is set in any case.
EnterFrom(via, reqs, queue) ==
    IF At(via)
    THEN ShowAgenda /\ Leave({"login", "signup"}, reqs, queue)
    ELSE /\ status' = TRUE /\ requests' = reqs /\ mainq' = queue
         /\ UNCHANGED <<screen, message, spinner, timeline, observers>>

\* What an observer is told; one is told as soon as the SDK has the list.
Event(o, list) ==
    [op |-> "list", email |-> o.email, list |-> list, via |-> o.via]
Events(list) == [i \in DOMAIN observers |-> Event(observers[i], list)]

ObserveList(o, queue) ==
    /\ observers' = Append(observers, o)
    /\ listen' = IF listen = "none" THEN "wait" ELSE listen
    /\ mainq' = IF listen = "synced" THEN Append(queue, Event(o, seen)) ELSE queue
    /\ UNCHANGED seen

-----------------------------------------------------------------------------
(* The user *)

\* (mutant) the fields may be empty
LoginWithEmptyFields(e) ==
    /\ At("login") /\ Room /\ Press
    /\ \E email \in {e, NoUser} :
          requests' = requests \cup {[op |-> "signIn", email |-> email, via |-> "login"]}
    /\ UNCHANGED <<serverVars, uiVars, authVars, listVars, mainq>>

LoginButtonPressed(e) ==
    /\ At("login") /\ Room /\ Press
    /\ requests' = requests \cup {[op |-> "signIn", email |-> e, via |-> "login"]}
    /\ UNCHANGED <<serverVars, uiVars, authVars, listVars, mainq>>

GoogleSigninButtonPressed(e) ==
    /\ At("login") /\ Room /\ Len(observers) < MaxObservers /\ Press
    /\ requests' = requests \cup {[op |-> "google", email |-> e, via |-> "app"]}
    /\ UNCHANGED <<serverVars, uiVars, authVars, listVars, mainq>>

SignupScreenButton ==
    /\ At("login")
    /\ screen' = "signup"
    /\ UNCHANGED <<serverVars, message, spinner, timeline, status, authVars, listVars,
                   requests, mainq>>

GoToLoginScreen ==
    /\ At("signup")
    /\ screen' = "login"
    /\ Leave({"signup"}, requests, mainq)
    /\ UNCHANGED <<serverVars, message, spinner, timeline, status, authVars, listen, seen>>

\* One of the two fields suffices.  The spinner started in this very method is
\* still animating at its end, so the alert comes up and stops it, before the
\* list can have been looked at.
SignUpButtonPressed(e) ==
    /\ At("signup") /\ Room /\ Len(observers) < MaxObservers /\ Press
    /\ message' = "notRegistered" /\ spinner' = FALSE
    /\ ObserveList([email |-> e, via |-> "signup"], mainq)
    /\ UNCHANGED <<serverVars, screen, timeline, status, authVars, requests>>

SignUpNothingTyped ==
    /\ At("signup")
    /\ message' = "other"
    /\ UNCHANGED <<serverVars, screen, spinner, timeline, status, authVars, listVars,
                   requests, mainq>>

DismissAlert ==
    /\ message # "none"
    /\ message' = "none"
    /\ UNCHANGED <<serverVars, screen, spinner, timeline, status, authVars, listVars,
                   requests, mainq>>

\* "Yes" in the alert about the unverified email.
SendVerification ==
    /\ message = "unverified" /\ Room
    /\ message' = "none"
    /\ requests' = requests \cup
          (IF user = NoUser THEN {} ELSE {[op |-> "verify", of |-> user, via |-> screen]})
    /\ UNCHANGED <<serverVars, screen, spinner, timeline, status, authVars, listVars,
                   mainq>>

\* The link in the mail is followed, on any device.
LinkFollowed(e) ==
    /\ e \in mailed \ verified
    /\ verified' = verified \cup {e}
    /\ UNCHANGED <<registered, accounts, mailed, users, ever, changes, uiVars,
                   authVars, listVars, requests, mainq>>

\* status is cleared first; if signOut fails nothing else happens.
Logout ==
    /\ At("agenda")
    /\ status' = FALSE
    /\ \/ user' = NoUser /\ confirmed' = FALSE /\ screen' = "login"
       \/ UNCHANGED <<user, confirmed, screen>>
    /\ UNCHANGED <<serverVars, message, spinner, timeline, signedIn, listVars,
                   requests, mainq>>

Op(reqs, op) == {r \in reqs : r.op = op}

\* The process dies; the server may still carry out a request it has received.
Kill ==
    /\ screen # "off"
    /\ screen' = "off" /\ message' = "none"
    /\ spinner' = FALSE /\ timeline' = FALSE
    /\ \E received \in SUBSET requests :
          /\ accounts' = accounts \cup {r.email : r \in Op(received, "create")}
          /\ verified' = verified \cup {r.email : r \in Op(received, "google")}
          /\ mailed' = mailed \cup {r.of : r \in Op(received, "verify")}
    /\ listen' = "none" /\ seen' = {} /\ observers' = <<>>
    /\ requests' = {} /\ mainq' = <<>>
    /\ UNCHANGED <<registered, users, ever, changes, status, authVars>>

\* (mutant) status is not looked at
LaunchOnAgenda ==
    /\ screen = "off"
    /\ ShowAgenda
    /\ UNCHANGED <<serverVars, authVars, listVars, requests, mainq>>

\* didFinishLaunchingWithOptions
Launch ==
    /\ screen = "off"
    /\ IF status THEN ShowAgenda
       ELSE screen' = "login" /\ UNCHANGED <<message, spinner, timeline, status>>
    /\ UNCHANGED <<serverVars, authVars, listVars, requests, mainq>>

-----------------------------------------------------------------------------
(* The servers *)

\* An organizer adds an email to the list or removes one.
EditList(e) ==
    /\ changes < MaxChanges
    /\ changes' = changes + 1
    /\ registered' \in {registered \cup {e}, registered \ {e}} \ {registered}
    /\ ever' = ever \cup registered'
    /\ UNCHANGED <<accounts, verified, mailed, users, uiVars, authVars, listVars,
                   requests, mainq>>

\* The SDK learns of the list, or of a change, and tells every observer.
ListUpdate ==
    /\ listen = "wait" \/ (listen = "synced" /\ seen # registered)
    /\ listen' = "synced" /\ seen' = registered
    /\ mainq' = mainq \o Events(registered)
    /\ UNCHANGED <<serverVars, uiVars, authVars, observers, requests>>

SignedInAs(e, flag) ==
    user' = e /\ confirmed' = flag /\ signedIn' = signedIn \cup {e}

SignInAnswered(r) ==
    /\ r.op = "signIn"
    /\ \E ok \in BOOLEAN :
          /\ ok => r.email \in accounts
          /\ IF ok THEN SignedInAs(r.email, r.email \in verified)
                   ELSE UNCHANGED authVars
          /\ mainq' = Append(mainq, [op |-> "signIn", email |-> r.email,
                                     ok |-> ok, via |-> r.via])
    /\ UNCHANGED serverVars

\* Google vouches for the email; an error is only printed.
GoogleAnswered(r) ==
    /\ r.op = "google"
    /\ \/ /\ verified' = verified \cup {r.email}
          /\ SignedInAs(r.email, TRUE)
          /\ mainq' = Append(mainq, [op |-> "google"])
          /\ UNCHANGED <<registered, accounts, mailed, users, ever, changes>>
       \/ UNCHANGED <<serverVars, authVars, mainq>>

\* createUser signs the new account in.
CreateAnswered(r) ==
    /\ r.op = "create"
    /\ \E ok \in BOOLEAN :
          /\ ok => r.email \notin accounts \cup verified
          /\ IF ok THEN /\ accounts' = accounts \cup {r.email}
                        /\ SignedInAs(r.email, FALSE)
                   ELSE UNCHANGED <<accounts, authVars>>
          /\ mainq' = Append(mainq, [op |-> "create", email |-> r.email,
                                     ok |-> ok, via |-> r.via])
    /\ UNCHANGED <<registered, verified, mailed, users, ever, changes>>

\* signOutIfTokenIsInvalid, when a request in the name of e is refused
SignedOut(e) ==
    /\ user' = IF user = e THEN NoUser ELSE user
    /\ confirmed' = (confirmed /\ user # e)
    /\ UNCHANGED signedIn

\* An error of reload is ignored: the callback sees the flag as it was.
ReloadAnswered(r) ==
    /\ r.op = "reload"
    /\ \E ok \in BOOLEAN :
          /\ \/ /\ ok /\ confirmed' = IF user = r.of THEN r.of \in verified ELSE confirmed
                /\ UNCHANGED <<user, signedIn>>
             \/ ~ok /\ SignedOut(r.of)
             \/ ~ok /\ UNCHANGED authVars
          /\ mainq' = Append(mainq,
                [op |-> "reload", email |-> r.email, via |-> r.via,
                 flag |-> IF ok THEN r.of \in verified ELSE r.was])
    /\ UNCHANGED serverVars

VerifyAnswered(r) ==
    /\ r.op = "verify"
    /\ \E ok \in BOOLEAN :
          /\ \/ ok /\ mailed' = mailed \cup {r.of} /\ UNCHANGED authVars
             \/ ~ok /\ SignedOut(r.of) /\ UNCHANGED mailed
             \/ ~ok /\ UNCHANGED <<authVars, mailed>>
          /\ mainq' = Append(mainq, [op |-> "verify", ok |-> ok, via |-> r.via])
    /\ UNCHANGED <<registered, accounts, verified, users, ever, changes>>

Answer(r) ==
    /\ r \in requests
    /\ requests' = requests \ {r}
    /\ \/ SignInAnswered(r) \/ GoogleAnswered(r) \/ CreateAnswered(r)
       \/ ReloadAnswered(r) \/ VerifyAnswered(r)
    /\ UNCHANGED <<uiVars, listVars, presses>>

-----------------------------------------------------------------------------
(* The main queue *)

Callback(op) == mainq # <<>> /\ Head(mainq).op = op

\* sign(_:didSignInFor:): look for whoever is signed in now on the list.
GoogleSignedIn ==
    /\ Callback("google")
    /\ spinner' = TRUE
    /\ ObserveList([email |-> user, via |-> "app"], Tail(mainq))
    /\ UNCHANGED <<serverVars, screen, message, timeline, status, authVars, requests>>

\* (mutant) the email is on the list if anything is
OnAnyList(c) == c.list # {}

\* regmail == email, for some child of the snapshot
OnList(c) == c.email \in c.list

\* The observer of AppDelegate: the agenda replaces whatever is on the screen.
\* If the email is not on the list nothing happens: no string that "status" can
\* have is "false", so the alert that ends the spinner is never shown.
ListSeenByApp ==
    /\ Callback("list") /\ Head(mainq).via = "app"
    /\ \/ /\ OnList(Head(mainq))
          /\ users' = [users EXCEPT ![Head(mainq).email] = Head(mainq).email]
          /\ ShowAgenda
          /\ Leave({"login", "signup"}, requests, Tail(mainq))
          /\ UNCHANGED <<registered, accounts, verified, mailed, ever, changes>>
       \/ /\ ~OnList(Head(mainq))
          /\ mainq' = Tail(mainq)
          /\ UNCHANGED <<serverVars, screen, message, spinner, timeline, status, observers,
                         requests>>
    /\ UNCHANGED <<authVars, listen, seen>>

\* The observer of SignUpViewController, run again at every change of the list.
ListSeenBySignUp ==
    /\ Callback("list") /\ Head(mainq).via # "app"
    /\ mainq' = Tail(mainq)
    /\ IF OnList(Head(mainq))
       THEN /\ spinner' = FALSE
            /\ requests' = requests \cup
                  {[op |-> "create", email |-> Head(mainq).email, via |-> Head(mainq).via]}
       ELSE UNCHANGED <<spinner, requests>>
    /\ UNCHANGED <<serverVars, screen, message, timeline, status, authVars, listVars>>

\* createUser's callback: a link is sent to whoever is signed in now, who also
\* gets in if confirmed.
Created ==
    LET c == Head(mainq)
        asked == requests \cup {[op |-> "verify", of |-> user, via |-> c.via]}
    IN
    /\ Callback("create")
    /\ \/ /\ ~c.ok
          /\ Present(c.via, "other")
          /\ mainq' = Tail(mainq)
          /\ UNCHANGED <<users, screen, spinner, timeline, status, observers, requests>>
       \/ /\ c.ok /\ user = NoUser
          /\ mainq' = Tail(mainq)
          /\ UNCHANGED <<users, screen, message, spinner, timeline, status, observers, requests>>
       \/ /\ c.ok /\ user # NoUser /\ ~confirmed
          /\ requests' = asked /\ mainq' = Tail(mainq)
          /\ UNCHANGED <<users, screen, message, spinner, timeline, status, observers>>
       \/ /\ c.ok /\ user # NoUser /\ confirmed
          /\ users' = [users EXCEPT ![user] = c.email]
          /\ EnterFrom(c.via, asked, Tail(mainq))
    /\ UNCHANGED <<registered, accounts, verified, mailed, ever, changes,
                   authVars, listen, seen>>

\* signIn's callback: whoever is signed in now is asked for anew.  [weak self]:
\* a covered controller may have been deallocated, and then shows nothing.
SignedIn ==
    LET c == Head(mainq) IN
    /\ Callback("signIn")
    /\ mainq' = Tail(mainq)
    /\ \/ ~c.ok /\ Present(c.via, "other") /\ UNCHANGED requests
       \/ c.ok /\ user = NoUser /\ UNCHANGED <<message, requests>>
       \/ /\ c.ok /\ user # NoUser
          /\ requests' = requests \cup {[op |-> "reload", email |-> c.email,
                                        of |-> user, was |-> confirmed, via |-> c.via]}
          /\ UNCHANGED message
    /\ UNCHANGED <<serverVars, screen, spinner, timeline, status, authVars, listVars>>

\* (mutant) the answer to a login with an unconfirmed email is lost
ReloadedSilently ==
    LET c == Head(mainq) IN
    /\ Callback("reload")
    /\ IF c.flag
       THEN EnterFrom(c.via, requests, Tail(mainq))
       ELSE mainq' = Tail(mainq)
            /\ UNCHANGED <<screen, message, spinner, timeline, status, observers, requests>>
    /\ UNCHANGED <<serverVars, authVars, listen, seen>>

\* reload's callback: the flag is of the user reloaded, the uid of the user now.
Reloaded ==
    LET c == Head(mainq) IN
    /\ Callback("reload")
    /\ \/ /\ c.flag
          /\ users' = IF user = NoUser THEN users
                      ELSE [users EXCEPT ![user] = c.email]
          /\ EnterFrom(c.via, requests, Tail(mainq))
       \/ /\ ~c.flag
          /\ Present(c.via, "unverified")
          /\ mainq' = Tail(mainq)
          /\ UNCHANGED <<users, screen, spinner, timeline, status, observers, requests>>
       \/ /\ c.via = "covered"                             \* guard let strongSelf
          /\ mainq' = Tail(mainq)
          /\ UNCHANGED <<users, screen, message, spinner, timeline, status, observers, requests>>
    /\ UNCHANGED <<registered, accounts, verified, mailed, ever, changes,
                   authVars, listen, seen>>

\* sendEmailVerification's callback; SignUpViewController says nothing of errors.
VerificationSent ==
    LET c == Head(mainq) IN
    /\ Callback("verify")
    /\ mainq' = Tail(mainq)
    /\ IF c.via = "signup" /\ ~c.ok THEN UNCHANGED message ELSE Present(c.via, "other")
    /\ UNCHANGED <<serverVars, screen, spinner, timeline, status, authVars, listVars,
                   requests>>

\* AgendaVC's observer: at first, and at every change of the agenda.
AgendaArrived ==
    /\ timeline /\ spinner
    /\ spinner' = FALSE
    /\ UNCHANGED <<serverVars, screen, message, timeline, status, authVars, listVars,
                   requests, mainq>>

MainStep ==
    /\ \/ GoogleSignedIn \/ ListSeenByApp \/ ListSeenBySignUp \/ Created
       \/ SignedIn \/ Reloaded \/ VerificationSent
    /\ UNCHANGED presses

-----------------------------------------------------------------------------
UserStep ==
    \/ \E e \in Emails : LoginButtonPressed(e) \/ GoogleSigninButtonPressed(e)
    \/ \E e \in Someone : SignUpButtonPressed(e)
    \/ /\ \/ SignupScreenButton \/ GoToLoginScreen \/ SignUpNothingTyped
          \/ DismissAlert \/ SendVerification \/ Logout \/ Kill \/ Launch
          \/ \E e \in Emails : LinkFollowed(e)
       /\ UNCHANGED presses

ServerStep ==
    \/ (ListUpdate \/ AgendaArrived \/ \E e \in Emails : EditList(e)) /\ UNCHANGED presses
    \/ \E r \in requests : Answer(r)

Next == UserStep \/ ServerStep \/ MainStep

Spec == Init /\ [][Next]_vars

\* The main queue is served; Auth answers, if only with an error, in the end.
Fairness ==
    /\ WF_vars(MainStep)
    /\ \A r \in Requests : WF_vars(Answer(r))

FairSpec == Spec /\ Fairness
=============================================================================
