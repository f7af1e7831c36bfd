------------------------- MODULE SessionProperties -------------------------
(***************************************************************************)
(* Who gets into the app, and what its documents and alerts say of it.     *)
(***************************************************************************)
EXTENDS Session

\* Only the email of an invited participant ever gets a password account or a
\* place in the node users: AppDelegate and SignUpViewController compare with
\* a copy of registeredEmails that may be stale, in observers that run again
\* long after the press, on another screen or in another session.
OnlyRegistered ==
    /\ accounts \subseteq ever
    /\ \A e \in Emails : users[e] # NoUser => users[e] \in ever

\* A phone that opens on the timeline has been signed in to an account whose
\* email was registered, and to one whose email was confirmed (README.md:35).
\* They need not be the same account: each callback reads currentUser anew.
TimelineIsForMembers ==
    status => signedIn \cap ever # {} /\ signedIn \cap verified # {}

\* A press of Log In is answered, by the timeline or by an alert: at the latest
\* once the account has been reloaded.  Only if it was signed out again before
\* the callback looked for it (guard let user) nothing is said.
Answered == message # "none" \/ screen # "login"
LoginIsAnswered ==
    /\ \A e \in Emails :
          [op |-> "signIn", email |-> e, via |-> "login"] \in requests
              ~> \/ Answered \/ Op(requests, "reload") # {}
                 \/ Callback("signIn") /\ Head(mainq).ok /\ user = NoUser
    /\ \A r \in Op(Requests, "reload") :
          (r \in requests /\ r.via = "login") ~> Answered

-----------------------------------------------------------------------------
(* What the documents and alerts say and Session refutes (see README.md). *)

\* README.md:35, "If you sign up with email, you will have to confirm your
\* email address": who is entered in users with an email has confirmed it.
EnteredOnceConfirmed ==
    \A e \in Emails : users[e] # NoUser => users[e] \in verified

\* "Contact an organizer. You do not seem to be registered."
\* (SignUpViewController.swift:101) comes up for emails not on the list.
ToldOnlyIfUnregistered ==
    [][message = "none" /\ message' = "notRegistered"
          => observers'[Len(observers')].email \notin registered]_vars

-----------------------------------------------------------------------------
(* An inductive invariant that implies the safety properties above
   (SessionProofs). *)

\* This phone was signed in to a confirmed account; to the one named e, which
\* was on the list.
ConfirmedHere == signedIn \cap verified # {}
MemberHere(e) == e \in signedIn \cap ever

\* Only emails found on the list are made accounts; who is asked for anew was
\* signed in with the email that he logged in with.
RequestOK(r) ==
    /\ r.op = "create" => r.email \in ever
    /\ r.op = "reload" => /\ MemberHere(r.email) /\ r.of \in signedIn
                          /\ r.was => r.of \in verified

\* What a callback says of the past still holds when it is run.
CallbackOK(c) ==
    /\ c.op \in {"signIn", "create"} /\ c.ok => MemberHere(c.email)
    /\ c.op = "reload" => MemberHere(c.email) /\ (c.flag => ConfirmedHere)
    /\ c.op = "google" => ConfirmedHere
    /\ c.op = "list" =>
          /\ c.list \subseteq ever
          /\ c.via = "app" => ConfirmedHere /\ (c.email # NoUser => c.email \in signedIn)

\* The observers of AppDelegate look for whoever Google had signed in.
ObserverOK(o) ==
    o.via = "app" => ConfirmedHere /\ (o.email # NoUser => o.email \in signedIn)

SessionInv ==
    /\ TypeOK
    /\ registered \cup seen \subseteq ever
    /\ user # NoUser => user \in signedIn
    /\ confirmed => user \in verified
    /\ message = "unverified" => screen \in {"login", "signup"}
    /\ \A r \in requests : RequestOK(r)
    /\ \A i \in DOMAIN mainq : CallbackOK(mainq[i])
    /\ \A i \in DOMAIN observers : ObserverOK(observers[i])
    /\ OnlyRegistered
    /\ TimelineIsForMembers
=============================================================================
