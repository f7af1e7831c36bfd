------------------------ MODULE RedemptionProperties ------------------------
(***************************************************************************)
(* What must hold of the coupon desk, and what its documents say of it.    *)
(***************************************************************************)
EXTENDS Redemption

\* Redemptions that d has reported and not yet seen confirmed: written to the
\* SDK's client, or still on the way to it.
Owed(d) ==
    pending[d] \cup {<<fbq[d][i].u, fbq[d][i].c>> :
                        i \in {j \in DOMAIN fbq[d] : fbq[d][j].op = "set"}}

\* Whatever the phones do, the attendance records behave as the ledger of
\* CouponLedger: a redemption is owed only after the device heard the key of
\* that coupon, reaches the server only if owed, is struck off only once
\* recorded, or refused, or with the process, and is never removed from the
\* server.  validateToken compares with globals that other callbacks and
\* screens overwrite between the comparison and the write.
Ledger == INSTANCE CouponLedger WITH
              alive <- {d \in Devices : Running(d)},
              owed <- [d \in Devices |-> Owed(d)],
              ledger <- records
RefinesLedger == Ledger!Spec

\* A record exists only for a coupon whose key some phone has received: the
\* row selected, the key compared with and the node written are of one coupon
\* although they are kept in separate globals (token, currentT) that outlive
\* the screen that set them.
NoRecordWithoutKey ==
    \A r \in records : \E d \in Devices : KeyOf[r[2]] \in heard[d]

\* A coupon shown as "Redeemed" was redeemed by the account now signed in
\* (README.md:36, "Once redeemed you will be able to see the redeemed status
\* there itself"): the record is on the server or still a write of this phone,
\* unless the rules have refused it, for reedeemedArr is filled by callbacks
\* and never emptied, not even when a write is undone or the copy is lost.
RedeemedStatusIsOwn ==
    \A d \in Devices : \A c \in Coupons :
        (user[d] # NoUser /\ c \in app[d].reedeemedArr)
            => <<user[d], c>> \in Current(d) \cup refused

\* README.md:36, "You can redeem only one coupon for one meal": no account is
\* told twice that it has just redeemed the same coupon.
OneCouponPerMeal == \A r \in Records : served[r] <= 1

\* FoodCoupons.swift:114 asserts (currentUser!) that someone is signed in
\* whenever the attendance data changes: the app never dies of it.  Redemption
\* refutes it (see README.md).
NeverCrashes == \A d \in Devices : proc[d] # "crashed"

\* Once the write is in the SDK's client, the status of that coupon turns to
\* redeemed on that phone without any further act of its user, online or not:
\* the write's own event makes check() find it.  A phone that has lost its
\* listen has no observer to be told.
RedeemedStatusAppears ==
    \A d \in Devices : \A u \in Users : \A c \in Coupons :
        (user[d] = u /\ <<u, c>> \in pending[d])
            ~> \/ c \in app[d].reedeemedArr \/ ~Synced(d)
               \/ user[d] # u \/ ~Running(d) \/ <<u, c>> \notin LocalData(d)

\* validateToken may have to wait for the server: token and currentT survive
\* the loss of the listen and a logout, so a key can come before there is a
\* copy.  No validation waits for ever, whatever becomes of the listens: the
\* answer comes with the list, or from the read's own listen (or a refusal,
\* of which the app shows nothing).
ValidationIsAnswered ==
    \A d \in Devices : \A r \in Records :
        (waiting[d][r] # <<>>) ~> (waiting[d][r] = <<>>)

\* A redemption that was announced reaches the organizers' list once the
\* network is back, although the app never looks at the outcome of setValue;
\* only the death of the process or the rules can prevent it.
RedemptionIsDelivered ==
    \A d \in Devices : \A r \in Records :
        (r \in Owed(d)) ~> (r \in records \cup refused \/ ~Running(d))

-----------------------------------------------------------------------------
(* An inductive invariant that implies the safety properties above that hold
   of every use of the app (RedemptionProofs). *)

\* The two globals of the selection are of one coupon.
SelectionPaired(d) ==
    app[d].currentT # NoCoupon => app[d].token = KeyOf[app[d].currentT]

\* The copy holds only what the server has recorded, none without a listen;
\* a read waits only for what the phone cannot answer.
CopyIsOld(d) ==
    /\ cache[d] \subseteq records
    /\ ~Synced(d) => cache[d] = {}
    /\ \A r \in Records : waiting[d][r] # <<>> => ~Answerable(d, r)

\* Every validation and every write on its way is of a coupon whose key matched.
KeyHeard(d) ==
    /\ \A i \in DOMAIN fbq[d] :
          fbq[d][i].op \in {"read", "set"} => KeyOf[fbq[d][i].c] \in heard[d]
    /\ \A i \in DOMAIN mainq[d] :
          mainq[d][i].op = "read" => KeyOf[mainq[d][i].c] \in heard[d]
    /\ \A r \in Records : \A i \in DOMAIN waiting[d][r] :
          waiting[d][r][i] # "check" => KeyOf[r[2]] \in heard[d]
    /\ \A r \in pending[d] : KeyOf[r[2]] \in heard[d]

DeskInv ==
    /\ TypeOK
    /\ \A d \in Devices : SelectionPaired(d) /\ CopyIsOld(d) /\ KeyHeard(d)
    /\ NoRecordWithoutKey
=============================================================================
