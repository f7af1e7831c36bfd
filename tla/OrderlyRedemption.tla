------------------------- MODULE OrderlyRedemption --------------------------
(***************************************************************************)
(* The code keeps "one coupon for one meal" only under a discipline that   *)
(* it does not enforce.  This module states the discipline and what it     *)
(* buys: one account per phone and one phone per account, one validation   *)
(* in flight at a time, a process that ends only when its writes have been *)
(* acknowledged, and rules that refuse none of them.                       *)
(***************************************************************************)
EXTENDS RedemptionProperties

CONSTANT Owner    \* Owner[d]: the only account used on d

ASSUME OwnerAssumption ==
    /\ Owner \in [Devices -> Users]
    /\ \A d, e \in Devices : Owner[d] = Owner[e] => d = e

Undecided(d) ==
    {<<1, i>> : i \in {j \in DOMAIN fbq[d] : fbq[d][j].op = "read"}}
        \cup {<<2, i>> : i \in {j \in DOMAIN mainq[d] : mainq[d][j].op = "read"}}
        \cup {<<3, w>> : w \in {v \in Reads(d) : waiting[d][v[1]][v[2]] # "check"}}

OneAtATime(d) == \A v, w \in Undecided(d) : v = w

Orderly ==
    \A d \in Devices :
        /\ user'[d] \in {Owner[d], NoUser}
        /\ OneAtATime(d)'
        /\ Running(d) /\ ~Running(d)' => Owed(d) = {}
        /\ \A r \in pending[d] \ pending'[d] : AckWrite(d, r)

OrderlySpec == Init /\ [][Next /\ Orderly]_vars

\* Under the discipline a success that was shown is not lost: it is on the
\* server, or the phone that showed it still owes it.
AnnouncedIsKept ==
    \A d \in Devices : \A c \in Coupons :
        served[<<Owner[d], c>>] > 0
            => <<Owner[d], c>> \in records \cup Owed(d)

\* ... and it is visible on its owner's phone to the next validation, which
\* is why that one is told "already reedeemed" (AppDelegate.swift:146).
AnnouncedIsSeen ==
    \A d \in Devices : \A c \in Coupons :
        (served[<<Owner[d], c>>] > 0 /\ Synced(d))
            => <<Owner[d], c>> \in LocalData(d) \cup Owed(d)

-----------------------------------------------------------------------------
(* An inductive invariant of OrderlySpec that implies all three
   (RedemptionProofs). *)

\* In a queue of calls: they are all of account o, and no write comes after a
\* validation, for the write of the one before was queued when it was decided.
Tidy(q, o) ==
    /\ \A i \in DOMAIN q : q[i].op \in {"read", "set"} => q[i].u = o
    /\ \A i, j \in DOMAIN q : q[i].op = "read" /\ q[j].op = "set" => j < i

\* A validation that waits is of account o, and no write is on its way to the
\* client: the one before it had arrived when the read was asked.
WaitsAlone(d, o) ==
    \A r \in Records : \A i \in DOMAIN waiting[d][r] :
        waiting[d][r][i] # "check"
            => r[1] = o /\ \A j \in DOMAIN fbq[d] : fbq[d][j].op # "set"

\* In a queue of callbacks: the coupons found not to be redeemed.
Free(q) == {q[i].c : i \in {j \in DOMAIN q : q[j].op = "read" /\ ~q[j].exists}}

PhoneInv(d) ==
    /\ user[d] \in {Owner[d], NoUser}
    /\ OneAtATime(d)
    /\ ~Running(d) => /\ listen[d] = "none" /\ pending[d] = {}
                      /\ fbq[d] = <<>> /\ mainq[d] = <<>>
                      /\ waiting[d] = NoReads
    /\ Tidy(fbq[d], Owner[d]) /\ WaitsAlone(d, Owner[d])
    /\ \A c \in Free(mainq[d]) : served[<<Owner[d], c>>] = 0

OrderlyInv ==
    /\ DeskInv
    /\ \A d \in Devices : PhoneInv(d)
    /\ AnnouncedIsKept
    /\ AnnouncedIsSeen
    /\ OneCouponPerMeal

-----------------------------------------------------------------------------
(* For the status less is needed: that each phone has one account. *)

OneAccount == \A d \in Devices : user'[d] \in {Owner[d], NoUser}

PersonalSpec == Init /\ [][Next /\ OneAccount]_vars

\* What check() reads is of the owner of the phone.
AskedForOwner(d) ==
    /\ \A i \in DOMAIN fbq[d] : fbq[d][i].op = "check" => fbq[d][i].u = Owner[d]
    /\ \A r \in Records : \A i \in DOMAIN waiting[d][r] :
          waiting[d][r][i] = "check" => r[1] = Owner[d]

\* In a queue of callbacks: the coupons that a check() has found redeemed.
Found(q) == UNION {q[i].found : i \in {j \in DOMAIN q : q[j].op = "check"}}

\* What comes into reedeemedArr was read for the owner, and is still recorded
\* or being written, or was refused.
StatusOf(d) ==
    /\ user[d] \in {Owner[d], NoUser}
    /\ AskedForOwner(d)
    /\ \A c \in Found(mainq[d]) \cup app[d].reedeemedArr :
          <<Owner[d], c>> \in Current(d) \cup refused

StatusInv == DeskInv /\ \A d \in Devices : StatusOf(d)
=============================================================================
