---------------------------- MODULE CouponLedger ----------------------------
(***************************************************************************)
(* What the coupon desk promises, whatever the phones and the network do.  *)
(* A redemption is promised on a device only after that device has heard   *)
(* the key of the coupon; only promised redemptions reach the ledger that  *)
(* the organizers read (scannables/attendances); and the ledger never      *)
(* loses one.  A promise may be forgotten (the app dies before the write   *)
(* reached the server) or refused by the database rules.                   *)
(***************************************************************************)
CONSTANTS
    Devices,     \* phones
    Users,       \* signed-in accounts (uid)
    Coupons,     \* scannables, named by their scannableValue
    Keys,        \* the keys the organizers' speakers play
    NoKey,       \* the empty string
    KeyOf,       \* the scannableKey of a coupon
    Refused      \* redemptions that the database rules may refuse

VARIABLES
    alive,       \* devices whose app runs
    heard,       \* heard[d]: the keys d has received
    owed,        \* owed[d]: redemptions d announced, not yet confirmed to it
    ledger,      \* redemptions recorded by the server
    refused      \* redemptions that the rules have refused at some time

vars == <<alive, heard, owed, ledger, refused>>

Records == Users \X Coupons

Init ==
    /\ alive = Devices
    /\ heard = [d \in Devices |-> {}]
    /\ owed = [d \in Devices |-> {}]
    /\ ledger = {}
    /\ refused = {}

Hear(d, key) ==
    /\ heard' = [heard EXCEPT ![d] = @ \cup {key}]
    /\ UNCHANGED <<alive, owed, ledger, refused>>

Promise(d, r) ==
    /\ KeyOf[r[2]] \in heard[d]
    /\ owed' = [owed EXCEPT ![d] = @ \cup {r}]
    /\ UNCHANGED <<alive, heard, ledger, refused>>

Deliver(d, r) ==
    /\ r \in owed[d]
    /\ ledger' = ledger \cup {r}
    /\ UNCHANGED <<alive, heard, owed, refused>>

\* A promise leaves the device's books once it is in the ledger ...
Settle(d, r) ==
    /\ r \in ledger
    /\ owed' = [owed EXCEPT ![d] = @ \ {r}]
    /\ UNCHANGED <<alive, heard, ledger, refused>>

\* ... or when it is refused, unless it was made again meanwhile.
Refuse(d, r) ==
    /\ r \in owed[d] \cap Refused
    /\ refused' = refused \cup {r}
    /\ owed' \in {owed, [owed EXCEPT ![d] = @ \ {r}]}
    /\ UNCHANGED <<alive, heard, ledger>>

\* Only the end of the app makes a device forget.
Forget(d) ==
    /\ alive' = alive \ {d}
    /\ owed' = [owed EXCEPT ![d] = {}]
    /\ UNCHANGED <<heard, ledger, refused>>

Start(d) ==
    /\ alive' = alive \cup {d}
    /\ UNCHANGED <<heard, owed, ledger, refused>>

Next ==
    \E d \in Devices :
        \/ \E key \in Keys \cup {NoKey} : Hear(d, key)
        \/ \E r \in Records :
              Promise(d, r) \/ Deliver(d, r) \/ Settle(d, r) \/ Refuse(d, r)
        \/ Forget(d) \/ Start(d)

Spec == Init /\ [][Next]_vars
=============================================================================
