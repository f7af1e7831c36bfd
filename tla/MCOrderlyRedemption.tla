------------------------ MODULE MCOrderlyRedemption -------------------------
(* Small instances of OrderlyRedemption for TLC. *)
EXTENDS OrderlyRedemption, TLC

CONSTANTS d1, d2, u1, u2

MCKeyOf == [c \in Coupons |-> IF c = "lunch" THEN "key1" ELSE "key2"]
MCOwner == [d \in Devices |-> IF d = d1 THEN u1 ELSE u2]
=============================================================================
