---------------------------- MODULE MCRedemption ----------------------------
(* Small instances of Redemption for TLC. *)
EXTENDS RedemptionProperties, TLC

\* The first coupon has a key, the key of the other is missing.
MCKeyOf == [c \in Coupons |-> IF c = "lunch" THEN "key1" ELSE NoKey]

\* Rules that may refuse any record.
MCRefused == Users \X Coupons
=============================================================================
