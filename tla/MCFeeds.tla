------------------------------ MODULE MCFeeds ------------------------------
(* One process of the app over short lists. *)
EXTENDS FeedsProperties
=============================================================================
