----------------------------- MODULE MCSession -----------------------------
(* One phone and the emails of its owner and of a friend. *)
EXTENDS SessionProperties, TLC

MCPeople == Permutations(Emails)
=============================================================================
