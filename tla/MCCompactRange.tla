--------------------------- MODULE MCCompactRange ---------------------------
(* Three keys; the first and the last lie on levels 1 and 2. *)
EXTENDS CompactRange

MCBatchesManual == {[ops |-> <<[key |-> k, put |-> TRUE]>>, sync |-> FALSE] : k \in Keys}
MCEarlierManual ==
    [i \in 1..4 |-> <<[key |-> IF i \in {1, 3} THEN 1 ELSE 3, val |-> 5 + i]>>]
MCMaxBytes == <<10, 10>>
=============================================================================
