------------------------------ MODULE MCLocal ------------------------------
(* Constants for the local process: bodies as in MCPostgres, requests and  *)
(* event IDs as numbers, so that their order is the order of the IDs.      *)
EXTENDS LocalService, TLC

CONSTANTS b1, b1x, b2, bad, BaseDelay, MaxDelay

B == INSTANCE Backoff

MCValid == Bodies \ {bad}

MCCanonical == [b \in Bodies |-> IF b = b1x THEN b1 ELSE b]

MCRetryDelay == [n \in 1..MaxAttempts |-> B!retryDelay(n, BaseDelay, MaxDelay)]

MCRank == [e \in Requests |-> e]

MCTokens == 1..4

(* Different pairs, different strings.                                     *)
MCKey == [i \in Identities |-> i]

=============================================================================
