----------------------------- MODULE MCWebhooks -----------------------------
(***************************************************************************)
(* Small instances of the module Webhooks.                                 *)
(***************************************************************************)
EXTENDS Webhooks

CONSTANTS p1, p2, w1, w2, x1, x2   \* model values

\* Every endpoint wants every event.
MCSubscribed == Event \X Endpoint

\* One crash or failure and one replay if a lease outlasts a batch; neither if
\* workers overtake each other.
MCBound == [l \in Leases |-> IF BatchSize * RequestTimeout <= l THEN 1 ELSE 0]
=============================================================================
