--------------------------- MODULE MCIdempotency ---------------------------
(***************************************************************************)
(* Small instances of the module Idempotency: two clients whose requests   *)
(* agree, or one of which reuses the key for something else.               *)
(***************************************************************************)
EXTENDS Idempotency

CONSTANTS c1, c2   \* clients, as model values
=============================================================================
