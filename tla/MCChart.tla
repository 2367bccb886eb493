------------------------------ MODULE MCChart ------------------------------
(***************************************************************************)
(* Three callers and the four accounts of chartSpecs.                      *)
(***************************************************************************)
EXTENDS Chart

CONSTANTS c1, c2, c3   \* callers, as model values
=============================================================================
