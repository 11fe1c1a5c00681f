------------------------------ MODULE MCPhone -------------------------------
(* Phone for TLC: two diners whose masked numbers differ.                  *)
EXTENDS Phone, TLC

CONSTANTS d1, d2

MCMask == d1 :> "one" @@ d2 :> "other"
=============================================================================
