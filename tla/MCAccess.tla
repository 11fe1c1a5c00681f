------------------------------ MODULE MCAccess ------------------------------
(***************************************************************************)
(* Access for TLC: one request for a code more than the rate limit lets    *)
(* through.  Requests differ in nothing but their name.                    *)
(***************************************************************************)
EXTENDS Access, TLC

MCSymmetry == Permutations(Requests)
=============================================================================
