------------------------------- MODULE MCSync -------------------------------
(* Sync for TLC.                                                           *)
EXTENDS Sync, TLC

MCOrders == 1..2
MCReach == {"PAYMENT_PENDING", "PAYMENT_CONFIRMED", "REJECTED", "REFUND_PENDING"}
MCSymmetry == Permutations(Cycles)
=============================================================================
