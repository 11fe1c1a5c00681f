----------------------------- MODULE MCDispatch -----------------------------
(* Dispatch for TLC: two orders at one stall.                              *)
EXTENDS Dispatch

CONSTANTS o1, o2, v1

OneStall == [o \in Orders |-> v1]
=============================================================================
