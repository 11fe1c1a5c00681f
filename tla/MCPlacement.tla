----------------------------- MODULE MCPlacement -----------------------------
(* Placement for TLC: a double tap, a later customer whose browser still   *)
(* holds the same key, and somebody else at the neighbouring stall.        *)
EXTENDS Placement, TLC

CONSTANTS tap1, tap2, stale, other, s1, s2, s3, alice, bob, v1, v2, court

Keys == tap1 :> "k1" @@ tap2 :> "k1" @@ stale :> "k1" @@ other :> "k2"
TheirSessions == tap1 :> s1 @@ tap2 :> s1 @@ stale :> s2 @@ other :> s3
TheirTokens == tap1 :> alice @@ tap2 :> alice @@ stale :> bob @@ other :> bob
TheirStalls == tap1 :> v1 @@ tap2 :> v1 @@ stale :> v1 @@ other :> v2
OneCourt == [v \in Stalls |-> court]
=============================================================================
