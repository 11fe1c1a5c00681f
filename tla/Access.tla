------------------------------- MODULE Access -------------------------------
(***************************************************************************)
(* Getting in, on both sides of the counter: the console that opens a      *)
(* court and its stall, and the phone that scans the court's code and      *)
(* proves its number.  A scan needs the court ACTIVE and the token on the  *)
(* poster to be the court's (discovery.controller scan).                   *)
(***************************************************************************)
EXTENDS Console, SignIn

CONSTANT MaxOverlap  \* bound: requests admins send around a phone in use

ASSUME AccessAssumption == MaxOverlap \in Nat

vars == <<consoleVars, signInVars>>

Init == ConsoleInit /\ SignInInit

(* A poster scans as long as it carries the token the court has now.       *)
ScanPoster(token) ==
  /\ edits <= MaxOverlap
  /\ court = "ACTIVE"
  /\ qr = token
  /\ Scan
  /\ UNCHANGED consoleVars

AtTheDesks ==
  /\ ConsoleNext
  /\ sessions > 0 => edits' <= MaxOverlap
  /\ UNCHANGED signInVars

OnThePhone == SignInNext /\ UNCHANGED consoleVars

Next == AtTheDesks \/ OnThePhone \/ \E token \in 1..tokens : ScanPoster(token)

Spec == Init /\ [][Next]_vars
=============================================================================
