------------------------------ MODULE Checkout ------------------------------
(***************************************************************************)
(* What paying for an order promises, with nothing of how it is done: the  *)
(* diner is offered checkouts one at a time, pays at most one of them, and *)
(* the order leaves its wait for a kitchen only for money that is there.   *)
(* Payments implements it.                                                 *)
(***************************************************************************)
CONSTANTS
  Checkouts,  \* what the diner may be handed to pay with
  Enough      \* the fates that confirm the order: "taken", and perhaps "blocked"

VARIABLES
  stage,  \* the order waits for payment, is confirmed, or is closed
  money   \* what became of each checkout

vars == <<stage, money>>

Stages == {"waiting", "confirmed", "closed"}
Fates == {"none", "offered", "blocked", "taken", "released", "ended"}
Payable == {"offered", "blocked", "taken"}

TypeOK == stage \in Stages /\ money \in [Checkouts -> Fates]

Init == stage = "waiting" /\ money = [c \in Checkouts |-> "none"]

Becomes(c, fate) == money' = [money EXCEPT ![c] = fate] /\ UNCHANGED stage

(* A checkout is offered when nothing else can still be paid.              *)
Offer(c) ==
  /\ stage = "waiting"
  /\ money[c] = "none"
  /\ \A d \in Checkouts : money[d] \notin Payable
  /\ Becomes(c, "offered")

(* The diner pays; the money may be blocked first and taken later.         *)
Pay(c, fate) == money[c] = "offered" /\ Becomes(c, fate)
Take(c) == money[c] = "blocked" /\ Becomes(c, "taken")

(* A block ends without being taken, never while the order waits for it.   *)
Release(c) == stage # "waiting" /\ money[c] = "blocked" /\ Becomes(c, "released")

(* A checkout nobody paid ends.                                            *)
End(c) == money[c] \in {"none", "offered"} /\ Becomes(c, "ended")

Confirm ==
  /\ stage = "waiting"
  /\ \E c \in Checkouts : money[c] \in Enough
  /\ stage' = "confirmed"
  /\ UNCHANGED money

Close == stage # "closed" /\ stage' = "closed" /\ UNCHANGED money

Next ==
  \/ \E c \in Checkouts :
       \/ Offer(c) \/ Take(c) \/ Release(c) \/ End(c)
       \/ \E fate \in {"blocked", "taken"} : Pay(c, fate)
  \/ Confirm
  \/ Close

Spec == Init /\ [][Next]_vars
=============================================================================
