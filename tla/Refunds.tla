------------------------------ MODULE Refunds ------------------------------
(***************************************************************************)
(* The refund engine (src/src/payments/refund.repository.ts, refund.ts):   *)
(* two sweeps of a worker tick, one that opens a refund for every order    *)
(* that owes money back and one that attempts the refunds that are due,    *)
(* while kitchens, customers and dispatch still move orders, payments are  *)
(* captured late, and the provider reports on refunds in its own time.     *)
(*                                                                         *)
(* An order has at most one payment that holds money (the payment table's  *)
(* payment_one_live_per_order), so the payment is a function of the order; *)
(* a worker acts on what it selected, and its selects lock nothing.        *)
(***************************************************************************)
EXTENDS Naturals, FiniteSets, OrderLifecycle

CONSTANTS
  Orders,
  Workers,
  Running,       \* the replicas that keep running; the others may stop for good
  NoOrder,       \* "no refund in hand"
  VendorDirect,  \* orders whose settlement mode is VENDOR_DIRECT
  Mispriced,     \* orders whose snapshot does not reprice to their total
  MaxAttempts,   \* MAX_ATTEMPTS, 5 in the code
  Provider,      \* PAYMENT_PROVIDER: how a refund notification is read
  Notices,       \* bound: the refund statuses the provider notifies about
  Reach,         \* bound: how far dispatch and the kitchen take an order
  MaxCrashes     \* bound: how often workers die, together

ASSUME OrdersAssumption ==
  NoOrder \notin Orders /\ VendorDirect \subseteq Orders /\ Mispriced \subseteq Orders
ASSUME WorkersAssumption == Running \subseteq Workers
ASSUME LimitsAssumption == MaxAttempts \in Nat \ {0} /\ MaxCrashes \in Nat
ASSUME ConfigAssumption ==
  /\ Provider \in {"stub", "cashfree"}
  /\ Notices \subseteq {"returned", "declined", "pending"}
  /\ Reach \subseteq InKitchen \cup {"REJECTED"}

VARIABLES
  status,    \* order.status
  payment,   \* status of the order's payment; AUTHORIZED counts as CAPTURED
  opened,    \* refund rows of the order, counted up to 2
  refund,    \* refund.status
  attempts,  \* refund.attempts
  timer,     \* refund.next_retry_at: null, in the future or passed
  accepted,  \* refunds the provider has taken on
  returned,  \* orders whose money the provider has sent back
  notice,    \* what the provider has notified about each order's refund
  worker,    \* what each worker is doing
  crashes

vars == <<status, payment, opened, refund, attempts, timer, accepted, returned,
          notice, worker, crashes>>
row == <<opened, refund, attempts, timer>>
provider == <<accepted, returned, notice>>

-----------------------------------------------------------------------------
RefundStatuses == {"none", "REQUESTED", "PENDING", "SUCCEEDED", "FAILED"}
Timers == {"null", "future", "passed"}
Outcomes == {"SUCCEEDED", "PENDING", "FAILED"}

Idle == [pc |-> "idle", todo |-> {}, hand |-> NoOrder, tries |-> 0, answer |-> "none"]

TypeOK ==
  /\ status \in [Orders -> Statuses]
  /\ payment \in [Orders -> {"PENDING", "CAPTURED", "REFUNDED"}]
  /\ opened \in [Orders -> 0..2]
  /\ refund \in [Orders -> RefundStatuses]
  /\ attempts \in [Orders -> Nat]
  /\ timer \in [Orders -> Timers]
  /\ accepted \subseteq Orders /\ returned \subseteq Orders
  /\ notice \in [Orders -> SUBSET {"returned", "declined", "pending"}]
  /\ worker \in [Workers -> [pc : {"idle", "initiate", "attempt", "call", "record"},
                             todo : SUBSET Orders, hand : Orders \cup {NoOrder},
                             tries : Nat, answer : Outcomes \cup {"none"}]]
  /\ crashes \in 0..MaxCrashes

Init ==
  /\ status = [o \in Orders |-> "PAYMENT_PENDING"]
  /\ payment = [o \in Orders |-> "PENDING"]
  /\ opened = [o \in Orders |-> 0]
  /\ refund = [o \in Orders |-> "none"]
  /\ attempts = [o \in Orders |-> 0]
  /\ timer = [o \in Orders |-> "null"]
  /\ accepted = {} /\ returned = {}
  /\ notice = [o \in Orders |-> {}]
  /\ worker = [w \in Workers |-> Idle]
  /\ crashes = 0

Become(w, r) == worker' = [worker EXCEPT ![w] = r]
At(w, pc) == worker[w].pc = pc

(* The next element of a sweep, or the end of it.                          *)
Continue(w, pc, left) ==
  Become(w, IF left = {} THEN Idle ELSE [Idle EXCEPT !.pc = pc, !.todo = left])

-----------------------------------------------------------------------------
(* Opening a refund.                                                       *)

RefundableFrom == {"REJECTED", "CANCELLED", "DISPATCH_FAILED"}
RefundablePayment == {"CAPTURED"}

(* Mutant: a failed dispatch is left to the customer to cancel.            *)
ClaimRefundable_ClosedOnly(w) ==
  LET owed == {o \in Orders : /\ status[o] \in {"REJECTED", "CANCELLED"}
                              /\ payment[o] \in RefundablePayment
                              /\ opened[o] = 0}
  IN  /\ worker[w] = Idle /\ owed # {}
      /\ Become(w, [Idle EXCEPT !.pc = "initiate", !.todo = owed])
      /\ UNCHANGED <<status, payment, row, provider, crashes>>

ClaimRefundable(w) ==
  LET owed == {o \in Orders : /\ status[o] \in RefundableFrom
                              /\ payment[o] \in RefundablePayment
                              /\ opened[o] = 0}
  IN  /\ worker[w] = Idle /\ owed # {}
      /\ Become(w, [Idle EXCEPT !.pc = "initiate", !.todo = owed])
      /\ UNCHANGED <<status, payment, row, provider, crashes>>

(* The row is due at once, and the order leaves the reach of kitchens and  *)
(* dispatch in the same transaction.                                       *)
OpenRefund(o) ==
  /\ opened' = [opened EXCEPT ![o] = IF @ < 2 THEN @ + 1 ELSE @]
  /\ refund' = [refund EXCEPT ![o] = "REQUESTED"]
  /\ attempts' = [attempts EXCEPT ![o] = 0]
  /\ timer' = [timer EXCEPT ![o] = "passed"]
  /\ status' = [status EXCEPT ![o] = "REFUND_PENDING"]

(* Mutants: what the select saw is believed for the refund row; the order  *)
(* is left for a later transaction to move.                                *)
Initiate_TrustsTheSelect(w) ==
  /\ At(w, "initiate")
  /\ \E o \in worker[w].todo :
       /\ Continue(w, "initiate", worker[w].todo \ {o})
       /\ IF payment[o] \in RefundablePayment
            THEN OpenRefund(o)
            ELSE UNCHANGED <<status, row>>
  /\ UNCHANGED <<payment, provider, crashes>>

Initiate_OrderLater(w) ==
  /\ At(w, "initiate")
  /\ \E o \in worker[w].todo :
       /\ Continue(w, "initiate", worker[w].todo \ {o})
       /\ opened' = [opened EXCEPT ![o] = 1]
       /\ refund' = [refund EXCEPT ![o] = "REQUESTED"]
       /\ timer' = [timer EXCEPT ![o] = "passed"]
  /\ UNCHANGED <<status, attempts, payment, provider, crashes>>

(* initiate, one transaction under the order's lock, asks every question   *)
(* of the select again.  A snapshot that does not reprice raises an error, *)
(* which rolls the reconciliation item back with the rest and ends the     *)
(* sweep.                                                                  *)
Initiate(w) ==
  /\ At(w, "initiate")
  /\ \E o \in worker[w].todo :
       LET owed == /\ status[o] \in RefundableFrom
                   /\ opened[o] = 0
                   /\ payment[o] \in RefundablePayment
       IN  /\ IF owed /\ o \in Mispriced
                THEN Become(w, Idle)
                ELSE Continue(w, "initiate", worker[w].todo \ {o})
           /\ IF owed /\ o \notin Mispriced
                THEN OpenRefund(o)
                ELSE UNCHANGED <<status, row>>
  /\ UNCHANGED <<payment, provider, crashes>>

-----------------------------------------------------------------------------
(* Attempting it.                                                          *)

(* Mutant: a refund the provider has taken on is not asked about again.    *)
ClaimDue_NotPending(w) ==
  LET due == {o \in Orders : /\ refund[o] \in {"REQUESTED", "FAILED"}
                             /\ timer[o] = "passed"
                             /\ attempts[o] < MaxAttempts}
  IN  /\ worker[w] = Idle /\ due # {}
      /\ Become(w, [Idle EXCEPT !.pc = "attempt", !.todo = due])
      /\ UNCHANGED <<status, payment, row, provider, crashes>>

ClaimDue(w) ==
  LET due == {o \in Orders : /\ refund[o] \in {"REQUESTED", "PENDING", "FAILED"}
                             /\ timer[o] = "passed"
                             /\ attempts[o] < MaxAttempts}
  IN  /\ worker[w] = Idle /\ due # {}
      /\ Become(w, [Idle EXCEPT !.pc = "attempt", !.todo = due])
      /\ UNCHANGED <<status, payment, row, provider, crashes>>

(* The unlocked read.  A refund the platform never held the money of is    *)
(* left to the vendor, with nothing scheduled.                             *)
Attempt(w) ==
  /\ At(w, "attempt")
  /\ \E o \in worker[w].todo :
       LET left == worker[w].todo \ {o}
       IN  \/ /\ o \in VendorDirect
              /\ timer' = [timer EXCEPT ![o] = "null"]
              /\ Continue(w, "attempt", left)
           \/ /\ o \notin VendorDirect
              /\ Become(w, [pc |-> "call", todo |-> left, hand |-> o,
                            tries |-> attempts[o], answer |-> "none"])
              /\ timer' = timer
  /\ UNCHANGED <<status, payment, opened, refund, attempts, provider, crashes>>

Answered(w, s) == Become(w, [worker[w] EXCEPT !.pc = "record", !.answer = s])

(* provider.refund, keyed by the refund's own id, so that asking twice     *)
(* returns the money once: it is sent back, taken on, unknown (PENDING is  *)
(* also what Cashfree's adapter makes of a call that failed), or declined, *)
(* perhaps after it was taken on.                                          *)
Call(w) ==
  LET o == worker[w].hand
  IN  /\ At(w, "call")
      /\ \/ /\ returned' = returned \cup {o}
            /\ Answered(w, "SUCCEEDED")
            /\ accepted' = accepted
         \/ /\ accepted' = accepted \cup {o}
            /\ Answered(w, "PENDING")
            /\ returned' = returned
         \/ /\ Answered(w, "PENDING")
            /\ UNCHANGED <<accepted, returned>>
         \/ /\ o \notin returned
            /\ Answered(w, "FAILED")
            /\ accepted' = accepted \ {o}
            /\ returned' = returned
      /\ UNCHANGED <<status, payment, row, notice, crashes>>

(* Mutants: a refund the provider has taken on counts as done; the         *)
(* schedule is one step short.                                             *)
NextAction_PendingIsDone(outcome, attempt) ==
  IF outcome \in {"SUCCEEDED", "PENDING"} THEN "DONE"
  ELSE IF attempt >= MaxAttempts THEN "RECONCILE"
  ELSE "RETRY"

NextAction_ShortSchedule(outcome, attempt) ==
  IF outcome = "SUCCEEDED" THEN "DONE"
  ELSE IF attempt + 1 >= MaxAttempts THEN "GIVE UP"
  ELSE "RETRY"

(* decideRefundNextAction: PENDING takes an attempt just as FAILED does.   *)
NextAction(outcome, attempt) ==
  IF outcome = "SUCCEEDED" THEN "DONE"
  ELSE IF attempt >= MaxAttempts THEN "RECONCILE"
  ELSE "RETRY"

(* The recording transaction.  A success moves the payment and the order,  *)
(* or nothing when the order may not move.  The last attempt inserts a     *)
(* reconciliation item with an explicit delta_paise, a generated column:   *)
(* the database refuses the row, and everything is rolled back.  An error  *)
(* ends the sweep.                                                         *)
Record(w) ==
  LET o == worker[w].hand
      answer == worker[w].answer
      number == worker[w].tries + 1
      next == NextAction(answer, number)
      fails == \/ next = "RECONCILE"
               \/ next = "DONE" /\ ~TransitionAccepted(status[o], "REFUNDED")
  IN  /\ At(w, "record")
      /\ IF fails
           THEN Become(w, Idle) /\ UNCHANGED <<status, payment, row>>
           ELSE /\ refund' = [refund EXCEPT ![o] = answer]
                /\ attempts' = [attempts EXCEPT ![o] = number]
                /\ timer' = [timer EXCEPT ![o] = IF next = "RETRY" THEN "future" ELSE "null"]
                /\ status' = IF next = "DONE" THEN [status EXCEPT ![o] = "REFUNDED"] ELSE status
                /\ payment' = IF next = "DONE" /\ payment[o] \in RefundablePayment
                                THEN [payment EXCEPT ![o] = "REFUNDED"] ELSE payment
                /\ opened' = opened
                /\ Continue(w, "attempt", worker[w].todo)
      /\ UNCHANGED <<provider, crashes>>

-----------------------------------------------------------------------------
(* The provider, the rest of the platform, the clock, crashes.             *)

ProviderReturns(o) ==
  /\ o \in accepted \ returned
  /\ returned' = returned \cup {o}
  /\ UNCHANGED <<status, payment, row, accepted, notice, worker, crashes>>

(* The provider says what became of a refund: it may decline one it had    *)
(* taken on, and only Cashfree speaks of one that is still under way.      *)
ProviderNotifies(o, n) ==
  /\ n \in Notices \ notice[o]
  /\ IF n = "returned" THEN o \in returned ELSE o \in accepted \ returned
  /\ n = "pending" => Provider = "cashfree"
  /\ notice' = [notice EXCEPT ![o] = @ \cup {n}]
  /\ accepted' = IF n = "declined" THEN accepted \ {o} ELSE accepted
  /\ UNCHANGED <<status, payment, row, returned, worker, crashes>>

(* What applyEvent makes of a refund notification: it moves the order, and *)
(* neither the payment nor the refund row.  Cashfree's one refund webhook  *)
(* is read as a success whatever status it carries.  A delivery that the   *)
(* order refuses changes nothing.                                          *)
RefundEventMoves(n) ==
  IF Provider = "cashfree" \/ n = "returned" THEN "REFUNDED" ELSE "REFUND_FAILED"

ApplyRefundEvent(o, n) ==
  LET to == RefundEventMoves(n)
  IN  /\ n \in notice[o]
      /\ TransitionAccepted(status[o], to)
      /\ status' = [status EXCEPT ![o] = to]
      /\ UNCHANGED <<payment, row, provider, worker, crashes>>

(* The payment is captured, perhaps after the order was cancelled.         *)
Capture(o) ==
  /\ payment[o] = "PENDING"
  /\ payment' = [payment EXCEPT ![o] = "CAPTURED"]
  /\ status' = [status EXCEPT ![o] = IF @ = "PAYMENT_PENDING" THEN "PAYMENT_CONFIRMED" ELSE @]
  /\ UNCHANGED <<row, provider, worker, crashes>>

Cancel(o) ==
  /\ status[o] \in Cancellable
  /\ status' = [status EXCEPT ![o] = "CANCELLED"]
  /\ UNCHANGED <<payment, row, provider, worker, crashes>>

OrderMoves(o, to) ==
  /\ status[o] \in InKitchen
  /\ to \in Reach /\ CanTransition(status[o], to)
  /\ status' = [status EXCEPT ![o] = to]
  /\ UNCHANGED <<payment, row, provider, worker, crashes>>

TimePasses(o) ==
  /\ timer[o] = "future"
  /\ timer' = [timer EXCEPT ![o] = "passed"]
  /\ UNCHANGED <<status, payment, opened, refund, attempts, provider, worker, crashes>>

Crash(w) ==
  /\ worker[w] # Idle /\ crashes < MaxCrashes
  /\ crashes' = crashes + 1
  /\ Become(w, Idle)
  /\ UNCHANGED <<status, payment, row, provider>>

-----------------------------------------------------------------------------
WorkerContinues(w) == Initiate(w) \/ Attempt(w) \/ Call(w) \/ Record(w)

Next ==
  \/ \E w \in Workers :
       ClaimRefundable(w) \/ ClaimDue(w) \/ WorkerContinues(w) \/ Crash(w)
  \/ \E o \in Orders :
       \/ ProviderReturns(o) \/ Capture(o) \/ Cancel(o) \/ TimePasses(o)
       \/ \E n \in Notices : ProviderNotifies(o, n) \/ ApplyRefundEvent(o, n)
       \/ \E to \in Reach : OrderMoves(o, to)

Spec == Init /\ [][Next]_vars

(* The loop of a replica that keeps running runs both sweeps on every tick *)
(* and finishes what it began, in an order nothing is assumed of; the      *)
(* clock moves.                                                            *)
Attempted == Orders \ VendorDirect

Fairness ==
  /\ \A w \in Running :
       SF_vars(ClaimRefundable(w)) /\ SF_vars(ClaimDue(w)) /\ WF_vars(WorkerContinues(w))
  /\ \A o \in Attempted : WF_vars(TimePasses(o))

LiveSpec == Spec /\ Fairness

(* A provider that is asked again and again for the same refund grants it  *)
(* some time.                                                              *)
Granted(w, o) == worker[w].hand = o /\ Call(w) /\ worker'[w].answer = "SUCCEEDED"

GrantingSpec ==
  LiveSpec /\ \A w \in Running, o \in Attempted : SF_vars(Granted(w, o))

-----------------------------------------------------------------------------
(* Two workers, a restart or a replayed tick do not open two refunds for   *)
(* one order (the comment on claimRefundable).                             *)
OneRefundPerOrder == \A o \in Orders : opened[o] <= 1

(* Nobody gets both the food and the money: once the provider has sent the *)
(* money back, no kitchen can be working on the order or be given it, even *)
(* when a failed dispatch is retried while the refund is being opened.     *)
NoFoodAndMoney ==
  \A o \in returned : status[o] \in {"REFUND_PENDING", "REFUNDED", "REFUND_FAILED"}

(* REFUNDED is only said of money that was sent back (PRD 7.2, "Provider   *)
(* confirmed"), whichever of the sweep and the webhook comes first.        *)
RefundedIsReturned == \A o \in Orders : status[o] = "REFUNDED" => o \in returned

(* A refund never silently stops being attempted (REF-03): while the order *)
(* waits for its money, the row stays one the sweep selects when its time  *)
(* comes, across stale records, crashes and late notifications.            *)
PendingRefundIsScheduled ==
  \A o \in Attempted :
    status[o] = "REFUND_PENDING" =>
      /\ refund[o] \in {"REQUESTED", "PENDING", "FAILED"}
      /\ attempts[o] < MaxAttempts
      /\ timer[o] # "null"

(* Money that is owed is noticed by whichever route the order took, a      *)
(* capture after the cancellation included (REF-01).                       *)
OwedRefundIsOpened ==
  \A o \in Orders :
    status[o] \in RefundableFrom /\ payment[o] = "CAPTURED" ~>
      opened[o] > 0 \/ status[o] \notin RefundableFrom

(* A refund ends: the money is back, or the order says that it failed and  *)
(* somebody is told (REF-03, PRD 7.2).                                     *)
RefundIsSettled ==
  \A o \in Attempted :
    status[o] = "REFUND_PENDING" ~> status[o] \in {"REFUNDED", "REFUND_FAILED"}
=============================================================================
