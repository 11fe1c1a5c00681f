------------------------------ MODULE Counter -------------------------------
(***************************************************************************)
(* Paying at the counter: the till endpoints (payments/pos.controller.ts), *)
(* the provider behind them (payments/providers/pos.provider.ts) and the   *)
(* card terminal (payments/providers/pos), for one order.  A charge blocks *)
(* for as long as the customer takes at the machine; meanwhile the         *)
(* customer's screen polls, the reconcile sweep asks the same machine and  *)
(* the intent may expire.  What ingesting an event does inside one         *)
(* transaction is the subject of Payments; here it is one step.            *)
(***************************************************************************)
EXTENDS Naturals, Sequences, OrderLifecycle

CONSTANTS
  Tills,
  Obedient,    \* the cashier does not press Charge after "DO NOT charge again"
  MaxIntents,  \* bound: intents of the order
  MaxPresses   \* bound: presses of Charge

ASSUME CounterAssumption ==
  Obedient \in BOOLEAN /\ MaxIntents \in Nat \ {0} /\ MaxPresses \in Nat

VARIABLES
  order,    \* order.status
  rows,     \* the payment rows, oldest first; a row's position is its reference
  machine,  \* the card terminal's transaction by reference
  till,     \* the request each till has open
  poll,     \* the customer's status poll: the row it asked about and the answer
  asked,    \* the sweep's event for a capture of this order was claimed
  debits,   \* how often the machine took the customer's money
  presses

counterVars == <<order, rows, machine, till, poll, asked, debits, presses>>

Refs == 1..MaxIntents

-----------------------------------------------------------------------------
(* Payment rows.  payment_ref is the acquirer's number (rrn) once an event *)
(* brought it.                                                             *)
NewRow == [status |-> "CREATED", payment_ref |-> "none"]
OpenStatuses == {"CREATED", "PENDING"}
Newest == Len(rows)
Waiting == order \in AwaitingPayment

(* What a lookup by our own reference finds: a reference the machine never *)
(* saw and one in progress are both unknown.                               *)
Verdict(ref) ==
  CASE machine[ref] \in {"approved", "mispriced"} -> "APPROVED"
    [] machine[ref] = "declined" -> "DECLINED"
    [] machine[ref] = "cancelled" -> "CANCELLED"
    [] OTHER -> "UNKNOWN"

(* Callers pass payment_ref when there is one, and the machine knows no    *)
(* transaction by that.                                                    *)
VerdictOfRow(i) == IF rows[i].payment_ref = "none" THEN Verdict(i) ELSE "UNKNOWN"

CounterInit ==
  /\ order = "PAYMENT_PENDING"
  /\ rows = <<NewRow>>
  /\ machine = [r \in Refs |-> "idle"]
  /\ till = [t \in Tills |-> [pc |-> "idle", ref |-> 1, outcome |-> "none", wary |-> FALSE]]
  /\ poll = [ref |-> 0, status |-> "none"]
  /\ asked = FALSE
  /\ debits = 0 /\ presses = 0

-----------------------------------------------------------------------------
(* The customer.                                                           *)

(* createIntent: an open row is handed back, a paid one refuses; the       *)
(* machine hears nothing of it.                                            *)
CreateIntent ==
  /\ Waiting /\ Newest < MaxIntents
  /\ \A i \in DOMAIN rows : rows[i].status \in {"FAILED", "EXPIRED"}
  /\ rows' = Append(rows, NewRow)
  /\ UNCHANGED <<order, machine, till, poll, asked, debits, presses>>

(* refreshFromProvider asks about the newest row and writes the answer on  *)
(* it after the await; an unknown is not written.                          *)
PollAsks ==
  /\ poll.ref = 0 /\ VerdictOfRow(Newest) # "UNKNOWN"
  /\ poll' = [ref |-> Newest,
              status |-> CASE VerdictOfRow(Newest) = "APPROVED" -> "CAPTURED"
                           [] VerdictOfRow(Newest) = "DECLINED" -> "FAILED"
                           [] VerdictOfRow(Newest) = "CANCELLED" -> "PENDING"]
  /\ UNCHANGED <<order, rows, machine, till, asked, debits, presses>>

PollWrites ==
  /\ poll.ref # 0
  /\ rows' = [rows EXCEPT ![poll.ref].status = poll.status]
  /\ poll' = [ref |-> 0, status |-> "none"]
  /\ UNCHANGED <<order, machine, till, asked, debits, presses>>

-----------------------------------------------------------------------------
(* The cashier.                                                            *)

(* charge: the newest row decides, and only its status.                    *)
Charge(t) ==
  /\ till[t].pc = "idle" /\ presses < MaxPresses
  /\ Obedient => ~till[t].wary
  /\ rows[Newest].status \in OpenStatuses
  /\ presses' = presses + 1
  /\ till' = [till EXCEPT ![t].pc = "charge", ![t].ref = Newest]
  /\ UNCHANGED <<order, rows, machine, poll, asked, debits>>

(* Mutant: a reference the machine knows is a new sale all the same.       *)
ReachMachine_NewSale(t) ==
  /\ till[t].pc = "charge"
  /\ machine' = [machine EXCEPT ![till[t].ref] =
                   IF @ = "running" THEN @ ELSE "running"]
  /\ till' = [till EXCEPT ![t].pc = "wait"]
  /\ UNCHANGED <<order, rows, poll, asked, debits, presses>>

(* The request reaches the machine under the reference of the intent; one  *)
(* it has approved or is busy with is not taken again.                     *)
ReachMachine(t) ==
  /\ till[t].pc = "charge"
  /\ machine' = [machine EXCEPT ![till[t].ref] =
                   IF @ \in {"idle", "declined", "cancelled"} THEN "running" ELSE @]
  /\ till' = [till EXCEPT ![t].pc = "wait"]
  /\ UNCHANGED <<order, rows, poll, asked, debits, presses>>

(* The customer and the bank.                                              *)
MachineEnds(r) ==
  /\ machine[r] = "running"
  /\ \/ /\ \E end \in {"approved", "mispriced"} : machine' = [machine EXCEPT ![r] = end]
        /\ debits' = debits + 1
     \/ /\ \E end \in {"declined", "cancelled"} : machine' = [machine EXCEPT ![r] = end]
        /\ UNCHANGED debits
  /\ UNCHANGED <<order, rows, till, poll, asked, presses>>

(* The answer of the machine; two minutes without one, or a connection     *)
(* that breaks, are UNKNOWN.                                               *)
Answer(t) ==
  /\ till[t].pc \in {"charge", "wait"}
  /\ \/ /\ till[t].pc = "wait" /\ machine[till[t].ref] # "running"
        /\ till' = [till EXCEPT ![t].pc = "apply", ![t].outcome = Verdict(till[t].ref)]
     \/ till' = [till EXCEPT ![t].pc = "apply", ![t].outcome = "UNKNOWN"]
  /\ UNCHANGED <<order, rows, machine, poll, asked, debits, presses>>

(* resolve: asks about the newest row, whatever its status.                *)
Resolve(t) ==
  /\ till[t].pc = "idle"
  /\ \E outcome \in {Verdict(Newest), "UNKNOWN"} :
       till' = [till EXCEPT ![t].pc = "apply", ![t].ref = Newest, ![t].outcome = outcome]
  /\ UNCHANGED <<order, rows, machine, poll, asked, debits, presses>>

-----------------------------------------------------------------------------
(* Ingesting an event.                                                     *)

Settled(status, ref) ==
  [i \in DOMAIN rows |->
     IF rows[i].status \in {"CREATED", "PENDING", "AUTHORIZED"}
     THEN [status |-> status, payment_ref |-> IF ref = "none" THEN rows[i].payment_ref ELSE ref]
     ELSE rows[i]]

(* A capture confirms a waiting order whose row backs it; the trigger      *)
(* refuses one without; after the wait it only touches rows in flight.     *)
Captured(ref) ==
  LET after == Settled("CAPTURED", ref)
      backed == \E i \in DOMAIN rows : after[i].status = "CAPTURED"
  IN IF Waiting
     THEN IF backed THEN rows' = after /\ order' = "PAYMENT_CONFIRMED"
          ELSE UNCHANGED <<rows, order>>
     ELSE rows' = after /\ UNCHANGED order

(* A decline fails the order, if the state machine lets it.                *)
Declined ==
  IF TransitionAccepted(order, "PAYMENT_FAILED")
  THEN rows' = Settled("FAILED", "rrn") /\ order' = "PAYMENT_FAILED"
  ELSE UNCHANGED <<rows, order>>

(* apply: an approval or a decline goes through the one ingest path, with  *)
(* the machine's own amount; the other two write nothing.                  *)
Apply(t) ==
  /\ till[t].pc = "apply"
  /\ CASE till[t].outcome = "APPROVED" ->
            IF machine[till[t].ref] = "mispriced" THEN UNCHANGED <<rows, order>>
            ELSE Captured("rrn")
       [] till[t].outcome = "DECLINED" -> Declined
       [] OTHER -> UNCHANGED <<rows, order>>
  /\ till' = [till EXCEPT ![t].pc = "idle", ![t].outcome = "none",
                          ![t].wary = till[t].outcome = "UNKNOWN"]
  /\ UNCHANGED <<machine, poll, asked, debits, presses>>

-----------------------------------------------------------------------------
(* The worker.                                                             *)

(* Mutant: rows the poll has settled are not asked about.                  *)
Reconcile_OpenRowsOnly(i) ==
  /\ Waiting /\ ~asked /\ VerdictOfRow(i) = "APPROVED" /\ rows[i].status \in OpenStatuses
  /\ asked' = TRUE
  /\ Captured(rows[i].payment_ref)
  /\ UNCHANGED <<machine, till, poll, debits, presses>>

(* reconcileStalePayments: every row of a waiting order is asked about,    *)
(* and the event it makes of a capture carries neither amount nor rrn.     *)
(* The event is named for the order: the first one is the only one, even   *)
(* if the transaction is refused after it was claimed.                     *)
Reconcile(i) ==
  /\ Waiting /\ ~asked /\ VerdictOfRow(i) = "APPROVED"
  /\ asked' = TRUE
  /\ Captured(rows[i].payment_ref)
  /\ UNCHANGED <<machine, till, poll, debits, presses>>

(* expireStaleIntents: the row and the order go together or not at all.    *)
Expire(i) ==
  /\ rows[i].status \in OpenStatuses
  /\ TransitionAccepted(order, "PAYMENT_EXPIRED")
  /\ rows' = [rows EXCEPT ![i].status = "EXPIRED"]
  /\ order' = "PAYMENT_EXPIRED"
  /\ UNCHANGED <<machine, till, poll, asked, debits, presses>>

(* A paid order is cancelled, and the refund sweep reverses the charge     *)
(* under the reference the row carries.                                    *)
Cancel ==
  /\ order = "PAYMENT_CONFIRMED"
  /\ order' = "REFUND_PENDING"
  /\ UNCHANGED <<rows, machine, till, poll, asked, debits, presses>>

Refund(i) ==
  /\ order = "REFUND_PENDING" /\ rows[i].status = "CAPTURED"
  /\ VerdictOfRow(i) = "APPROVED"
  /\ machine' = [machine EXCEPT ![i] = "reversed"]
  /\ order' = "REFUNDED"
  /\ UNCHANGED <<rows, till, poll, asked, debits, presses>>

CounterNext ==
  \/ CreateIntent \/ PollAsks \/ PollWrites
  \/ \E t \in Tills : Charge(t) \/ ReachMachine(t) \/ Answer(t) \/ Resolve(t) \/ Apply(t)
  \/ \E r \in Refs : MachineEnds(r)
  \/ \E i \in DOMAIN rows : Reconcile(i) \/ Expire(i) \/ Refund(i)
  \/ Cancel

(* Handlers end, customers finish at the machine, the sweeps come round.   *)
CounterFairness ==
  /\ \A t \in Tills : WF_counterVars(ReachMachine(t) \/ Answer(t)) /\ WF_counterVars(Apply(t))
  /\ WF_counterVars(PollWrites)
  /\ \A r \in Refs : WF_counterVars(MachineEnds(r))
  /\ \A i \in Refs : WF_counterVars(i \in DOMAIN rows /\ (Reconcile(i) \/ Refund(i)))

-----------------------------------------------------------------------------
(* Properties.                                                             *)

(* pos.provider.ts:197, terminal.port.ts ChargeRequest: however often      *)
(* Charge is pressed at a till that heeds "DO NOT charge again", and       *)
(* whatever the poll, the sweep and the expiry write meanwhile, the        *)
(* customer is debited once for an order.                                  *)
OneCharge == debits <= 1

(* Money the machine took does not leave the order waiting, even if the    *)
(* till never heard of it and the poll wrote it on the row first.  Like    *)
(* the one above it is a promise to a single till: a second one that read  *)
(* the open row before the first was declined breaks both.                 *)
ChargedStopsWaiting ==
  \A r \in Refs : machine[r] = "approved" ~> order # "PAYMENT_PENDING"
=============================================================================
