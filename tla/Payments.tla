------------------------------ MODULE Payments ------------------------------
(***************************************************************************)
(* The payment engine (src/src/payments/payment.repository.ts and          *)
(* webhook.ts) for one order: opening an intent, ingesting webhooks,       *)
(* reconciling with the provider, the client's status poll, the expiry     *)
(* sweep and the capture sweep, running concurrently over the payment,     *)
(* order, processed_event and reconciliation_item tables.  Every row the   *)
(* engine reads or writes is keyed by the order, so orders do not interact *)
(* here.                                                                   *)
(*                                                                         *)
(* A task is one execution of a handler between two awaits: an API request *)
(* or a worker sweep.  A statement on the database, a transaction and a    *)
(* call to the provider are one step each; a task keeps what it read in    *)
(* its record and may act on it after the tables have moved.               *)
(***************************************************************************)
EXTENDS Naturals, FiniteSets, OrderLifecycle

CONSTANTS
  Intents,          \* payment rows, each with the provider intent it was opened for
  NoIntent,         \* "no row", "no payment reference"
  ApiTasks,         \* requests in flight: createIntent, webhook, status poll
  WorkerTasks,      \* worker replicas, one sweep at a time each; a task in both
                    \* sets may be either, one after the other
  SplitTiming,      \* PAYMENTS_SPLIT_TIMING
  Provider,         \* PAYMENT_PROVIDER: "stub" authorises, then captures;
                    \* "cashfree" captures at once and is keyed by order reference
  AmbiguousStatus,  \* the provider may answer with a status nobody recognises
  CrashingTasks,    \* the tasks that may die between two of their steps
  MaxCrashes,       \* bound: how often they do, together
  NoticeKinds,      \* the kinds of notification sent that report no money taken
  MaxNotices,       \* bound: how many of them are sent
  KitchenReach      \* bound: how far dispatch and the kitchen take the order

ASSUME IntentsAssumption == NoIntent \notin Intents
ASSUME TasksAssumption == CrashingTasks \subseteq ApiTasks \cup WorkerTasks
ASSUME ConfigAssumption ==
  /\ SplitTiming \in {"ON_ACKNOWLEDGED", "ON_CAPTURE"}
  /\ Provider \in {"stub", "cashfree"}
  /\ AmbiguousStatus \in BOOLEAN
  /\ MaxCrashes \in Nat /\ MaxNotices \in Nat
  /\ NoticeKinds \subseteq {"PAYMENT_CAPTURED", "PAYMENT_FAILED", "PAYMENT_EXPIRED", "UNKNOWN"}
  /\ KitchenReach \subseteq InKitchen \cup {"REJECTED"}

VARIABLES
  order,    \* order.status
  row,      \* payment.status per row, "NONE" before the insert
  payRef,   \* payment.provider_payment_ref per row
  newest,   \* the row created last
  lapsed,   \* payment.expires_at is in the past
  prov,     \* what is true at the provider of each intent
  event,    \* provider events and their processed_event claim
  recon,    \* provider_reference of the reconciliation items opened
  task,     \* the handlers in flight
  crashes

vars == <<order, row, payRef, newest, lapsed, prov, event, recon, task, crashes>>

-----------------------------------------------------------------------------
(* Vocabulary.                                                             *)

Tasks == ApiTasks \cup WorkerTasks

PaymentStatuses ==
  {"CREATED", "PENDING", "AUTHORIZED", "CAPTURED", "FAILED", "EXPIRED",
   "RECONCILIATION_REQUIRED"}

(* LAPSED: money was blocked and the block was released.                   *)
ProviderStates == {"NONE", "OPEN", "AUTHORIZED", "CAPTURED", "LAPSED", "EXPIRED"}

MoneyKinds == {"PAYMENT_AUTHORIZED", "PAYMENT_CAPTURED"}
EventKinds == MoneyKinds \cup {"PAYMENT_FAILED", "PAYMENT_EXPIRED", "UNKNOWN"}

(* The identity of an event is its provider event id: one per provider     *)
(* notification, one per outcome for the ids reconciliation synthesises,   *)
(* and one per row for an item opened by a failed capture.                 *)
WebhookEvents ==
  [source : {"webhook"}, kind : EventKinds, intent : Intents, amountOk : BOOLEAN]
ReconcileEvents ==
  [source : {"reconcile"}, kind : MoneyKinds, intent : {NoIntent}, amountOk : {TRUE}]
CaptureItems ==
  [source : {"capture"}, kind : {"UNKNOWN"}, intent : Intents, amountOk : {TRUE}]
Events == WebhookEvents \cup ReconcileEvents
NoEvent == [source |-> "none", kind |-> "UNKNOWN", intent |-> NoIntent, amountOk |-> TRUE]

Webhook(kind, i) == [source |-> "webhook", kind |-> kind, intent |-> i, amountOk |-> TRUE]
Reconcile(kind) ==
  [source |-> "reconcile", kind |-> kind, intent |-> NoIntent, amountOk |-> TRUE]
CaptureItem(i) ==
  [source |-> "capture", kind |-> "UNKNOWN", intent |-> i, amountOk |-> TRUE]

(* unsent -> sent (the provider notified) -> claimed (processed_event row  *)
(* exists, processed_at null) -> processed (processed_at set).             *)
ClaimStates == {"unsent", "sent", "claimed", "processed"}

Steps ==
  {"idle", "open", "insert", "decide", "reconcile", "paymentOnly", "apply",
   "finish", "askReconcile", "askRefresh", "writeRefresh", "expire",
   "readCapture", "capture", "writeCapture", "captureItem"}

Idle == [pc |-> "idle", intent |-> NoIntent, ref |-> NoIntent,
         event |-> NoEvent, answer |-> "NONE"]

(* A handler carries what its next step needs.                             *)
AboutIntent ==
  {"insert", "askReconcile", "askRefresh", "writeRefresh", "expire", "capture",
   "writeCapture", "captureItem"}
AboutEvent == {"decide", "reconcile", "paymentOnly", "apply", "finish"}
WellFormed(r) ==
  /\ r.pc \in AboutIntent => r.intent \in Intents
  /\ r.pc = "capture" => r.ref \in Intents
  /\ r.pc \in AboutEvent => r.event \in Events
  /\ r.pc \in {"paymentOnly", "apply"} => r.event.kind # "UNKNOWN"

TaskRecords ==
  {r \in [pc : Steps, intent : Intents \cup {NoIntent}, ref : Intents \cup {NoIntent},
          event : Events \cup {NoEvent}, answer : PaymentStatuses \cup {"NONE"}] :
     WellFormed(r)}

TypeOK ==
  /\ order \in Statuses
  /\ row \in [Intents -> PaymentStatuses \cup {"NONE"}]
  /\ payRef \in [Intents -> Intents \cup {NoIntent}]
  /\ newest \in Intents \cup {NoIntent}
  /\ lapsed \in [Intents -> BOOLEAN]
  /\ prov \in [Intents -> ProviderStates]
  /\ event \in [Events -> ClaimStates]
  /\ recon \subseteq Events \cup CaptureItems
  /\ task \in [Tasks -> TaskRecords]
  /\ crashes \in 0..MaxCrashes

Init ==
  /\ order = "CREATED"
  /\ row = [i \in Intents |-> "NONE"]
  /\ payRef = [i \in Intents |-> NoIntent]
  /\ newest = NoIntent
  /\ lapsed = [i \in Intents |-> FALSE]
  /\ prov = [i \in Intents |-> "NONE"]
  /\ event = [e \in Events |-> "unsent"]
  /\ recon = {}
  /\ task = [t \in Tasks |-> Idle]
  /\ crashes = 0

-----------------------------------------------------------------------------
(* Predicates of the code and of the schema.                               *)

(* payment_one_live_per_order counts every status but these two.           *)
Dead == {"FAILED", "EXPIRED"}
CountsAsLive(s) == s \notin Dead \cup {"NONE"}

(* Mutant: the index forgets a payment once it is blocked or taken.        *)
OneLive_OpenOnly(r) == \A i, j \in Intents : {r[i], r[j]} \subseteq {"CREATED", "PENDING"} => i = j

OneLive(r) == \A i, j \in Intents : CountsAsLive(r[i]) /\ CountsAsLive(r[j]) => i = j

(* payment_provider_ref_uq.                                                *)
RefsDistinct(p) == \A i, j \in Intents : p[i] # NoIntent /\ p[i] = p[j] => i = j

(* The statuses createIntent reuses and applyPaymentState may move.        *)
InFlight == {"CREATED", "PENDING", "AUTHORIZED"}

(* Trigger order_confirmation_requires_payment.                            *)
Backed(r) == \E i \in Intents : r[i] \in {"AUTHORIZED", "CAPTURED"}

(* transitionOrder, with the trigger on the order table it runs under.     *)
OrderMoves(to, r) ==
  /\ TransitionAccepted(order, to)
  /\ to = "PAYMENT_CONFIRMED" /\ order # to => Backed(r)

(* Mutant: an authorisation confirms whatever the split timing.            *)
Confirms_AnyMoney(kind) == kind \in MoneyKinds

(* confirmationRequires, applied to an event kind.                         *)
Confirms(kind) ==
  \/ kind = "PAYMENT_CAPTURED"
  \/ SplitTiming = "ON_ACKNOWLEDGED" /\ kind = "PAYMENT_AUTHORIZED"

(* Mutant: a declined attempt is recorded on the payment alone, so that    *)
(* the customer may try again.                                             *)
Decision_DeclineIsPaymentOnly(e, status) ==
  IF e.kind = "UNKNOWN" \/ (e.kind \in MoneyKinds /\ ~e.amountOk) THEN "reconcile"
  ELSE IF Confirms(e.kind) /\ status \in AwaitingPayment THEN "apply"
  ELSE "paymentOnly"

(* decideWebhookAction for a claimed event that names this order; status   *)
(* is what the unlocked read of the order returned.                        *)
Decision(e, status) ==
  IF e.kind = "UNKNOWN" \/ (e.kind \in MoneyKinds /\ ~e.amountOk) THEN "reconcile"
  ELSE IF e.kind \in MoneyKinds /\ (Confirms(e.kind) => status \notin AwaitingPayment)
       THEN "paymentOnly"
  ELSE "apply"

(* Where APPLY moves the order, and what the event makes of the rows.      *)
OrderTarget(kind) ==
  IF Confirms(kind) THEN "PAYMENT_CONFIRMED"
  ELSE IF kind = "PAYMENT_FAILED" THEN "PAYMENT_FAILED" ELSE "PAYMENT_EXPIRED"

StatusOf ==
  [kind \in EventKinds \ {"UNKNOWN"} |->
     CASE kind = "PAYMENT_AUTHORIZED" -> "AUTHORIZED"
       [] kind = "PAYMENT_CAPTURED" -> "CAPTURED"
       [] kind = "PAYMENT_FAILED" -> "FAILED"
       [] kind = "PAYMENT_EXPIRED" -> "EXPIRED"]

(* applyPaymentState: every row of the order still in flight.              *)
RowsAfter(kind) ==
  [i \in Intents |-> IF row[i] \in InFlight THEN StatusOf[kind] ELSE row[i]]
RefsAfter(ref) ==
  [i \in Intents |-> IF row[i] \in InFlight /\ ref # NoIntent THEN ref ELSE payRef[i]]

Goto(t, pc) == task' = [task EXCEPT ![t].pc = pc]
Return(t) == task' = [task EXCEPT ![t] = Idle]
Start(t, r) == task[t] = Idle /\ task' = [task EXCEPT ![t] = r]
At(t, pc) == task[t].pc = pc

-----------------------------------------------------------------------------
(* createIntent.                                                           *)

(* The reads of the order, of a live payment and of a blocking one.  Only  *)
(* the path that goes on to open an intent leaves anything behind.         *)
StartIntent(t) ==
  /\ order \in AwaitingPayment
  /\ \A i \in Intents : ~CountsAsLive(row[i])
  /\ Start(t, [Idle EXCEPT !.pc = "open"])
  /\ UNCHANGED <<order, row, payRef, newest, lapsed, prov, event, recon, crashes>>

(* provider.createIntent, outside any transaction; it may refuse.          *)
OpenAtProvider(t) ==
  /\ At(t, "open")
  /\ \/ \E i \in Intents :
          /\ prov[i] = "NONE"
          /\ prov' = [prov EXCEPT ![i] = "OPEN"]
          /\ task' = [task EXCEPT ![t].pc = "insert", ![t].intent = i]
     \/ prov' = prov /\ Return(t)
  /\ UNCHANGED <<order, row, payRef, newest, lapsed, event, recon, crashes>>

(* The transaction that records the intent and moves the order.            *)
InsertIntent(t) ==
  LET i == task[t].intent
      inserted == [row EXCEPT ![i] = "PENDING"]
  IN  /\ At(t, "insert")
      /\ IF OneLive(inserted) /\ OrderMoves("PAYMENT_PENDING", inserted)
           THEN /\ row' = inserted
                /\ newest' = i
                /\ order' = "PAYMENT_PENDING"
           ELSE UNCHANGED <<row, newest, order>>
      /\ Return(t)
      /\ UNCHANGED <<payRef, lapsed, prov, event, recon, crashes>>

-----------------------------------------------------------------------------
(* ingestWebhook and applyEvent.                                           *)

(* Mutant: the claim is taken for the outcome.                             *)
ClaimWebhook_ClaimIsOutcome(t, e) ==
  /\ event[e] \in {"sent", "claimed"}
  /\ Start(t, [Idle EXCEPT !.pc = "decide", !.event = e, !.ref = e.intent])
  /\ event' = [event EXCEPT ![e] = "processed"]
  /\ UNCHANGED <<order, row, payRef, newest, lapsed, prov, recon, crashes>>

(* A signed event arrives and is claimed by INSERT; a claim that was made  *)
(* before and never finished is taken up again.  A processed one is        *)
(* dropped: nothing happens.                                               *)
ClaimWebhook(t, e) ==
  /\ event[e] \in {"sent", "claimed"}
  /\ Start(t, [Idle EXCEPT !.pc = "decide", !.event = e, !.ref = e.intent])
  /\ event' = [event EXCEPT ![e] = "claimed"]
  /\ UNCHANGED <<order, row, payRef, newest, lapsed, prov, recon, crashes>>

Decide(t) ==
  /\ At(t, "decide")
  /\ Goto(t, Decision(task[t].event, order))
  /\ UNCHANGED <<order, row, payRef, newest, lapsed, prov, event, recon, crashes>>

(* openReconciliation: recon_provider_ref_uq refuses a second item.        *)
OpenReconciliation(t) ==
  /\ At(t, "reconcile")
  /\ IF task[t].event \in recon
       THEN recon' = recon /\ Return(t)
       ELSE recon' = recon \cup {task[t].event} /\ Goto(t, "finish")
  /\ UNCHANGED <<order, row, payRef, newest, lapsed, prov, event, crashes>>

UpdatePaymentOnly(t) ==
  LET e == task[t].event  refs == RefsAfter(task[t].ref)
  IN  /\ At(t, "paymentOnly")
      /\ IF RefsDistinct(refs)
           THEN /\ row' = RowsAfter(e.kind)
                /\ payRef' = refs
                /\ Goto(t, "finish")
           ELSE UNCHANGED <<row, payRef>> /\ Return(t)
      /\ UNCHANGED <<order, newest, lapsed, prov, event, recon, crashes>>

(* One transaction, payment rows first and then the order under its lock.  *)
(* When the order refuses to move, everything is rolled back and the claim *)
(* stays unfinished.                                                       *)
Apply(t) ==
  LET e == task[t].event
      refs == RefsAfter(task[t].ref)
      to == OrderTarget(e.kind)
  IN  /\ At(t, "apply")
      /\ IF RefsDistinct(refs) /\ OrderMoves(to, RowsAfter(e.kind))
           THEN /\ row' = RowsAfter(e.kind)
                /\ payRef' = refs
                /\ order' = to
                /\ Goto(t, "finish")
           ELSE UNCHANGED <<row, payRef, order>> /\ Return(t)
      /\ UNCHANGED <<newest, lapsed, prov, event, recon, crashes>>

FinishClaim(t) ==
  /\ At(t, "finish")
  /\ event' = [event EXCEPT ![task[t].event] = "processed"]
  /\ Return(t)
  /\ UNCHANGED <<order, row, payRef, newest, lapsed, prov, recon, crashes>>

-----------------------------------------------------------------------------
(* Asking the provider.                                                    *)

(* getStatus of the intent a reference names.                              *)
Reported(i) ==
  CASE prov[i] = "OPEN" -> "PENDING"
    [] prov[i] \in {"LAPSED", "EXPIRED"} -> "EXPIRED"
    [] OTHER -> prov[i]

(* What getStatus may answer for a row: the payment reference is asked     *)
(* about when there is one, the order reference otherwise.  "THROWS" is a  *)
(* timeout, or cashfree being asked for an order by a payment reference.   *)
Answers(i, ref) ==
  {"THROWS"}
  \cup (IF ref # NoIntent /\ Provider = "cashfree" THEN {}
        ELSE {Reported(IF ref = NoIntent THEN i ELSE ref)})
  \cup (IF AmbiguousStatus THEN {"RECONCILIATION_REQUIRED"} ELSE {})

(* reconcileStalePayments selects this row of a waiting order.             *)
StartReconcile(t, i) ==
  /\ order \in AwaitingPayment
  /\ row[i] # "NONE"
  /\ Start(t, [Idle EXCEPT !.pc = "askReconcile", !.intent = i, !.ref = payRef[i]])
  /\ UNCHANGED <<order, row, payRef, newest, lapsed, prov, event, recon, crashes>>

(* Mutant: only a capture counts as money that moved.                      *)
AskReconcile_CaptureOnly(t) ==
  /\ At(t, "askReconcile")
  /\ \E s \in Answers(task[t].intent, task[t].ref) :
       LET e == Reconcile("PAYMENT_CAPTURED")
       IN  IF s = "CAPTURED" /\ event[e] = "unsent"
             THEN /\ event' = [event EXCEPT ![e] = "claimed"]
                  /\ task' = [task EXCEPT ![t].pc = "decide", ![t].event = e]
             ELSE event' = event /\ Return(t)
  /\ UNCHANGED <<order, row, payRef, newest, lapsed, prov, recon, crashes>>

(* It asks, and claims the synthetic event of an outcome that moved money. *)
(* A claim that exists already is a duplicate, finished or not.            *)
AskReconcile(t) ==
  /\ At(t, "askReconcile")
  /\ \E s \in Answers(task[t].intent, task[t].ref) :
       LET e == Reconcile(IF s = "CAPTURED" THEN "PAYMENT_CAPTURED" ELSE "PAYMENT_AUTHORIZED")
       IN  IF s \in {"CAPTURED", "AUTHORIZED"} /\ event[e] = "unsent"
             THEN /\ event' = [event EXCEPT ![e] = "claimed"]
                  /\ task' = [task EXCEPT ![t].pc = "decide", ![t].event = e]
             ELSE event' = event /\ Return(t)
  /\ UNCHANGED <<order, row, payRef, newest, lapsed, prov, recon, crashes>>

(* refreshFromProvider reads the newest row of the order.                  *)
StartRefresh(t) ==
  /\ newest # NoIntent
  /\ Start(t, [Idle EXCEPT !.pc = "askRefresh", !.intent = newest,
                           !.ref = payRef[newest], !.answer = row[newest]])
  /\ UNCHANGED <<order, row, payRef, newest, lapsed, prov, event, recon, crashes>>

AskRefresh(t) ==
  /\ At(t, "askRefresh")
  /\ \E s \in Answers(task[t].intent, task[t].ref) :
       IF s \in {"THROWS", task[t].answer}
         THEN Return(t)
         ELSE task' = [task EXCEPT ![t].pc = "writeRefresh", ![t].answer = s]
  /\ UNCHANGED <<order, row, payRef, newest, lapsed, prov, event, recon, crashes>>

(* The answer is written by id, whatever the row has become meanwhile.     *)
WriteRefresh(t) ==
  LET written == [row EXCEPT ![task[t].intent] = task[t].answer]
  IN  /\ At(t, "writeRefresh")
      /\ row' = IF OneLive(written) THEN written ELSE row
      /\ Return(t)
      /\ UNCHANGED <<order, payRef, newest, lapsed, prov, event, recon, crashes>>

-----------------------------------------------------------------------------
(* expireStaleIntents.                                                     *)

StartExpiry(t, i) ==
  /\ row[i] \in {"CREATED", "PENDING"}
  /\ lapsed[i]
  /\ Start(t, [Idle EXCEPT !.pc = "expire", !.intent = i])
  /\ UNCHANGED <<order, row, payRef, newest, lapsed, prov, event, recon, crashes>>

(* Mutant: the order is left waiting.                                      *)
ExpireIntent_OrderStays(t) ==
  /\ At(t, "expire")
  /\ row' = [row EXCEPT ![task[t].intent] = "EXPIRED"]
  /\ Return(t)
  /\ UNCHANGED <<order, payRef, newest, lapsed, prov, event, recon, crashes>>

(* The row is expired by id and the order with it, or neither.             *)
ExpireIntent(t) ==
  LET expired == [row EXCEPT ![task[t].intent] = "EXPIRED"]
  IN  /\ At(t, "expire")
      /\ IF OrderMoves("PAYMENT_EXPIRED", expired)
           THEN row' = expired /\ order' = "PAYMENT_EXPIRED"
           ELSE UNCHANGED <<row, order>>
      /\ Return(t)
      /\ UNCHANGED <<payRef, newest, lapsed, prov, event, recon, crashes>>

-----------------------------------------------------------------------------
(* claimCapturable and captureOnAcknowledgement.                           *)

(* Mutant: the sweep looks at orders the stall has just accepted only.     *)
StartCapture_AcknowledgedOnly(t) ==
  /\ SplitTiming = "ON_ACKNOWLEDGED"
  /\ order = "ACKNOWLEDGED"
  /\ \E i \in Intents : row[i] = "AUTHORIZED"
  /\ Start(t, [Idle EXCEPT !.pc = "readCapture"])
  /\ UNCHANGED <<order, row, payRef, newest, lapsed, prov, event, recon, crashes>>

StartCapture(t) ==
  /\ SplitTiming = "ON_ACKNOWLEDGED"
  /\ order \in Committed
  /\ \E i \in Intents : row[i] = "AUTHORIZED"
  /\ Start(t, [Idle EXCEPT !.pc = "readCapture"])
  /\ UNCHANGED <<order, row, payRef, newest, lapsed, prov, event, recon, crashes>>

(* A row without a payment reference is left alone.                        *)
ReadCapture(t) ==
  /\ At(t, "readCapture")
  /\ \/ \E i \in Intents :
          /\ row[i] = "AUTHORIZED" /\ payRef[i] # NoIntent
          /\ task' = [task EXCEPT ![t].pc = "capture", ![t].intent = i, ![t].ref = payRef[i]]
     \/ /\ \A i \in Intents : row[i] = "AUTHORIZED" => payRef[i] = NoIntent
        /\ Return(t)
  /\ UNCHANGED <<order, row, payRef, newest, lapsed, prov, event, recon, crashes>>

(* provider.capture: takes the money, finds it taken already, or finds     *)
(* (or makes) the block gone.  Taking it is notified by a webhook too.     *)
(* The call may also throw, which ends the sweep; cashfree always does,    *)
(* because it looks the payment reference up as an order.                  *)
AskCapture(t) ==
  LET r == task[t].ref
      answered(s) == task' = [task EXCEPT ![t].pc = "writeCapture", ![t].answer = s]
      taken == Webhook("PAYMENT_CAPTURED", r)
  IN  /\ At(t, "capture")
      /\ \/ /\ Provider = "stub" /\ prov[r] = "AUTHORIZED"
            /\ prov' = [prov EXCEPT ![r] = "CAPTURED"]
            /\ event' = [event EXCEPT ![taken] = IF @ = "unsent" THEN "sent" ELSE @]
            /\ answered("CAPTURED")
         \/ /\ Provider = "stub" /\ prov[r] = "AUTHORIZED"
            /\ prov' = [prov EXCEPT ![r] = "LAPSED"]
            /\ answered("EXPIRED")
            /\ event' = event
         \/ /\ Provider = "stub" /\ prov[r] # "AUTHORIZED"
            /\ answered(IF prov[r] = "CAPTURED" THEN "CAPTURED" ELSE "EXPIRED")
            /\ UNCHANGED <<prov, event>>
         \/ Return(t) /\ UNCHANGED <<prov, event>>
      /\ UNCHANGED <<order, row, payRef, newest, lapsed, recon, crashes>>

(* The row is updated by id, again whatever it has become.                 *)
WriteCapture(t) ==
  LET written == [row EXCEPT ![task[t].intent] = task[t].answer]
  IN  /\ At(t, "writeCapture")
      /\ row' = IF OneLive(written) THEN written ELSE row
      /\ IF task[t].answer = "EXPIRED" THEN Goto(t, "captureItem") ELSE Return(t)
      /\ UNCHANGED <<order, payRef, newest, lapsed, prov, event, recon, crashes>>

OpenCaptureItem(t) ==
  /\ At(t, "captureItem")
  /\ recon' = recon \cup {CaptureItem(task[t].intent)}
  /\ Return(t)
  /\ UNCHANGED <<order, row, payRef, newest, lapsed, prov, event, crashes>>

-----------------------------------------------------------------------------
(* The rest of the world: customer and provider, kitchen, clock, crashes.  *)

Send(e) == event' = [event EXCEPT ![e] = IF @ = "unsent" THEN "sent" ELSE @]

(* The customer completes a checkout they were handed.  The hand-off does  *)
(* not end when the order is cancelled or expires on our side.             *)
CustomerPays(i) ==
  LET taken == IF Provider = "stub" THEN "AUTHORIZED" ELSE "CAPTURED"
  IN  /\ row[i] # "NONE" /\ prov[i] = "OPEN"
      /\ prov' = [prov EXCEPT ![i] = taken]
      /\ Send(Webhook(IF Provider = "stub" THEN "PAYMENT_AUTHORIZED" ELSE "PAYMENT_CAPTURED", i))
      /\ UNCHANGED <<order, row, payRef, newest, lapsed, recon, task, crashes>>

(* Under ON_CAPTURE an authorise-first provider takes the money itself.    *)
ProviderCaptures(i) ==
  /\ SplitTiming = "ON_CAPTURE" /\ prov[i] = "AUTHORIZED"
  /\ prov' = [prov EXCEPT ![i] = "CAPTURED"]
  /\ Send(Webhook("PAYMENT_CAPTURED", i))
  /\ UNCHANGED <<order, row, payRef, newest, lapsed, recon, task, crashes>>

(* Notifications that leave the intent payable: a declined attempt, a      *)
(* customer who dropped out, a kind nobody maps, a wrong amount.           *)
Notices ==
  {e \in WebhookEvents : e.kind \in NoticeKinds /\ (e.amountOk <=> e.kind # "PAYMENT_CAPTURED")}

ProviderNotifies(e) ==
  /\ prov[e.intent] = "OPEN" /\ row[e.intent] # "NONE"
  /\ e \in Notices /\ event[e] = "unsent"
  /\ Cardinality({n \in Notices : event[n] # "unsent"}) < MaxNotices
  /\ Send(e)
  /\ UNCHANGED <<order, row, payRef, newest, lapsed, prov, recon, task, crashes>>

ProviderExpires(i) ==
  /\ prov[i] = "OPEN"
  /\ prov' = [prov EXCEPT ![i] = "EXPIRED"]
  /\ UNCHANGED <<order, row, payRef, newest, lapsed, event, recon, task, crashes>>

(* A block lasts for days, a checkout for minutes: it outlives the wait    *)
(* for payment.                                                            *)
BlockLapses(i) ==
  /\ prov[i] = "AUTHORIZED" /\ order \notin AwaitingPayment
  /\ prov' = [prov EXCEPT ![i] = "LAPSED"]
  /\ UNCHANGED <<order, row, payRef, newest, lapsed, event, recon, task, crashes>>

(* The clock passes expires_at.                                            *)
Lapse(i) ==
  /\ row[i] # "NONE" /\ ~lapsed[i]
  /\ lapsed' = [lapsed EXCEPT ![i] = TRUE]
  /\ UNCHANGED <<order, row, payRef, newest, prov, event, recon, task, crashes>>

CancelOrder ==
  /\ order \in Cancellable
  /\ order' = "CANCELLED"
  /\ UNCHANGED <<row, payRef, newest, lapsed, prov, event, recon, task, crashes>>

(* Dispatch, the kitchen and the ladder move a confirmed order along.      *)
KitchenMoves(to) ==
  /\ order \in InKitchen
  /\ to \in KitchenReach /\ CanTransition(order, to)
  /\ order' = to
  /\ UNCHANGED <<row, payRef, newest, lapsed, prov, event, recon, task, crashes>>

(* The process dies, or its connection does, between two steps.            *)
Crash(t) ==
  /\ t \in CrashingTasks
  /\ task[t] # Idle /\ crashes < MaxCrashes
  /\ crashes' = crashes + 1
  /\ Return(t)
  /\ UNCHANGED <<order, row, payRef, newest, lapsed, prov, event, recon>>

-----------------------------------------------------------------------------
ApiStep(t) ==
  \/ StartIntent(t) \/ OpenAtProvider(t) \/ InsertIntent(t)
  \/ \E e \in WebhookEvents : ClaimWebhook(t, e)
  \/ StartRefresh(t) \/ AskRefresh(t) \/ WriteRefresh(t)

WorkerStep(t) ==
  \/ \E i \in Intents : StartReconcile(t, i) \/ StartExpiry(t, i)
  \/ AskReconcile(t)
  \/ ExpireIntent(t)
  \/ StartCapture(t) \/ ReadCapture(t) \/ AskCapture(t)
  \/ WriteCapture(t) \/ OpenCaptureItem(t)

(* applyEvent runs on behalf of both.                                      *)
ApplyEventStep(t) ==
  \/ Decide(t) \/ OpenReconciliation(t) \/ UpdatePaymentOnly(t)
  \/ Apply(t) \/ FinishClaim(t)

Environment ==
  \/ \E i \in Intents :
       \/ CustomerPays(i) \/ ProviderCaptures(i)
       \/ ProviderExpires(i) \/ BlockLapses(i) \/ Lapse(i)
  \/ \E e \in WebhookEvents : ProviderNotifies(e)
  \/ CancelOrder
  \/ \E to \in Statuses : KitchenMoves(to)

Next ==
  \/ \E t \in ApiTasks : ApiStep(t)
  \/ \E t \in WorkerTasks : WorkerStep(t)
  \/ \E t \in Tasks : ApplyEventStep(t) \/ Crash(t)
  \/ Environment

Spec == Init /\ [][Next]_vars

-----------------------------------------------------------------------------
(* Fairness.  Nothing is assumed of customers, of the kitchen or of        *)
(* webhooks: a notification may never arrive.  A worker finishes what it   *)
(* began; its loop runs every sweep on every tick, so a sweep that finds   *)
(* work again and again runs again and again (strong fairness, because     *)
(* another sweep may occupy the worker in between); and a provider that is *)
(* asked for ever answers some of the time.                                *)

WorkerContinues(t) ==
  \/ AskReconcile(t) \/ ExpireIntent(t) \/ ReadCapture(t) \/ AskCapture(t)
  \/ WriteCapture(t) \/ OpenCaptureItem(t) \/ ApplyEventStep(t)

Fairness ==
  \A t \in WorkerTasks :
    /\ WF_vars(WorkerContinues(t))
    /\ SF_vars(AskReconcile(t) /\ task'[t].pc = "decide")
    /\ SF_vars(AskCapture(t) /\ task'[t].pc = "writeCapture")
    /\ \A i \in Intents : SF_vars(StartReconcile(t, i)) /\ SF_vars(StartExpiry(t, i))
    /\ SF_vars(StartCapture(t))

LiveSpec == Spec /\ Fairness

-----------------------------------------------------------------------------
(* Safety.                                                                 *)

Taken == {"AUTHORIZED", "CAPTURED"}

(* The provider has, or had, what the split timing asks for.               *)
MoneyHeld ==
  \E i \in Intents :
    prov[i] \in IF SplitTiming = "ON_CAPTURE" THEN {"CAPTURED"} ELSE Taken \cup {"LAPSED"}

(* An order reaches the kitchen only for money that was really blocked, or *)
(* really taken under ON_CAPTURE, at the provider: across unlocked reads,  *)
(* redelivered, late and mismatched events, the reconcile sweep and a      *)
(* status poll that rewrites payment rows (PRD 8.2, the binding rule).     *)
ConfirmedOnlyOnMoney == order \in InKitchen => MoneyHeld

(* One order, one charge (PAY-REC-03): whatever requests race and whatever *)
(* expires, the provider never holds money on two intents of one order.    *)
AtMostOneCharge ==
  \A i, j \in Intents : prov[i] \in Taken /\ prov[j] \in Taken => i = j

(* While the order can still be paid, no checkout the customer could       *)
(* complete is a payment the engine has stopped watching, which is what    *)
(* createIntent reuses a live intent for.                                  *)
WatchedWhilePayable ==
  order \in AwaitingPayment =>
    \A i \in Intents : prov[i] \in {"OPEN"} \cup Taken => row[i] \notin Dead

(* A claim is not an outcome: once an event that confirms the order is     *)
(* marked processed, and so never acted on again, the order is no longer   *)
(* waiting for payment.                                                    *)
FinishedMoneyMovesOrder ==
  \A e \in Events :
    event[e] = "processed" /\ e.amountOk /\ Confirms(e.kind) => order \notin AwaitingPayment

-----------------------------------------------------------------------------
(* The engine implements Checkout.  A checkout is offered to the diner     *)
(* once its row is there: createIntent hands over what it recorded.        *)

Stage ==
  IF order \in AwaitingPayment THEN "waiting"
  ELSE IF order \in InKitchen THEN "confirmed" ELSE "closed"

FateOf ==
  [NONE |-> "none", OPEN |-> "offered", AUTHORIZED |-> "blocked",
   CAPTURED |-> "taken", LAPSED |-> "released", EXPIRED |-> "ended"]

Fate(i) == IF row[i] = "NONE" /\ prov[i] = "OPEN" THEN "none" ELSE FateOf[prov[i]]

Promise == INSTANCE Checkout WITH
  Checkouts <- Intents,
  Enough <- IF SplitTiming = "ON_CAPTURE" THEN {"taken"} ELSE {"blocked", "taken"},
  stage <- Stage,
  money <- [i \in Intents |-> Fate(i)]

(* What the engine does to an order's money is what Checkout promises.     *)
ImplementsCheckout == Promise!Spec

-----------------------------------------------------------------------------
(* Liveness.                                                               *)

(* A paid order does not stay waiting because a webhook was lost: the      *)
(* reconcile sweep finds the money (or the block has been released).       *)
PaidOrderStopsWaiting ==
  \A i \in Intents :
    prov[i] \in Taken /\ row[i] # "NONE" ~>
      order \notin AwaitingPayment \/ prov[i] = "LAPSED"

(* Money blocked for an order a kitchen has committed to is captured, or   *)
(* found to be gone, provided the engine holds its payment reference: the  *)
(* capture sweep selects on state and misses nothing.                      *)
ReferencedMoneyIsCaptured ==
  \A i \in Intents :
    order \in Committed /\ row[i] = "AUTHORIZED" /\ payRef[i] # NoIntent ~>
      order \notin Committed \/ row[i] # "AUTHORIZED"
=============================================================================
