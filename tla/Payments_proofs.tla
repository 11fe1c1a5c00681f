--------------------------- MODULE Payments_proofs ---------------------------
(***************************************************************************)
(* Proofs about Payments, for every number of intents and tasks, either    *)
(* split timing and either provider.                                       *)
(***************************************************************************)
EXTENDS Payments, TLAPS

(* The table only names statuses, and nothing returns to waiting for       *)
(* payment: the fact about state-machine.ts every claim rests on.          *)
LEMMA LifecycleFacts ==
  ASSUME NEW s \in Statuses, NEW to \in Statuses, TransitionAccepted(s, to)
  PROVE  s \notin AwaitingPayment => to \notin AwaitingPayment
  BY DEF TransitionAccepted, CanTransition, Allowed, Statuses, AwaitingPayment

(* What a handler may do to its own record.                                *)
LEMMA TaskUpdates ==
  ASSUME task \in [Tasks -> TaskRecords], NEW t \in Tasks
  PROVE  /\ task[t] \in TaskRecords
         /\ Return(t) => task' \in [Tasks -> TaskRecords]
         /\ \A r \in TaskRecords : Start(t, r) => task' \in [Tasks -> TaskRecords]
         /\ \A pc \in Steps :
              Goto(t, pc) /\ WellFormed([task[t] EXCEPT !.pc = pc])
                => task' \in [Tasks -> TaskRecords]
<1>1. Idle \in TaskRecords
  BY DEF Idle, TaskRecords, Steps, WellFormed, AboutIntent, AboutEvent
<1>2. ASSUME NEW pc \in Steps, WellFormed([task[t] EXCEPT !.pc = pc])
      PROVE  [task[t] EXCEPT !.pc = pc] \in TaskRecords
  BY <1>2 DEF TaskRecords
<1> QED
  BY <1>1, <1>2 DEF Return, Goto, Start

(* An event that is sent or claimed is one of the engine's events.         *)
LEMMA EventTypes ==
  /\ \A kind \in EventKinds, i \in Intents : Webhook(kind, i) \in Events
  /\ \A kind \in MoneyKinds : Reconcile(kind) \in Events
  /\ MoneyKinds \subseteq EventKinds
  /\ \A e \in Events : e.kind \in EventKinds
  BY DEF Webhook, WebhookEvents, Reconcile, ReconcileEvents, Events, EventKinds, MoneyKinds

(* What the provider may answer is a payment status or no answer at all.   *)
LEMMA AnswerTypes ==
  ASSUME TypeOK, NEW i \in Intents, NEW ref \in Intents \cup {NoIntent}
  PROVE  Answers(i, ref) \subseteq PaymentStatuses \cup {"NONE", "THROWS"}
  BY DEF TypeOK, Answers, Reported, ProviderStates, PaymentStatuses

(* applyPaymentState writes payment statuses and payment references.       *)
LEMMA RowTypes ==
  ASSUME TypeOK, NEW kind \in EventKinds \ {"UNKNOWN"}, NEW ref \in Intents \cup {NoIntent}
  PROVE  /\ RowsAfter(kind) \in [Intents -> PaymentStatuses \cup {"NONE"}]
         /\ RefsAfter(ref) \in [Intents -> Intents \cup {NoIntent}]
<1>1. StatusOf[kind] \in PaymentStatuses
  BY DEF StatusOf, EventKinds, MoneyKinds, PaymentStatuses
<1> QED
  BY <1>1 DEF RowsAfter, RefsAfter, TypeOK

(* Type correctness.                                                       *)
THEOREM TypeCorrect == Spec => []TypeOK
<1>1. Init => TypeOK
  <2> SUFFICES ASSUME Init PROVE TypeOK
    OBVIOUS
  <2>1. Idle \in TaskRecords
    BY DEF Idle, TaskRecords, Steps, WellFormed, AboutIntent, AboutEvent
  <2> QED
    BY <2>1, ConfigAssumption
       DEF Init, TypeOK, Statuses, ProviderStates, ClaimStates
<1>2. TypeOK /\ [Next]_vars => TypeOK'
  <2> SUFFICES ASSUME TypeOK, [Next]_vars PROVE TypeOK'
    OBVIOUS
  <2> USE DEF TypeOK
  <2>1. ASSUME NEW t \in Tasks, StartIntent(t) PROVE TypeOK'
    <3>1. [Idle EXCEPT !.pc = "open"] \in TaskRecords
      BY <2>1 DEF Idle, TaskRecords, Steps, WellFormed, AboutIntent, AboutEvent
    <3> QED
      BY <2>1, <3>1, TaskUpdates DEF StartIntent
  <2>2. ASSUME NEW t \in Tasks, OpenAtProvider(t) PROVE TypeOK'
    <3>1. \A i \in Intents : [task[t] EXCEPT !.pc = "insert", !.intent = i] \in TaskRecords
      BY <2>2, TaskUpdates DEF TaskRecords, Steps, WellFormed, AboutIntent, AboutEvent
    <3>2. CASE prov' = prov /\ Return(t)
      BY <2>2, <3>2, TaskUpdates DEF OpenAtProvider
    <3>3. ASSUME NEW i \in Intents, prov' = [prov EXCEPT ![i] = "OPEN"],
                 task' = [task EXCEPT ![t].pc = "insert", ![t].intent = i]
          PROVE  TypeOK'
      <4>1. task' = [task EXCEPT ![t] = [task[t] EXCEPT !.pc = "insert", !.intent = i]]
        BY <3>3, TaskUpdates DEF TaskRecords
      <4>2. task' \in [Tasks -> TaskRecords]
        BY <3>1, <4>1
      <4>3. prov' \in [Intents -> ProviderStates]
        BY <3>3 DEF ProviderStates
      <4> QED
        BY <2>2, <4>2, <4>3 DEF OpenAtProvider
    <3> QED
      BY <2>2, <3>2, <3>3 DEF OpenAtProvider
  <2>3. ASSUME NEW t \in Tasks, InsertIntent(t) PROVE TypeOK'
    <3>1. task[t].intent \in Intents
      BY <2>3, TaskUpdates DEF InsertIntent, At, TaskRecords, WellFormed, AboutIntent, AboutEvent
    <3> QED
      BY <2>3, <3>1, TaskUpdates DEF InsertIntent, PaymentStatuses, Statuses
  <2>4. ASSUME NEW t \in Tasks, NEW e \in WebhookEvents, ClaimWebhook(t, e) PROVE TypeOK'
    <3>1. [Idle EXCEPT !.pc = "decide", !.event = e, !.ref = e.intent] \in TaskRecords
      BY <2>4 DEF Events, WebhookEvents, Idle, TaskRecords, Steps, WellFormed, AboutIntent, AboutEvent
    <3> QED
      BY <2>4, <3>1, TaskUpdates DEF ClaimWebhook, Events, ClaimStates
  <2>5. ASSUME NEW t \in Tasks, StartRefresh(t) PROVE TypeOK'
    <3>1. [Idle EXCEPT !.pc = "askRefresh", !.intent = newest, !.ref = payRef[newest],
                        !.answer = row[newest]] \in TaskRecords
      BY <2>5 DEF StartRefresh, Idle, TaskRecords, Steps, WellFormed, AboutIntent, AboutEvent
    <3> QED
      BY <2>5, <3>1, TaskUpdates DEF StartRefresh
  <2>6. ASSUME NEW t \in Tasks, AskRefresh(t) PROVE TypeOK'
    <3>1. task[t].intent \in Intents /\ task[t].ref \in Intents \cup {NoIntent}
      BY <2>6, TaskUpdates DEF AskRefresh, At, TaskRecords, WellFormed, AboutIntent, AboutEvent
    <3>2. \A s \in PaymentStatuses \cup {"NONE"} :
              [task[t] EXCEPT !.pc = "writeRefresh", !.answer = s] \in TaskRecords
      BY <2>6, <3>1, TaskUpdates DEF TaskRecords, Steps, WellFormed, AboutIntent, AboutEvent
    <3>3. PICK s \in Answers(task[t].intent, task[t].ref) :
            IF s \in {"THROWS", task[t].answer}
              THEN Return(t)
              ELSE task' = [task EXCEPT ![t].pc = "writeRefresh", ![t].answer = s]
      BY <2>6 DEF AskRefresh
    <3>4. CASE s \in {"THROWS", task[t].answer}
      BY <2>6, <3>3, <3>4, TaskUpdates DEF AskRefresh
    <3>5. CASE s \notin {"THROWS", task[t].answer}
      <4>1. s \in PaymentStatuses \cup {"NONE"}
        BY <3>1, <3>5, AnswerTypes
      <4>2. task' = [task EXCEPT ![t] = [task[t] EXCEPT !.pc = "writeRefresh", !.answer = s]]
        BY <3>3, <3>5
      <4>3. task' \in [Tasks -> TaskRecords]
        BY <3>2, <4>1, <4>2
      <4> QED
        BY <2>6, <4>3 DEF AskRefresh
    <3> QED
      BY <3>4, <3>5
  <2>7. ASSUME NEW t \in Tasks, WriteRefresh(t) PROVE TypeOK'
    <3>1. task[t].intent \in Intents /\ task[t].answer \in PaymentStatuses \cup {"NONE"}
      BY <2>7, TaskUpdates DEF WriteRefresh, At, TaskRecords, WellFormed, AboutIntent, AboutEvent
    <3> QED
      BY <2>7, <3>1, TaskUpdates DEF WriteRefresh
  <2>8. ASSUME NEW t \in Tasks, NEW i \in Intents, StartReconcile(t, i) PROVE TypeOK'
    <3>1. [Idle EXCEPT !.pc = "askReconcile", !.intent = i, !.ref = payRef[i]] \in TaskRecords
      BY <2>8 DEF Idle, TaskRecords, Steps, WellFormed, AboutIntent, AboutEvent
    <3> QED
      BY <2>8, <3>1, TaskUpdates DEF StartReconcile
  <2>9. ASSUME NEW t \in Tasks, NEW i \in Intents, StartExpiry(t, i) PROVE TypeOK'
    <3>1. [Idle EXCEPT !.pc = "expire", !.intent = i] \in TaskRecords
      BY <2>9 DEF Idle, TaskRecords, Steps, WellFormed, AboutIntent, AboutEvent
    <3> QED
      BY <2>9, <3>1, TaskUpdates DEF StartExpiry
  <2>10. ASSUME NEW t \in Tasks, AskReconcile(t) PROVE TypeOK'
    <3>1. \A e \in Events : [task[t] EXCEPT !.pc = "decide", !.event = e] \in TaskRecords
      BY <2>10, TaskUpdates DEF TaskRecords, Steps, WellFormed, AboutIntent, AboutEvent
    <3>2. task' \in [Tasks -> TaskRecords]
      <4>1. Return(t) \/ \E kind \in MoneyKinds :
              task' = [task EXCEPT ![t].pc = "decide", ![t].event = Reconcile(kind)]
        BY <2>10 DEF AskReconcile, MoneyKinds
      <4>2. \A e \in Events :
              task' = [task EXCEPT ![t].pc = "decide", ![t].event = e]
                => task' \in [Tasks -> TaskRecords]
        BY <3>1
      <4> QED
        BY <4>1, <4>2, TaskUpdates, EventTypes
    <3>3. event' \in [Events -> ClaimStates]
      BY <2>10 DEF AskReconcile, ClaimStates
    <3>4. UNCHANGED <<order, row, payRef, newest, lapsed, prov, recon, crashes>>
      BY <2>10 DEF AskReconcile
    <3> QED
      BY <3>2, <3>3, <3>4
  <2>11. ASSUME NEW t \in Tasks, ExpireIntent(t) PROVE TypeOK'
    <3>1. task[t].intent \in Intents
      BY <2>11, TaskUpdates DEF ExpireIntent, At, TaskRecords, WellFormed, AboutIntent, AboutEvent
    <3> QED
      BY <2>11, <3>1, TaskUpdates DEF ExpireIntent, PaymentStatuses, Statuses
  <2>12. ASSUME NEW t \in Tasks, StartCapture(t) PROVE TypeOK'
    <3>1. [Idle EXCEPT !.pc = "readCapture"] \in TaskRecords
      BY <2>12 DEF Idle, TaskRecords, Steps, WellFormed, AboutIntent, AboutEvent
    <3> QED
      BY <2>12, <3>1, TaskUpdates DEF StartCapture
  <2>13. ASSUME NEW t \in Tasks, ReadCapture(t) PROVE TypeOK'
    <3>1. \A i \in Intents :
            payRef[i] # NoIntent =>
              [task[t] EXCEPT !.pc = "capture", !.intent = i, !.ref = payRef[i]] \in TaskRecords
      BY <2>13, TaskUpdates DEF TaskRecords, Steps, WellFormed, AboutIntent, AboutEvent
    <3>2. CASE Return(t)
      BY <2>13, <3>2, TaskUpdates DEF ReadCapture
    <3>3. ASSUME NEW i \in Intents, payRef[i] # NoIntent,
                 task' = [task EXCEPT ![t].pc = "capture", ![t].intent = i, ![t].ref = payRef[i]]
          PROVE  TypeOK'
      <4>1. task' = [task EXCEPT ![t] =
                       [task[t] EXCEPT !.pc = "capture", !.intent = i, !.ref = payRef[i]]]
        BY <3>3, TaskUpdates DEF TaskRecords
      <4>2. task' \in [Tasks -> TaskRecords]
        BY <3>1, <3>3, <4>1
      <4> QED
        BY <2>13, <4>2 DEF ReadCapture
    <3> QED
      BY <2>13, <3>2, <3>3 DEF ReadCapture
  <2>14. ASSUME NEW t \in Tasks, AskCapture(t) PROVE TypeOK'
    <3>1. \A s \in PaymentStatuses :
              [task[t] EXCEPT !.pc = "writeCapture", !.answer = s] \in TaskRecords
      BY <2>14, TaskUpdates DEF AskCapture, At, TaskRecords, Steps, WellFormed, AboutIntent, AboutEvent
    <3>2. task' \in [Tasks -> TaskRecords]
      BY <2>14, <3>1, TaskUpdates DEF AskCapture, PaymentStatuses
    <3>3. prov' \in [Intents -> ProviderStates]
      BY <2>14 DEF AskCapture, ProviderStates
    <3>4. event' \in [Events -> ClaimStates]
      BY <2>14 DEF AskCapture, ClaimStates
    <3> QED
      BY <2>14, <3>2, <3>3, <3>4 DEF AskCapture
  <2>15. ASSUME NEW t \in Tasks, WriteCapture(t) PROVE TypeOK'
    <3>1. task[t].intent \in Intents /\ task[t].answer \in PaymentStatuses \cup {"NONE"}
      BY <2>15, TaskUpdates DEF WriteCapture, At, TaskRecords, WellFormed, AboutIntent, AboutEvent
    <3>2. WellFormed([task[t] EXCEPT !.pc = "captureItem"])
      BY <3>1, TaskUpdates DEF TaskRecords, WellFormed, AboutIntent, AboutEvent
    <3>3. task' \in [Tasks -> TaskRecords]
      BY <2>15, <3>2, TaskUpdates DEF WriteCapture, Steps
    <3> QED
      BY <2>15, <3>1, <3>2, <3>3 DEF WriteCapture
  <2>16. ASSUME NEW t \in Tasks, OpenCaptureItem(t) PROVE TypeOK'
    <3>1. CaptureItem(task[t].intent) \in CaptureItems
      BY <2>16, TaskUpdates DEF OpenCaptureItem, At, TaskRecords, CaptureItem, CaptureItems, WellFormed, AboutIntent, AboutEvent
    <3> QED
      BY <2>16, <3>1, TaskUpdates DEF OpenCaptureItem
  <2>17. ASSUME NEW t \in Tasks, Decide(t) PROVE TypeOK'
    <3>1. WellFormed([task[t] EXCEPT !.pc = Decision(task[t].event, order)])
      BY <2>17, TaskUpdates DEF Decide, At, Decision, TaskRecords, WellFormed, AboutIntent, AboutEvent
    <3>2. Decision(task[t].event, order) \in Steps
      BY DEF Decision, Steps
    <3> QED
      BY <2>17, <3>1, <3>2, TaskUpdates DEF Decide
  <2>18. ASSUME NEW t \in Tasks, OpenReconciliation(t) PROVE TypeOK'
    <3>1. task[t].event \in Events
      BY <2>18, TaskUpdates DEF OpenReconciliation, At, TaskRecords, WellFormed, AboutIntent, AboutEvent
    <3>2. WellFormed([task[t] EXCEPT !.pc = "finish"])
      BY <3>1, TaskUpdates DEF TaskRecords, WellFormed, AboutIntent, AboutEvent
    <3>3. task' \in [Tasks -> TaskRecords]
      BY <2>18, <3>2, TaskUpdates DEF OpenReconciliation, Steps
    <3> QED
      BY <2>18, <3>1, <3>2, <3>3 DEF OpenReconciliation
  <2>19. ASSUME NEW t \in Tasks, UpdatePaymentOnly(t) PROVE TypeOK'
    <3>1. /\ task[t].event \in Events /\ task[t].event.kind # "UNKNOWN"
         /\ task[t].ref \in Intents \cup {NoIntent}
      BY <2>19, TaskUpdates DEF UpdatePaymentOnly, At, TaskRecords, WellFormed, AboutIntent, AboutEvent
    <3>2. WellFormed([task[t] EXCEPT !.pc = "finish"])
      BY <3>1, TaskUpdates DEF TaskRecords, WellFormed, AboutIntent, AboutEvent
    <3>3. task' \in [Tasks -> TaskRecords]
      BY <2>19, <3>2, TaskUpdates DEF UpdatePaymentOnly, Steps
    <3>4. /\ RowsAfter(task[t].event.kind) \in [Intents -> PaymentStatuses \cup {"NONE"}]
         /\ RefsAfter(task[t].ref) \in [Intents -> Intents \cup {NoIntent}]
      BY <3>1, RowTypes, EventTypes
    <3> QED
      BY <2>19, <3>1, <3>2, <3>3, <3>4 DEF UpdatePaymentOnly
  <2>20. ASSUME NEW t \in Tasks, Apply(t) PROVE TypeOK'
    <3>1. /\ task[t].event \in Events /\ task[t].event.kind # "UNKNOWN"
         /\ task[t].ref \in Intents \cup {NoIntent}
      BY <2>20, TaskUpdates DEF Apply, At, TaskRecords, WellFormed, AboutIntent, AboutEvent
    <3>2. WellFormed([task[t] EXCEPT !.pc = "finish"])
      BY <3>1, TaskUpdates DEF TaskRecords, WellFormed, AboutIntent, AboutEvent
    <3>3. task' \in [Tasks -> TaskRecords]
      BY <2>20, <3>2, TaskUpdates DEF Apply, Steps
    <3>4. /\ RowsAfter(task[t].event.kind) \in [Intents -> PaymentStatuses \cup {"NONE"}]
         /\ RefsAfter(task[t].ref) \in [Intents -> Intents \cup {NoIntent}]
      BY <3>1, RowTypes, EventTypes
    <3> QED
      BY <2>20, <3>1, <3>2, <3>3, <3>4 DEF Apply, OrderTarget, Statuses
  <2>21. ASSUME NEW t \in Tasks, FinishClaim(t) PROVE TypeOK'
    BY <2>21, TaskUpdates DEF FinishClaim, ClaimStates
  <2>22. ASSUME NEW t \in Tasks, Crash(t) PROVE TypeOK'
    BY <2>22, TaskUpdates, ConfigAssumption DEF Crash
  <2>23. ASSUME NEW i \in Intents, CustomerPays(i) PROVE TypeOK'
    BY <2>23 DEF CustomerPays, Send, ProviderStates, ClaimStates
  <2>24. ASSUME NEW i \in Intents, ProviderCaptures(i) PROVE TypeOK'
    BY <2>24 DEF ProviderCaptures, Send, ProviderStates, ClaimStates
  <2>25. ASSUME NEW e \in WebhookEvents, ProviderNotifies(e) PROVE TypeOK'
    BY <2>25 DEF ProviderNotifies, Send, ClaimStates
  <2>26. ASSUME NEW i \in Intents, ProviderExpires(i) PROVE TypeOK'
    BY <2>26 DEF ProviderExpires, ProviderStates
  <2>27. ASSUME NEW i \in Intents, BlockLapses(i) PROVE TypeOK'
    BY <2>27 DEF BlockLapses, ProviderStates
  <2>28. ASSUME NEW i \in Intents, Lapse(i) PROVE TypeOK'
    BY <2>28 DEF Lapse
  <2>29. ASSUME CancelOrder PROVE TypeOK'
    BY <2>29 DEF CancelOrder, Statuses
  <2>30. ASSUME NEW to \in Statuses, KitchenMoves(to) PROVE TypeOK'
    BY <2>30 DEF KitchenMoves
  <2>31. CASE UNCHANGED vars
    BY <2>31 DEF vars
  <2> QED
    BY <2>1, <2>2, <2>3, <2>4, <2>5, <2>6, <2>7, <2>8, <2>9, <2>10, <2>11, <2>12, <2>13, <2>14, <2>15, <2>16, <2>17, <2>18, <2>19, <2>20, <2>21, <2>22, <2>23, <2>24, <2>25, <2>26, <2>27, <2>28, <2>29, <2>30, <2>31
       DEF Next, ApiStep, WorkerStep, ApplyEventStep, Environment, Tasks
<1> QED
  BY <1>1, <1>2, PTL DEF Spec

-----------------------------------------------------------------------------
(* A claim is not an outcome.                                              *)

(* An event settles the order when acting on it should end the wait for    *)
(* payment.                                                                *)
Settles(e) == e.amountOk /\ Confirms(e.kind)

(* What makes FinishedMoneyMovesOrder inductive: a handler on its way to   *)
(* finish the claim of a settling event has seen the order leave the wait  *)
(* for payment, and such an event is never sent to reconciliation.         *)
Concludes == {"paymentOnly", "reconcile", "finish"}
HandlersConclude ==
  \A t \in Tasks :
    task[t].pc \in Concludes /\ Settles(task[t].event) =>
      order \notin AwaitingPayment /\ task[t].pc # "reconcile"
FinishedMoneyInv == FinishedMoneyMovesOrder /\ HandlersConclude

(* Once the order has left the wait for payment it never returns to it.    *)
LEMMA WaitIsOver ==
  ASSUME TypeOK, [Next]_vars, order \notin AwaitingPayment
  PROVE  order' \notin AwaitingPayment
<1>1. ASSUME NEW to \in Statuses, TransitionAccepted(order, to)
      PROVE  to \notin AwaitingPayment
  BY <1>1, LifecycleFacts DEF TypeOK
<1>2. ASSUME NEW t \in Tasks, InsertIntent(t) PROVE order' \notin AwaitingPayment
  BY <1>1, <1>2 DEF InsertIntent, OrderMoves, Statuses
<1>3. ASSUME NEW t \in Tasks, Apply(t) PROVE order' \notin AwaitingPayment
  BY <1>3 DEF Apply, OrderTarget, AwaitingPayment
<1>4. ASSUME NEW t \in Tasks, ExpireIntent(t) PROVE order' \notin AwaitingPayment
  BY <1>4 DEF ExpireIntent, AwaitingPayment
<1>5. CASE CancelOrder
  BY <1>5 DEF CancelOrder, AwaitingPayment
<1>6. ASSUME NEW to \in Statuses, KitchenMoves(to) PROVE order' \notin AwaitingPayment
  BY <1>1, <1>6 DEF KitchenMoves, TransitionAccepted
<1>7. CASE order' = order
  BY <1>7
<1> QED
  BY <1>2, <1>3, <1>4, <1>5, <1>6, <1>7
     DEF Next, ApiStep, WorkerStep, ApplyEventStep, Environment, vars, Tasks,
         StartIntent, OpenAtProvider, ClaimWebhook, StartRefresh, AskRefresh,
         WriteRefresh, StartReconcile, StartExpiry, AskReconcile, StartCapture,
         ReadCapture, AskCapture, WriteCapture, OpenCaptureItem, Decide,
         OpenReconciliation, UpdatePaymentOnly, FinishClaim, Crash, CustomerPays,
         ProviderCaptures, ProviderExpires, BlockLapses, Lapse, ProviderNotifies

(* A step that finishes no claim, and leads no handler towards finishing   *)
(* one, cannot disturb the invariant.                                      *)
LEMMA QuietStep ==
  ASSUME TypeOK, FinishedMoneyInv, [Next]_vars,
         \A e \in Events : event'[e] = "processed" => event[e] = "processed",
         \A t \in Tasks : task'[t] = task[t] \/ task'[t].pc \notin Concludes
  PROVE  FinishedMoneyInv'
  BY WaitIsOver DEF FinishedMoneyInv, FinishedMoneyMovesOrder, HandlersConclude, Settles,
                    Confirms

(* No processed event that confirms the order leaves it waiting: the       *)
(* two-phase claim of ingestWebhook loses nothing, whatever interleaves.   *)
THEOREM FinishedMoney == Spec => []FinishedMoneyMovesOrder
<1>1. Init => FinishedMoneyInv
  BY DEF Init, FinishedMoneyInv, FinishedMoneyMovesOrder, HandlersConclude, Concludes, Idle
<1>2. TypeOK /\ FinishedMoneyInv /\ [Next]_vars => FinishedMoneyInv'
  <2> SUFFICES ASSUME TypeOK, FinishedMoneyInv, [Next]_vars PROVE FinishedMoneyInv'
    OBVIOUS
  <2>0. task \in [Tasks -> TaskRecords] /\ event \in [Events -> ClaimStates]
    BY DEF TypeOK
  <2>1. ASSUME NEW t \in Tasks, StartIntent(t) PROVE FinishedMoneyInv'
    <3>1. \A u \in Tasks : task'[u] = task[u] \/ task'[u].pc \notin Concludes
      BY <2>0, <2>1 DEF StartIntent, Start, Idle, Concludes, TaskRecords
    <3>2. \A x \in Events : event'[x] = "processed" => event[x] = "processed"
      BY <2>0, <2>1 DEF StartIntent
    <3> QED
      BY <3>1, <3>2, QuietStep
  <2>2. ASSUME NEW t \in Tasks, InsertIntent(t) PROVE FinishedMoneyInv'
    <3>1. \A u \in Tasks : task'[u] = task[u] \/ task'[u].pc \notin Concludes
      BY <2>0, <2>2 DEF InsertIntent, Return, Idle, Concludes, TaskRecords
    <3>2. \A x \in Events : event'[x] = "processed" => event[x] = "processed"
      BY <2>0, <2>2 DEF InsertIntent
    <3> QED
      BY <3>1, <3>2, QuietStep
  <2>3. ASSUME NEW t \in Tasks, StartRefresh(t) PROVE FinishedMoneyInv'
    <3>1. \A u \in Tasks : task'[u] = task[u] \/ task'[u].pc \notin Concludes
      BY <2>0, <2>3 DEF StartRefresh, Start, Idle, Concludes, TaskRecords
    <3>2. \A x \in Events : event'[x] = "processed" => event[x] = "processed"
      BY <2>0, <2>3 DEF StartRefresh
    <3> QED
      BY <3>1, <3>2, QuietStep
  <2>4. ASSUME NEW t \in Tasks, AskRefresh(t) PROVE FinishedMoneyInv'
    <3>1. \A u \in Tasks : task'[u] = task[u] \/ task'[u].pc \notin Concludes
      BY <2>0, <2>4 DEF AskRefresh, Return, Idle, Concludes, TaskRecords
    <3>2. \A x \in Events : event'[x] = "processed" => event[x] = "processed"
      BY <2>0, <2>4 DEF AskRefresh
    <3> QED
      BY <3>1, <3>2, QuietStep
  <2>5. ASSUME NEW t \in Tasks, WriteRefresh(t) PROVE FinishedMoneyInv'
    <3>1. \A u \in Tasks : task'[u] = task[u] \/ task'[u].pc \notin Concludes
      BY <2>0, <2>5 DEF WriteRefresh, Return, Idle, Concludes, TaskRecords
    <3>2. \A x \in Events : event'[x] = "processed" => event[x] = "processed"
      BY <2>0, <2>5 DEF WriteRefresh
    <3> QED
      BY <3>1, <3>2, QuietStep
  <2>6. ASSUME NEW t \in Tasks, NEW i \in Intents, StartReconcile(t, i) PROVE FinishedMoneyInv'
    <3>1. \A u \in Tasks : task'[u] = task[u] \/ task'[u].pc \notin Concludes
      BY <2>0, <2>6 DEF StartReconcile, Start, Idle, Concludes, TaskRecords
    <3>2. \A x \in Events : event'[x] = "processed" => event[x] = "processed"
      BY <2>0, <2>6 DEF StartReconcile
    <3> QED
      BY <3>1, <3>2, QuietStep
  <2>7. ASSUME NEW t \in Tasks, NEW i \in Intents, StartExpiry(t, i) PROVE FinishedMoneyInv'
    <3>1. \A u \in Tasks : task'[u] = task[u] \/ task'[u].pc \notin Concludes
      BY <2>0, <2>7 DEF StartExpiry, Start, Idle, Concludes, TaskRecords
    <3>2. \A x \in Events : event'[x] = "processed" => event[x] = "processed"
      BY <2>0, <2>7 DEF StartExpiry
    <3> QED
      BY <3>1, <3>2, QuietStep
  <2>8. ASSUME NEW t \in Tasks, ExpireIntent(t) PROVE FinishedMoneyInv'
    <3>1. \A u \in Tasks : task'[u] = task[u] \/ task'[u].pc \notin Concludes
      BY <2>0, <2>8 DEF ExpireIntent, Return, Idle, Concludes, TaskRecords
    <3>2. \A x \in Events : event'[x] = "processed" => event[x] = "processed"
      BY <2>0, <2>8 DEF ExpireIntent
    <3> QED
      BY <3>1, <3>2, QuietStep
  <2>9. ASSUME NEW t \in Tasks, StartCapture(t) PROVE FinishedMoneyInv'
    <3>1. \A u \in Tasks : task'[u] = task[u] \/ task'[u].pc \notin Concludes
      BY <2>0, <2>9 DEF StartCapture, Start, Idle, Concludes, TaskRecords
    <3>2. \A x \in Events : event'[x] = "processed" => event[x] = "processed"
      BY <2>0, <2>9 DEF StartCapture
    <3> QED
      BY <3>1, <3>2, QuietStep
  <2>10. ASSUME NEW t \in Tasks, ReadCapture(t) PROVE FinishedMoneyInv'
    <3>1. CASE Return(t)
      BY <2>0, <2>10, <3>1, QuietStep DEF ReadCapture, Return, Idle, Concludes, TaskRecords
    <3>2. ASSUME NEW i \in Intents,
                 task' = [task EXCEPT ![t].pc = "capture", ![t].intent = i, ![t].ref = payRef[i]]
          PROVE  FinishedMoneyInv'
      <4>1. task' = [task EXCEPT ![t] =
                       [task[t] EXCEPT !.pc = "capture", !.intent = i, !.ref = payRef[i]]]
        BY <2>0, <3>2 DEF TaskRecords
      <4>2. [task[t] EXCEPT !.pc = "capture", !.intent = i, !.ref = payRef[i]].pc = "capture"
        BY <2>0 DEF TaskRecords
      <4>3. \A u \in Tasks : task'[u] = task[u] \/ task'[u].pc \notin Concludes
        BY <2>0, <4>1, <4>2 DEF Concludes
      <4> QED
        BY <2>10, <4>3, QuietStep DEF ReadCapture
    <3> QED
      BY <2>10, <3>1, <3>2 DEF ReadCapture
  <2>11. ASSUME NEW t \in Tasks, WriteCapture(t) PROVE FinishedMoneyInv'
    <3>1. \A u \in Tasks : task'[u] = task[u] \/ task'[u].pc \notin Concludes
      BY <2>0, <2>11 DEF WriteCapture, Return, Goto, Idle, Concludes, TaskRecords
    <3>2. \A x \in Events : event'[x] = "processed" => event[x] = "processed"
      BY <2>0, <2>11 DEF WriteCapture
    <3> QED
      BY <3>1, <3>2, QuietStep
  <2>12. ASSUME NEW t \in Tasks, OpenCaptureItem(t) PROVE FinishedMoneyInv'
    <3>1. \A u \in Tasks : task'[u] = task[u] \/ task'[u].pc \notin Concludes
      BY <2>0, <2>12 DEF OpenCaptureItem, Return, Idle, Concludes, TaskRecords
    <3>2. \A x \in Events : event'[x] = "processed" => event[x] = "processed"
      BY <2>0, <2>12 DEF OpenCaptureItem
    <3> QED
      BY <3>1, <3>2, QuietStep
  <2>13. ASSUME NEW t \in Tasks, Crash(t) PROVE FinishedMoneyInv'
    <3>1. \A u \in Tasks : task'[u] = task[u] \/ task'[u].pc \notin Concludes
      BY <2>0, <2>13 DEF Crash, Return, Idle, Concludes, TaskRecords
    <3>2. \A x \in Events : event'[x] = "processed" => event[x] = "processed"
      BY <2>0, <2>13 DEF Crash
    <3> QED
      BY <3>1, <3>2, QuietStep
  <2>14. ASSUME NEW t \in Tasks, OpenAtProvider(t) PROVE FinishedMoneyInv'
    <3>1. \A u \in Tasks : task'[u] = task[u] \/ task'[u].pc \notin Concludes
      BY <2>0, <2>14 DEF OpenAtProvider, Return, Idle, Concludes, TaskRecords
    <3>2. \A x \in Events : event'[x] = "processed" => event[x] = "processed"
      BY <2>0, <2>14 DEF OpenAtProvider
    <3> QED
      BY <3>1, <3>2, QuietStep
  <2>15. ASSUME NEW t \in Tasks, NEW e \in WebhookEvents, ClaimWebhook(t, e) PROVE FinishedMoneyInv'
    <3>1. \A u \in Tasks : task'[u] = task[u] \/ task'[u].pc \notin Concludes
      BY <2>0, <2>15 DEF ClaimWebhook, Start, Idle, Concludes, TaskRecords
    <3>2. \A x \in Events : event'[x] = "processed" => event[x] = "processed"
      BY <2>0, <2>15 DEF ClaimWebhook
    <3> QED
      BY <3>1, <3>2, QuietStep
  <2>16. ASSUME NEW t \in Tasks, AskReconcile(t) PROVE FinishedMoneyInv'
    <3>1. \A u \in Tasks : task'[u] = task[u] \/ task'[u].pc \notin Concludes
      BY <2>0, <2>16 DEF AskReconcile, Return, Idle, Concludes, TaskRecords
    <3>2. \A x \in Events : event'[x] = "processed" => event[x] = "processed"
      BY <2>0, <2>16 DEF AskReconcile
    <3> QED
      BY <3>1, <3>2, QuietStep
  <2>17. ASSUME NEW t \in Tasks, AskCapture(t) PROVE FinishedMoneyInv'
    <3>1. \A u \in Tasks : task'[u] = task[u] \/ task'[u].pc \notin Concludes
      BY <2>0, <2>17 DEF AskCapture, Return, Idle, Concludes, TaskRecords
    <3>2. \A x \in Events : event'[x] = "processed" => event[x] = "processed"
      BY <2>0, <2>17 DEF AskCapture
    <3> QED
      BY <3>1, <3>2, QuietStep
  <2>18. ASSUME NEW t \in Tasks, Decide(t) PROVE FinishedMoneyInv'
    <3>1. task' = [task EXCEPT ![t].pc = Decision(task[t].event, order)] /\ order' = order /\ event' = event
      BY <2>18 DEF Decide, Goto
    <3>2. Settles(task[t].event) =>
            \/ Decision(task[t].event, order) = "apply"
            \/ Decision(task[t].event, order) = "paymentOnly" /\ order \notin AwaitingPayment
      BY DEF Settles, Decision, Confirms, MoneyKinds
    <3>3. task'[t].event = task[t].event /\ task'[t].pc = Decision(task[t].event, order)
      BY <2>0, <3>1 DEF TaskRecords
    <3>4. \A u \in Tasks : u # t => task'[u] = task[u]
      BY <2>0, <3>1
    <3> QED
      BY <3>1, <3>2, <3>3, <3>4
         DEF FinishedMoneyInv, FinishedMoneyMovesOrder, HandlersConclude, Concludes, Settles, Confirms
  <2>19. ASSUME NEW t \in Tasks, OpenReconciliation(t) PROVE FinishedMoneyInv'
    <3>1. CASE task' = [task EXCEPT ![t] = Idle]
      <4>1. \A u \in Tasks : task'[u] = task[u] \/ task'[u].pc \notin Concludes
        BY <2>0, <3>1 DEF Idle, Concludes, TaskRecords
      <4> QED
        BY <2>19, <4>1, QuietStep DEF OpenReconciliation
    <3>2. CASE task' # [task EXCEPT ![t] = Idle]
      <4>1. task' = [task EXCEPT ![t].pc = "finish"] /\ event' = event /\ task[t].pc = "reconcile"
        BY <2>19, <3>2 DEF OpenReconciliation, Goto, Return, At
      <4>2. task'[t].event = task[t].event /\ task'[t].pc = "finish"
        BY <2>0, <4>1 DEF TaskRecords
      <4>3. \A u \in Tasks : u # t => task'[u] = task[u]
        BY <2>0, <4>1
      <4>4. Settles(task[t].event) => order' \notin AwaitingPayment
        BY <4>1 DEF FinishedMoneyInv, HandlersConclude, Concludes
      <4>5. order \notin AwaitingPayment => order' \notin AwaitingPayment
        BY WaitIsOver
      <4> QED
        BY <4>1, <4>2, <4>3, <4>4, <4>5
           DEF FinishedMoneyInv, FinishedMoneyMovesOrder, HandlersConclude, Concludes, Settles, Confirms
    <3> QED
      BY <3>1, <3>2
  <2>20. ASSUME NEW t \in Tasks, UpdatePaymentOnly(t) PROVE FinishedMoneyInv'
    <3>1. CASE task' = [task EXCEPT ![t] = Idle]
      <4>1. \A u \in Tasks : task'[u] = task[u] \/ task'[u].pc \notin Concludes
        BY <2>0, <3>1 DEF Idle, Concludes, TaskRecords
      <4> QED
        BY <2>20, <4>1, QuietStep DEF UpdatePaymentOnly
    <3>2. CASE task' # [task EXCEPT ![t] = Idle]
      <4>1. task' = [task EXCEPT ![t].pc = "finish"] /\ event' = event /\ task[t].pc = "paymentOnly"
        BY <2>20, <3>2 DEF UpdatePaymentOnly, Goto, Return, At
      <4>2. task'[t].event = task[t].event /\ task'[t].pc = "finish"
        BY <2>0, <4>1 DEF TaskRecords
      <4>3. \A u \in Tasks : u # t => task'[u] = task[u]
        BY <2>0, <4>1
      <4>4. Settles(task[t].event) => order' \notin AwaitingPayment
        BY <2>20, <4>1 DEF FinishedMoneyInv, HandlersConclude, Concludes, UpdatePaymentOnly
      <4>5. order \notin AwaitingPayment => order' \notin AwaitingPayment
        BY WaitIsOver
      <4> QED
        BY <4>1, <4>2, <4>3, <4>4, <4>5
           DEF FinishedMoneyInv, FinishedMoneyMovesOrder, HandlersConclude, Concludes, Settles, Confirms
    <3> QED
      BY <3>1, <3>2
  <2>21. ASSUME NEW t \in Tasks, Apply(t) PROVE FinishedMoneyInv'
    <3>1. CASE task' = [task EXCEPT ![t] = Idle]
      <4>1. \A u \in Tasks : task'[u] = task[u] \/ task'[u].pc \notin Concludes
        BY <2>0, <3>1 DEF Idle, Concludes, TaskRecords
      <4> QED
        BY <2>21, <4>1, QuietStep DEF Apply
    <3>2. CASE task' # [task EXCEPT ![t] = Idle]
      <4>1. task' = [task EXCEPT ![t].pc = "finish"] /\ event' = event /\ task[t].pc = "apply"
        BY <2>21, <3>2 DEF Apply, Goto, Return, At
      <4>2. task'[t].event = task[t].event /\ task'[t].pc = "finish"
        BY <2>0, <4>1 DEF TaskRecords
      <4>3. \A u \in Tasks : u # t => task'[u] = task[u]
        BY <2>0, <4>1
      <4>4. Settles(task[t].event) => order' \notin AwaitingPayment
        BY <2>21, <3>2 DEF Apply, Settles, OrderTarget, Return, AwaitingPayment
      <4>5. order \notin AwaitingPayment => order' \notin AwaitingPayment
        BY WaitIsOver
      <4> QED
        BY <4>1, <4>2, <4>3, <4>4, <4>5
           DEF FinishedMoneyInv, FinishedMoneyMovesOrder, HandlersConclude, Concludes, Settles, Confirms
    <3> QED
      BY <3>1, <3>2
  <2>22. ASSUME NEW t \in Tasks, FinishClaim(t) PROVE FinishedMoneyInv'
    <3>1. /\ event' = [event EXCEPT ![task[t].event] = "processed"] /\ order' = order
          /\ task' = [task EXCEPT ![t] = Idle] /\ task[t].pc = "finish"
      BY <2>22 DEF FinishClaim, Return, At
    <3>2. \A e \in Events : event'[e] = event[e] \/ e = task[t].event
      BY <2>0, <3>1
    <3>3. Settles(task[t].event) => order \notin AwaitingPayment
      BY <3>1 DEF FinishedMoneyInv, HandlersConclude, Concludes
    <3>4. FinishedMoneyMovesOrder'
      BY <3>1, <3>2, <3>3 DEF FinishedMoneyInv, FinishedMoneyMovesOrder, Settles, Confirms
    <3>5. HandlersConclude'
      BY <2>0, <3>1 DEF FinishedMoneyInv, HandlersConclude, Concludes, Idle, Settles, Confirms
    <3> QED
      BY <3>4, <3>5 DEF FinishedMoneyInv
  <2>23. ASSUME NEW i \in Intents, CustomerPays(i) PROVE FinishedMoneyInv'
    BY <2>0, <2>23, QuietStep DEF CustomerPays, Send
  <2>24. ASSUME NEW i \in Intents, ProviderCaptures(i) PROVE FinishedMoneyInv'
    BY <2>0, <2>24, QuietStep DEF ProviderCaptures, Send
  <2>25. ASSUME NEW e \in WebhookEvents, ProviderNotifies(e) PROVE FinishedMoneyInv'
    BY <2>0, <2>25, QuietStep DEF ProviderNotifies, Send
  <2>26. ASSUME NEW i \in Intents, ProviderExpires(i) PROVE FinishedMoneyInv'
    BY <2>0, <2>26, QuietStep DEF ProviderExpires
  <2>27. ASSUME NEW i \in Intents, BlockLapses(i) PROVE FinishedMoneyInv'
    BY <2>0, <2>27, QuietStep DEF BlockLapses
  <2>28. ASSUME NEW i \in Intents, Lapse(i) PROVE FinishedMoneyInv'
    BY <2>0, <2>28, QuietStep DEF Lapse
  <2>29. ASSUME NEW to \in Statuses, KitchenMoves(to) PROVE FinishedMoneyInv'
    BY <2>0, <2>29, QuietStep DEF KitchenMoves
  <2>30. CASE CancelOrder
    BY <2>30, QuietStep DEF CancelOrder
  <2>31. CASE UNCHANGED vars
    BY <2>31, QuietStep DEF vars
  <2> QED
    BY <2>1, <2>2, <2>3, <2>4, <2>5, <2>6, <2>7, <2>8, <2>9, <2>10, <2>11,
       <2>12, <2>13, <2>14, <2>15, <2>16, <2>17, <2>18, <2>19, <2>20, <2>21,
       <2>22, <2>23, <2>24, <2>25, <2>26, <2>27, <2>28, <2>29, <2>30, <2>31
       DEF Next, ApiStep, WorkerStep, ApplyEventStep, Environment, Tasks
<1>3. FinishedMoneyInv => FinishedMoneyMovesOrder
  BY DEF FinishedMoneyInv
<1> QED
  BY <1>1, <1>2, <1>3, TypeCorrect, PTL DEF Spec

-----------------------------------------------------------------------------
(* No kitchen without money.                                               *)

(* What makes ConfirmedOnlyOnMoney inductive: the engine only hears of     *)
(* settling events that are true, a handler only acts on an event it has   *)
(* heard of, and only applies a confirmation whose amount it has compared. *)
HeardIsTrue == \A e \in Events : event[e] # "unsent" /\ Settles(e) => MoneyHeld
HandlersHeard ==
  \A t \in Tasks :
    /\ task[t].pc \in AboutEvent => event[task[t].event] # "unsent"
    /\ task[t].pc = "apply" /\ Confirms(task[t].event.kind) => task[t].event.amountOk
MoneyInv == ConfirmedOnlyOnMoney /\ HeardIsTrue /\ HandlersHeard

(* Money that was held stays held, or was: the provider's side of the      *)
(* ledger only moves forward.                                              *)
LEMMA MoneyStays ==
  ASSUME TypeOK, [Next]_vars, MoneyHeld
  PROVE  MoneyHeld'
<1>0. prov \in [Intents -> ProviderStates]
  BY DEF TypeOK
<1> USE DEF MoneyHeld, Taken
<1>1. ASSUME NEW t \in Tasks, OpenAtProvider(t) PROVE MoneyHeld'
  BY <1>0, <1>1 DEF OpenAtProvider
<1>2. ASSUME NEW t \in Tasks, AskCapture(t) PROVE MoneyHeld'
  BY <1>0, <1>2 DEF AskCapture
<1>3. ASSUME NEW i \in Intents, CustomerPays(i) PROVE MoneyHeld'
  BY <1>0, <1>3 DEF CustomerPays
<1>4. ASSUME NEW i \in Intents, ProviderCaptures(i) PROVE MoneyHeld'
  BY <1>0, <1>4 DEF ProviderCaptures
<1>5. ASSUME NEW i \in Intents, ProviderExpires(i) PROVE MoneyHeld'
  BY <1>0, <1>5 DEF ProviderExpires
<1>6. ASSUME NEW i \in Intents, BlockLapses(i) PROVE MoneyHeld'
  BY <1>0, <1>6 DEF BlockLapses
<1>7. CASE prov' = prov
  BY <1>7
<1> QED
  BY <1>1, <1>2, <1>3, <1>4, <1>5, <1>6, <1>7
     DEF Next, ApiStep, WorkerStep, ApplyEventStep, Environment, vars, Tasks,
         StartIntent, InsertIntent, ClaimWebhook, StartRefresh, AskRefresh,
         WriteRefresh, StartReconcile, StartExpiry, AskReconcile, ExpireIntent,
         StartCapture, ReadCapture, WriteCapture, OpenCaptureItem, Decide,
         OpenReconciliation, UpdatePaymentOnly, Apply, FinishClaim, Crash,
         ProviderNotifies, Lapse, CancelOrder, KitchenMoves

(* A step that confirms nothing, tells the engine nothing it may confirm   *)
(* on, and gives no handler an event cannot disturb the invariant.         *)
LEMMA HarmlessStep ==
  ASSUME TypeOK, MoneyInv, [Next]_vars,
         order' \in InKitchen => order \in InKitchen,
         \A e \in Events : event[e] # "unsent" => event'[e] # "unsent",
         \A e \in Events : event[e] = "unsent" /\ event'[e] # "unsent" /\ Settles(e) => MoneyHeld',
         \A t \in Tasks : task'[t] = task[t] \/ task'[t].pc \notin AboutEvent
  PROVE  MoneyInv'
<1>1. ConfirmedOnlyOnMoney' /\ HeardIsTrue'
  BY MoneyStays DEF MoneyInv, ConfirmedOnlyOnMoney, HeardIsTrue, Settles, Confirms
<1>2. ASSUME NEW t \in Tasks PROVE /\ task'[t].pc \in AboutEvent => event'[task'[t].event] # "unsent"
                                   /\ task'[t].pc = "apply" /\ Confirms(task'[t].event.kind) => task'[t].event.amountOk
  <2>1. CASE task'[t] = task[t]
    <3>1. task[t].pc \in AboutEvent => task[t].event \in Events
      BY DEF TypeOK, TaskRecords, WellFormed
    <3> QED
      BY <2>1, <3>1 DEF MoneyInv, HandlersHeard
  <2>2. CASE task'[t].pc \notin AboutEvent
    BY <2>2 DEF AboutEvent
  <2> QED
    BY <2>1, <2>2
<1> QED
  BY <1>1, <1>2 DEF MoneyInv, HandlersHeard, Confirms

(* What the engine was told of money is true, and it acts on that alone.   *)
LEMMA MoneyIsTrue == Spec => []MoneyInv
<1>1. Init => MoneyInv
  BY DEF Init, MoneyInv, ConfirmedOnlyOnMoney, HeardIsTrue, HandlersHeard, Idle,
         InKitchen, Committed, AboutEvent
<1>2. TypeOK /\ MoneyInv /\ [Next]_vars => MoneyInv'
  <2> SUFFICES ASSUME TypeOK, MoneyInv, [Next]_vars PROVE MoneyInv'
    OBVIOUS
  <2>0. /\ task \in [Tasks -> TaskRecords] /\ event \in [Events -> ClaimStates]
        /\ prov \in [Intents -> ProviderStates]
    BY DEF TypeOK
  <2>1. ASSUME NEW t \in Tasks, StartIntent(t) PROVE MoneyInv'
    <3>1. \A u \in Tasks : task'[u] = task[u] \/ task'[u].pc \notin AboutEvent
      BY <2>0, <2>1 DEF StartIntent, Start, Idle, AboutEvent, TaskRecords
    <3> QED
      BY <2>1, <3>1, HarmlessStep DEF StartIntent
  <2>2. ASSUME NEW t \in Tasks, InsertIntent(t) PROVE MoneyInv'
    <3>1. \A u \in Tasks : task'[u] = task[u] \/ task'[u].pc \notin AboutEvent
      BY <2>0, <2>2 DEF InsertIntent, Return, InKitchen, Committed, Idle, AboutEvent, TaskRecords
    <3> QED
      BY <2>2, <3>1, HarmlessStep DEF InsertIntent, InKitchen, Committed
  <2>3. ASSUME NEW t \in Tasks, StartRefresh(t) PROVE MoneyInv'
    <3>1. \A u \in Tasks : task'[u] = task[u] \/ task'[u].pc \notin AboutEvent
      BY <2>0, <2>3 DEF StartRefresh, Start, Idle, AboutEvent, TaskRecords
    <3> QED
      BY <2>3, <3>1, HarmlessStep DEF StartRefresh
  <2>4. ASSUME NEW t \in Tasks, AskRefresh(t) PROVE MoneyInv'
    <3>1. \A u \in Tasks : task'[u] = task[u] \/ task'[u].pc \notin AboutEvent
      BY <2>0, <2>4 DEF AskRefresh, Return, Idle, AboutEvent, TaskRecords
    <3> QED
      BY <2>4, <3>1, HarmlessStep DEF AskRefresh
  <2>5. ASSUME NEW t \in Tasks, WriteRefresh(t) PROVE MoneyInv'
    <3>1. \A u \in Tasks : task'[u] = task[u] \/ task'[u].pc \notin AboutEvent
      BY <2>0, <2>5 DEF WriteRefresh, Return, Idle, AboutEvent, TaskRecords
    <3> QED
      BY <2>5, <3>1, HarmlessStep DEF WriteRefresh
  <2>6. ASSUME NEW t \in Tasks, NEW i \in Intents, StartReconcile(t, i) PROVE MoneyInv'
    <3>1. \A u \in Tasks : task'[u] = task[u] \/ task'[u].pc \notin AboutEvent
      BY <2>0, <2>6 DEF StartReconcile, Start, Idle, AboutEvent, TaskRecords
    <3> QED
      BY <2>6, <3>1, HarmlessStep DEF StartReconcile
  <2>7. ASSUME NEW t \in Tasks, NEW i \in Intents, StartExpiry(t, i) PROVE MoneyInv'
    <3>1. \A u \in Tasks : task'[u] = task[u] \/ task'[u].pc \notin AboutEvent
      BY <2>0, <2>7 DEF StartExpiry, Start, Idle, AboutEvent, TaskRecords
    <3> QED
      BY <2>7, <3>1, HarmlessStep DEF StartExpiry
  <2>8. ASSUME NEW t \in Tasks, ExpireIntent(t) PROVE MoneyInv'
    <3>1. \A u \in Tasks : task'[u] = task[u] \/ task'[u].pc \notin AboutEvent
      BY <2>0, <2>8 DEF ExpireIntent, Return, InKitchen, Committed, Idle, AboutEvent, TaskRecords
    <3> QED
      BY <2>8, <3>1, HarmlessStep DEF ExpireIntent, InKitchen, Committed
  <2>9. ASSUME NEW t \in Tasks, StartCapture(t) PROVE MoneyInv'
    <3>1. \A u \in Tasks : task'[u] = task[u] \/ task'[u].pc \notin AboutEvent
      BY <2>0, <2>9 DEF StartCapture, Start, Idle, AboutEvent, TaskRecords
    <3> QED
      BY <2>9, <3>1, HarmlessStep DEF StartCapture
  <2>10. ASSUME NEW t \in Tasks, WriteCapture(t) PROVE MoneyInv'
    <3>1. \A u \in Tasks : task'[u] = task[u] \/ task'[u].pc \notin AboutEvent
      BY <2>0, <2>10 DEF WriteCapture, Return, Goto, Idle, AboutEvent, TaskRecords
    <3> QED
      BY <2>10, <3>1, HarmlessStep DEF WriteCapture
  <2>11. ASSUME NEW t \in Tasks, OpenCaptureItem(t) PROVE MoneyInv'
    <3>1. \A u \in Tasks : task'[u] = task[u] \/ task'[u].pc \notin AboutEvent
      BY <2>0, <2>11 DEF OpenCaptureItem, Return, Idle, AboutEvent, TaskRecords
    <3> QED
      BY <2>11, <3>1, HarmlessStep DEF OpenCaptureItem
  <2>12. ASSUME NEW t \in Tasks, Crash(t) PROVE MoneyInv'
    <3>1. \A u \in Tasks : task'[u] = task[u] \/ task'[u].pc \notin AboutEvent
      BY <2>0, <2>12 DEF Crash, Return, Idle, AboutEvent, TaskRecords
    <3> QED
      BY <2>12, <3>1, HarmlessStep DEF Crash
  <2>13. ASSUME NEW t \in Tasks, OpenAtProvider(t) PROVE MoneyInv'
    <3>1. \A u \in Tasks : task'[u] = task[u] \/ task'[u].pc \notin AboutEvent
      BY <2>0, <2>13 DEF OpenAtProvider, Return, Idle, AboutEvent, TaskRecords
    <3> QED
      BY <2>13, <3>1, HarmlessStep DEF OpenAtProvider
  <2>14. ASSUME NEW t \in Tasks, ReadCapture(t) PROVE MoneyInv'
    <3>1. CASE Return(t)
      <4>1. \A u \in Tasks : task'[u] = task[u] \/ task'[u].pc \notin AboutEvent
        BY <2>0, <3>1 DEF Return, Idle, AboutEvent, TaskRecords
      <4> QED
        BY <2>14, <4>1, HarmlessStep DEF ReadCapture
    <3>2. ASSUME NEW i \in Intents,
                 task' = [task EXCEPT ![t].pc = "capture", ![t].intent = i, ![t].ref = payRef[i]]
          PROVE  MoneyInv'
      <4>1. task' = [task EXCEPT ![t] =
                       [task[t] EXCEPT !.pc = "capture", !.intent = i, !.ref = payRef[i]]]
        BY <2>0, <3>2 DEF TaskRecords
      <4>2. [task[t] EXCEPT !.pc = "capture", !.intent = i, !.ref = payRef[i]].pc = "capture"
        BY <2>0 DEF TaskRecords
      <4>3. \A u \in Tasks : task'[u] = task[u] \/ task'[u].pc \notin AboutEvent
        BY <2>0, <4>1, <4>2 DEF AboutEvent
      <4> QED
        BY <2>14, <4>3, HarmlessStep DEF ReadCapture
    <3> QED
      BY <2>14, <3>1, <3>2 DEF ReadCapture
  <2>15. ASSUME NEW t \in Tasks, NEW e \in WebhookEvents, ClaimWebhook(t, e) PROVE MoneyInv'
    <3>1. /\ event[e] # "unsent" /\ order' = order /\ prov' = prov
          /\ event' = [event EXCEPT ![e] = "claimed"]
          /\ task' = [task EXCEPT ![t] = [Idle EXCEPT !.pc = "decide", !.event = e, !.ref = e.intent]]
      BY <2>15 DEF ClaimWebhook, Start
    <3>2. task'[t].event = e /\ task'[t].pc = "decide" /\ e \in Events
      BY <2>0, <3>1 DEF Idle, Events
    <3>3. \A u \in Tasks : u # t => task'[u] = task[u]
      BY <2>0, <3>1
    <3>4. \A x \in Events : event'[x] # "unsent" <=> event[x] # "unsent"
      BY <2>0, <3>1
    <3>5. ConfirmedOnlyOnMoney' /\ HeardIsTrue'
      BY <3>1, <3>4 DEF MoneyInv, ConfirmedOnlyOnMoney, MoneyHeld, HeardIsTrue, Settles, Confirms
    <3>6. \A u \in Tasks : task[u].pc \in AboutEvent => task[u].event \in Events
      BY <2>0 DEF TaskRecords, WellFormed
    <3>7. HandlersHeard'
      BY <3>1, <3>2, <3>3, <3>4, <3>6 DEF MoneyInv, HandlersHeard, Confirms, AboutEvent
    <3> QED
      BY <3>5, <3>7 DEF MoneyInv
  <2>16. ASSUME NEW t \in Tasks, AskReconcile(t) PROVE MoneyInv'
    <3>1. CASE event' = event /\ Return(t)
      <4>1. \A u \in Tasks : task'[u] = task[u] \/ task'[u].pc \notin AboutEvent
        BY <2>0, <3>1 DEF Return, Idle, AboutEvent, TaskRecords
      <4> QED
        BY <2>16, <3>1, <4>1, HarmlessStep DEF AskReconcile
    <3>2. ASSUME NEW s \in Answers(task[t].intent, task[t].ref) \cap Taken,
                 NEW e, e = Reconcile(IF s = "CAPTURED" THEN "PAYMENT_CAPTURED" ELSE "PAYMENT_AUTHORIZED"),
                 event' = [event EXCEPT ![e] = "claimed"],
                 task' = [task EXCEPT ![t].pc = "decide", ![t].event = e]
          PROVE  MoneyInv'
      <4>1. e \in Events /\ e.kind = (IF s = "CAPTURED" THEN "PAYMENT_CAPTURED" ELSE "PAYMENT_AUTHORIZED")
        BY <3>2, EventTypes DEF Reconcile, MoneyKinds
      <4>2. \E i \in Intents : prov[i] = s
        <5>1. task[t].intent \in Intents /\ task[t].ref \in Intents \cup {NoIntent}
          BY <2>0, <2>16 DEF AskReconcile, At, TaskRecords, WellFormed, AboutIntent
        <5> QED
          BY <3>2, <5>1, <2>0 DEF Answers, Reported, Taken, ProviderStates
      <4>3. Settles(e) => MoneyHeld
        BY <4>1, <4>2, <3>2 DEF Settles, Confirms, MoneyHeld, Taken
      <4>4. task' = [task EXCEPT ![t] = [task[t] EXCEPT !.pc = "decide", !.event = e]]
        BY <2>0, <3>2 DEF TaskRecords
      <4>5. task'[t].event = e /\ task'[t].pc = "decide"
        BY <2>0, <4>4 DEF TaskRecords
      <4>6. \A u \in Tasks : u # t => task'[u] = task[u]
        BY <2>0, <4>4
      <4>7. \A x \in Events : event'[x] # "unsent" <=> event[x] # "unsent" \/ x = e
        BY <2>0, <3>2
      <4>8. order' = order /\ prov' = prov
        BY <2>16 DEF AskReconcile
      <4>9. ConfirmedOnlyOnMoney' /\ HeardIsTrue'
        BY <4>3, <4>7, <4>8 DEF MoneyInv, ConfirmedOnlyOnMoney, MoneyHeld, HeardIsTrue, Settles, Confirms
      <4>10. \A u \in Tasks : task[u].pc \in AboutEvent => task[u].event \in Events
        BY <2>0 DEF TaskRecords, WellFormed
      <4>11. HandlersHeard'
        BY <4>1, <4>5, <4>6, <4>7, <4>10 DEF MoneyInv, HandlersHeard, Confirms, AboutEvent
      <4> QED
        BY <4>9, <4>11 DEF MoneyInv
    <3> QED
      BY <2>16, <3>1, <3>2 DEF AskReconcile, Taken
  <2>17. ASSUME NEW t \in Tasks, AskCapture(t) PROVE MoneyInv'
    <3>1. \A u \in Tasks : task'[u] = task[u] \/ task'[u].pc \notin AboutEvent
      BY <2>0, <2>17 DEF AskCapture, Return, Idle, AboutEvent, TaskRecords
    <3>2. task[t].ref \in Intents
      BY <2>0, <2>17 DEF AskCapture, At, TaskRecords, WellFormed, AboutIntent
    <3>3. \A e \in Events :
            event[e] # event'[e] =>
              event'[e] = "sent" /\ event[e] = "unsent" /\ prov'[task[t].ref] = "CAPTURED"
      BY <2>0, <2>17, <3>2 DEF AskCapture
    <3>4. prov'[task[t].ref] = "CAPTURED" => MoneyHeld'
      BY <3>2 DEF MoneyHeld, Taken
    <3> QED
      BY <2>17, <3>1, <3>3, <3>4, HarmlessStep DEF AskCapture
  <2>18. ASSUME NEW t \in Tasks, Decide(t) PROVE MoneyInv'
    <3>1. /\ task' = [task EXCEPT ![t].pc = Decision(task[t].event, order)] /\ order' = order
          /\ event' = event /\ prov' = prov /\ task[t].pc = "decide"
      BY <2>18 DEF Decide, Goto, At
    <3>2. task'[t].event = task[t].event /\ task'[t].pc = Decision(task[t].event, order)
      BY <2>0, <3>1 DEF TaskRecords
    <3>3. \A u \in Tasks : u # t => task'[u] = task[u]
      BY <2>0, <3>1
    <3>4. Decision(task[t].event, order) = "apply" /\ Confirms(task[t].event.kind)
            => task[t].event.amountOk
      BY DEF Decision, Confirms, MoneyKinds
    <3>5. ConfirmedOnlyOnMoney' /\ HeardIsTrue'
      BY <3>1 DEF MoneyInv, ConfirmedOnlyOnMoney, MoneyHeld, HeardIsTrue, Settles, Confirms
    <3>6. HandlersHeard'
      BY <3>1, <3>2, <3>3, <3>4 DEF MoneyInv, HandlersHeard, Confirms, AboutEvent
    <3> QED
      BY <3>5, <3>6 DEF MoneyInv
  <2>19. ASSUME NEW t \in Tasks, OpenReconciliation(t) PROVE MoneyInv'
    <3>1. CASE Return(t)
      <4>1. \A u \in Tasks : task'[u] = task[u] \/ task'[u].pc \notin AboutEvent
        BY <2>0, <3>1 DEF Return, Idle, AboutEvent, TaskRecords
      <4>2. event' = event /\ (order' \in InKitchen => order \in InKitchen)
        BY <2>19, <3>1 DEF OpenReconciliation, Goto, Return, At
      <4> QED
        BY <4>1, <4>2, HarmlessStep
    <3>2. CASE task' = [task EXCEPT ![t].pc = "finish"]
      <4>1. event' = event /\ prov' = prov /\ task[t].pc \in AboutEvent
        BY <2>19 DEF OpenReconciliation, At, AboutEvent
      <4>2. task'[t].event = task[t].event /\ task'[t].pc = "finish"
        BY <2>0, <3>2 DEF TaskRecords
      <4>3. \A u \in Tasks : u # t => task'[u] = task[u]
        BY <2>0, <3>2
      <4>4. order' \in InKitchen => MoneyHeld
        BY <2>19 DEF OpenReconciliation, MoneyInv, ConfirmedOnlyOnMoney
      <4>5. ConfirmedOnlyOnMoney' /\ HeardIsTrue'
        BY <4>1, <4>4 DEF MoneyInv, ConfirmedOnlyOnMoney, MoneyHeld, HeardIsTrue, Settles, Confirms
      <4>6. HandlersHeard'
        BY <4>1, <4>2, <4>3 DEF MoneyInv, HandlersHeard, Confirms, AboutEvent
      <4> QED
        BY <4>5, <4>6 DEF MoneyInv
    <3> QED
      BY <2>19, <3>1, <3>2 DEF OpenReconciliation, Goto, Return
  <2>20. ASSUME NEW t \in Tasks, UpdatePaymentOnly(t) PROVE MoneyInv'
    <3>1. CASE Return(t)
      <4>1. \A u \in Tasks : task'[u] = task[u] \/ task'[u].pc \notin AboutEvent
        BY <2>0, <3>1 DEF Return, Idle, AboutEvent, TaskRecords
      <4>2. event' = event /\ (order' \in InKitchen => order \in InKitchen)
        BY <2>20, <3>1 DEF UpdatePaymentOnly, Goto, Return, At
      <4> QED
        BY <4>1, <4>2, HarmlessStep
    <3>2. CASE task' = [task EXCEPT ![t].pc = "finish"]
      <4>1. event' = event /\ prov' = prov /\ task[t].pc \in AboutEvent
        BY <2>20 DEF UpdatePaymentOnly, At, AboutEvent
      <4>2. task'[t].event = task[t].event /\ task'[t].pc = "finish"
        BY <2>0, <3>2 DEF TaskRecords
      <4>3. \A u \in Tasks : u # t => task'[u] = task[u]
        BY <2>0, <3>2
      <4>4. order' \in InKitchen => MoneyHeld
        BY <2>20 DEF UpdatePaymentOnly, MoneyInv, ConfirmedOnlyOnMoney
      <4>5. ConfirmedOnlyOnMoney' /\ HeardIsTrue'
        BY <4>1, <4>4 DEF MoneyInv, ConfirmedOnlyOnMoney, MoneyHeld, HeardIsTrue, Settles, Confirms
      <4>6. HandlersHeard'
        BY <4>1, <4>2, <4>3 DEF MoneyInv, HandlersHeard, Confirms, AboutEvent
      <4> QED
        BY <4>5, <4>6 DEF MoneyInv
    <3> QED
      BY <2>20, <3>1, <3>2 DEF UpdatePaymentOnly, Goto, Return
  <2>21. ASSUME NEW t \in Tasks, Apply(t) PROVE MoneyInv'
    <3>1. CASE Return(t) /\ order' = order
      <4>1. \A u \in Tasks : task'[u] = task[u] \/ task'[u].pc \notin AboutEvent
        BY <2>0, <3>1 DEF Return, Idle, AboutEvent, TaskRecords
      <4>2. event' = event /\ (order' \in InKitchen => order \in InKitchen)
        BY <2>21, <3>1 DEF Apply, Goto, Return, At
      <4> QED
        BY <4>1, <4>2, HarmlessStep
    <3>2. CASE task' = [task EXCEPT ![t].pc = "finish"]
      <4>1. event' = event /\ prov' = prov /\ task[t].pc \in AboutEvent
        BY <2>21 DEF Apply, At, AboutEvent
      <4>2. task'[t].event = task[t].event /\ task'[t].pc = "finish"
        BY <2>0, <3>2 DEF TaskRecords
      <4>3. \A u \in Tasks : u # t => task'[u] = task[u]
        BY <2>0, <3>2
      <4>4. order' \in InKitchen => MoneyHeld
        <5>1. task[t].event \in Events
          BY <2>0, <4>1 DEF TaskRecords, WellFormed
        <5>2. order' = order \/ order' = OrderTarget(task[t].event.kind)
          BY <2>21 DEF Apply
        <5>3. Confirms(task[t].event.kind) => MoneyHeld
          BY <2>21, <4>1, <5>1 DEF Apply, At, MoneyInv, HandlersHeard, HeardIsTrue, Settles
        <5> QED
          BY <5>2, <5>3 DEF OrderTarget, InKitchen, Committed, MoneyInv, ConfirmedOnlyOnMoney
      <4>5. ConfirmedOnlyOnMoney' /\ HeardIsTrue'
        BY <4>1, <4>4 DEF MoneyInv, ConfirmedOnlyOnMoney, MoneyHeld, HeardIsTrue, Settles, Confirms
      <4>6. HandlersHeard'
        BY <4>1, <4>2, <4>3 DEF MoneyInv, HandlersHeard, Confirms, AboutEvent
      <4> QED
        BY <4>5, <4>6 DEF MoneyInv
    <3> QED
      BY <2>21, <3>1, <3>2 DEF Apply, Goto, Return
  <2>22. ASSUME NEW t \in Tasks, FinishClaim(t) PROVE MoneyInv'
    <3>1. \A u \in Tasks : task'[u] = task[u] \/ task'[u].pc \notin AboutEvent
      BY <2>0, <2>22 DEF FinishClaim, Return, Idle, AboutEvent, TaskRecords
    <3>2. event[task[t].event] # "unsent"
      BY <2>22 DEF FinishClaim, At, AboutEvent, MoneyInv, HandlersHeard
    <3>3. event' = [event EXCEPT ![task[t].event] = "processed"] /\ order' = order
      BY <2>22 DEF FinishClaim
    <3>4. \A e \in Events : (event[e] # "unsent") <=> (event'[e] # "unsent")
      BY <2>0, <3>2, <3>3
    <3> QED
      BY <3>1, <3>3, <3>4, HarmlessStep
  <2>23. ASSUME NEW i \in Intents, CustomerPays(i) PROVE MoneyInv'
    <3>1. PICK kind \in MoneyKinds :
            /\ event' = [event EXCEPT ![Webhook(kind, i)] = IF @ = "unsent" THEN "sent" ELSE @]
            /\ kind = IF prov'[i] = "AUTHORIZED" THEN "PAYMENT_AUTHORIZED" ELSE "PAYMENT_CAPTURED"
            /\ prov'[i] \in Taken
      BY <2>0, <2>23 DEF CustomerPays, Send, MoneyKinds, Taken
    <3>2. Webhook(kind, i).kind = kind
      BY DEF Webhook
    <3>3. Confirms(kind) => MoneyHeld'
      BY <3>1 DEF Confirms, MoneyHeld, Taken
    <3>4. \A e \in Events : event'[e] = event[e] \/ (e = Webhook(kind, i) /\ event'[e] = "sent")
      BY <2>0, <3>1
    <3> QED
      BY <2>23, <3>2, <3>3, <3>4, HarmlessStep DEF CustomerPays, Settles
  <2>24. ASSUME NEW i \in Intents, ProviderCaptures(i) PROVE MoneyInv'
    <3>1. PICK kind \in MoneyKinds :
            /\ event' = [event EXCEPT ![Webhook(kind, i)] = IF @ = "unsent" THEN "sent" ELSE @]
            /\ kind = IF prov'[i] = "AUTHORIZED" THEN "PAYMENT_AUTHORIZED" ELSE "PAYMENT_CAPTURED"
            /\ prov'[i] \in Taken
      BY <2>0, <2>24 DEF ProviderCaptures, Send, MoneyKinds, Taken
    <3>2. Webhook(kind, i).kind = kind
      BY DEF Webhook
    <3>3. Confirms(kind) => MoneyHeld'
      BY <3>1 DEF Confirms, MoneyHeld, Taken
    <3>4. \A e \in Events : event'[e] = event[e] \/ (e = Webhook(kind, i) /\ event'[e] = "sent")
      BY <2>0, <3>1
    <3> QED
      BY <2>24, <3>2, <3>3, <3>4, HarmlessStep DEF ProviderCaptures, Settles
  <2>25. ASSUME NEW e \in WebhookEvents, ProviderNotifies(e) PROVE MoneyInv'
    <3>1. ~Settles(e)
      BY <2>25, ConfigAssumption DEF ProviderNotifies, Notices, Settles, Confirms
    <3>2. \A x \in Events : event'[x] = event[x] \/ (x = e /\ event'[x] = "sent")
      BY <2>0, <2>25 DEF ProviderNotifies, Send
    <3> QED
      BY <2>25, <3>1, <3>2, HarmlessStep DEF ProviderNotifies
  <2>26. ASSUME NEW i \in Intents, ProviderExpires(i) PROVE MoneyInv'
    BY <2>0, <2>26, HarmlessStep DEF ProviderExpires
  <2>27. ASSUME NEW i \in Intents, BlockLapses(i) PROVE MoneyInv'
    BY <2>0, <2>27, HarmlessStep DEF BlockLapses
  <2>28. ASSUME NEW i \in Intents, Lapse(i) PROVE MoneyInv'
    BY <2>0, <2>28, HarmlessStep DEF Lapse
  <2>29. ASSUME NEW to \in Statuses, KitchenMoves(to) PROVE MoneyInv'
    BY <2>0, <2>29, HarmlessStep DEF KitchenMoves
  <2>30. CASE CancelOrder
    BY <2>30, HarmlessStep DEF CancelOrder, InKitchen, Committed
  <2>31. CASE UNCHANGED vars
    BY <2>31, HarmlessStep DEF vars
  <2> QED
    BY <2>1, <2>2, <2>3, <2>4, <2>5, <2>6, <2>7, <2>8, <2>9, <2>10, <2>11,
       <2>12, <2>13, <2>14, <2>15, <2>16, <2>17, <2>18, <2>19, <2>20, <2>21,
       <2>22, <2>23, <2>24, <2>25, <2>26, <2>27, <2>28, <2>29, <2>30, <2>31
       DEF Next, ApiStep, WorkerStep, ApplyEventStep, Environment, Tasks
<1> QED
  BY <1>1, <1>2, TypeCorrect, PTL DEF Spec

(* The binding rule: no order reaches a kitchen on anything but money the  *)
(* provider really holds, whatever is lost, repeated, late or raced.       *)
THEOREM KitchenOnlyOnMoney == Spec => []ConfirmedOnlyOnMoney
<1>1. MoneyInv => ConfirmedOnlyOnMoney
  BY DEF MoneyInv
<1> QED
  BY <1>1, MoneyIsTrue, PTL

-----------------------------------------------------------------------------
(* One order is charged once, no checkout that can still be paid goes      *)
(* unwatched, and the engine implements Checkout.                          *)
(*                                                                         *)
(* The argument: a checkout the diner was handed and could pay has a row   *)
(* that counts as live as long as the order waits, so no second one is     *)
(* handed out; and once the order waits no longer nothing is handed out.   *)
(* What could break it is an answer of the provider written on the wrong   *)
(* row, because a row may carry the payment reference of another intent.   *)
(* While the order waits such a reference names money that is there.       *)

Waiting == order \in AwaitingPayment
PayableStates == {"OPEN"} \cup Taken

(* The diner was handed the checkout of an intent, and can pay or has.     *)
Handed(i) == prov[i] \in Taken \/ (prov[i] = "OPEN" /\ row[i] # "NONE")
OneHanded == \A i, j \in Intents : Handed(i) /\ Handed(j) => i = j

(* A payment reference names an intent that exists and, while the order    *)
(* waits (w), money that is there.                                         *)
Known(x, w, pv) == x # NoIntent => pv[x] # "NONE" /\ (w => pv[x] \in Taken)

RowsKnown ==
  /\ \A i \in Intents : row[i] # "NONE" => prov[i] # "NONE"
  /\ \A i \in Intents : prov[i] \in Taken => row[i] # "NONE"
  /\ newest # NoIntent => row[newest] # "NONE"
  /\ \A i \in Intents : Known(payRef[i], Waiting, prov)
  /\ Waiting => \A i \in Intents : prov[i] # "LAPSED"

HeardKnown ==
  \A e \in WebhookEvents : event[e] # "unsent" =>
    /\ prov[e.intent] # "NONE"
    /\ e.kind \in MoneyKinds /\ e.amountOk => prov[e.intent] \in Taken \cup {"LAPSED"}

(* What a handler's record carries is true of the tables, or harmless.     *)
Handler(r, w, pv, rw) ==
  /\ r.pc = "insert" => pv[r.intent] # "NONE"
  /\ r.pc \in AboutIntent \ {"insert"} => rw[r.intent] # "NONE"
  /\ r.pc \in {"askReconcile", "askRefresh"} => Known(r.ref, w, pv)
  /\ r.pc \in AboutEvent =>
       /\ r.ref # NoIntent => pv[r.ref] # "NONE"
       /\ r.event.kind \in MoneyKinds /\ r.event.amountOk => Known(r.ref, w, pv)
  /\ r.pc = "paymentOnly" => r.event.kind \in MoneyKinds /\ r.event.amountOk
  /\ r.pc = "writeRefresh" =>
       /\ r.answer # "NONE"
       /\ w /\ r.answer \in Dead => pv[r.intent] \notin PayableStates
  /\ r.pc \in {"readCapture", "capture", "writeCapture", "captureItem"} => ~w
  /\ r.pc = "writeCapture" => r.answer # "NONE"
Handlers == \A t \in Tasks : Handler(task[t], Waiting, prov, row)

ChargeInv == OneHanded /\ RowsKnown /\ HeardKnown /\ WatchedWhilePayable /\ Handlers

-----------------------------------------------------------------------------
(* How the tables move, whatever the step: nothing is unhanded, nothing    *)
(* that ended comes back, and money is not lost while the order waits.     *)
Grows ==
  /\ Waiting' => Waiting
  /\ \A i \in Intents : prov[i] # "NONE" => prov'[i] # "NONE"
  /\ \A i \in Intents : row[i] # "NONE" => row'[i] # "NONE"
  /\ \A i \in Intents : Waiting' /\ prov[i] \in Taken => prov'[i] \in Taken
  /\ \A i \in Intents : prov[i] \notin PayableStates \cup {"NONE"} => prov'[i] = prov[i]

LEMMA KnownStays ==
  ASSUME Grows, NEW x \in Intents \cup {NoIntent}, Known(x, Waiting, prov)
  PROVE  Known(x, Waiting', prov')
  BY DEF Grows, Known

LEMMA HandlerStays ==
  ASSUME Grows, RowsKnown, NEW r \in TaskRecords, Handler(r, Waiting, prov, row)
  PROVE  Handler(r, Waiting', prov', row')
<1>1. /\ r.pc \in AboutIntent => r.intent \in Intents
      /\ r.ref \in Intents \cup {NoIntent}
  BY DEF TaskRecords, WellFormed
<1>2. /\ r.pc = "insert" => prov'[r.intent] # "NONE"
      /\ r.pc \in AboutIntent \ {"insert"} => row'[r.intent] # "NONE"
  BY <1>1 DEF Handler, Grows, AboutIntent
<1>3. r.pc \in {"askReconcile", "askRefresh"} => Known(r.ref, Waiting', prov')
  BY <1>1, KnownStays DEF Handler
<1>4. r.pc \in AboutEvent =>
       /\ r.ref # NoIntent => prov'[r.ref] # "NONE"
       /\ r.event.kind \in MoneyKinds /\ r.event.amountOk => Known(r.ref, Waiting', prov')
  BY <1>1, KnownStays DEF Handler, Grows
<1>5. r.pc = "writeRefresh" =>
       /\ r.answer # "NONE"
       /\ Waiting' /\ r.answer \in Dead => prov'[r.intent] \notin PayableStates
  <2>1. r.pc = "writeRefresh" => r.pc \in AboutIntent \ {"insert"}
    BY DEF AboutIntent
  <2>2. r.pc = "writeRefresh" => prov[r.intent] # "NONE"
    BY <1>1, <2>1 DEF Handler, RowsKnown
  <2> QED
    BY <1>1, <2>1, <2>2 DEF Handler, Grows
<1>6. /\ r.pc = "paymentOnly" => r.event.kind \in MoneyKinds /\ r.event.amountOk
      /\ r.pc \in {"readCapture", "capture", "writeCapture", "captureItem"} => ~Waiting'
      /\ r.pc = "writeCapture" => r.answer # "NONE"
  BY DEF Handler, Grows
<1> QED
  BY <1>2, <1>3, <1>4, <1>5, <1>6 DEF Handler

(* One handler moves, the others keep what they carry.                     *)
LEMMA HandlerMoves ==
  ASSUME TypeOK, Grows, RowsKnown, Handlers, NEW t \in Tasks, NEW r,
         task' = [task EXCEPT ![t] = r], Handler(r, Waiting', prov', row')
  PROVE  Handlers'
<1>1. ASSUME NEW u \in Tasks PROVE Handler(task'[u], Waiting', prov', row')
  <2>1. CASE u = t
    BY <2>1 DEF TypeOK
  <2>2. CASE u # t
    <3>1. task'[u] = task[u] /\ task[u] \in TaskRecords
      BY <2>2 DEF TypeOK
    <3> QED
      BY <3>1, HandlerStays DEF Handlers
  <2> QED
    BY <2>1, <2>2
<1> QED
  BY <1>1 DEF Handlers

(* A handler that returns carries nothing.                                 *)
LEMMA IdleCarriesNothing == Handler(Idle, Waiting', prov', row')
  BY DEF Handler, Idle, AboutIntent, AboutEvent

LEMMA HandlerReturns ==
  ASSUME TypeOK, Grows, RowsKnown, Handlers, NEW t \in Tasks, Return(t)
  PROVE  Handlers'
  BY HandlerMoves, IdleCarriesNothing DEF Return

LEMMA HandlersRest ==
  ASSUME TypeOK, Grows, RowsKnown, Handlers, UNCHANGED task
  PROVE  Handlers'
<1>1. ASSUME NEW u \in Tasks PROVE Handler(task'[u], Waiting', prov', row')
  BY HandlerStays DEF TypeOK, Handlers
<1> QED
  BY <1>1 DEF Handlers

(* A step that touches no table but, perhaps, takes the order out of its   *)
(* wait, and tells the engine of nothing new.                              *)
TablesHold ==
  /\ Waiting' => Waiting
  /\ UNCHANGED <<row, payRef, newest, prov>>
  /\ \A e \in WebhookEvents : event'[e] # "unsent" => event[e] # "unsent"

TablesInv == OneHanded /\ RowsKnown /\ HeardKnown /\ WatchedWhilePayable

LEMMA QuietTables ==
  ASSUME TypeOK, TablesInv, TablesHold
  PROVE  Grows /\ TablesInv'
<1>1. Grows
  BY DEF Grows, TablesHold
<1>2. RowsKnown'
  BY DEF TablesInv, RowsKnown, TablesHold, Known
<1>3. OneHanded' /\ HeardKnown'
  BY DEF TablesInv, OneHanded, HeardKnown, Handed, TablesHold
<1>4. WatchedWhilePayable'
  BY DEF TablesInv, WatchedWhilePayable, TablesHold, Waiting
<1> QED
  BY <1>1, <1>2, <1>3, <1>4 DEF TablesInv

LEMMA QuietReturn ==
  ASSUME TypeOK, TablesInv, Handlers, TablesHold, NEW t \in Tasks, Return(t)
  PROVE  TablesInv' /\ Handlers'
  BY QuietTables, HandlerReturns DEF TablesInv

LEMMA QuietMove ==
  ASSUME TypeOK, TablesInv, Handlers, TablesHold, NEW t \in Tasks, NEW r,
         task' = [task EXCEPT ![t] = r], Handler(r, Waiting', prov', row')
  PROVE  TablesInv' /\ Handlers'
  BY QuietTables, HandlerMoves DEF TablesInv

LEMMA QuietRest ==
  ASSUME TypeOK, TablesInv, Handlers, TablesHold, UNCHANGED task
  PROVE  TablesInv' /\ Handlers'
  BY QuietTables, HandlersRest DEF TablesInv

(* What the provider answers about an intent whose reference is Known: a   *)
(* status, and a dead one only when nothing can be paid any more.          *)
LEMMA AnswersAreTrue ==
  ASSUME TypeOK, RowsKnown, NEW i \in Intents, NEW ref \in Intents \cup {NoIntent},
         row[i] # "NONE", Known(ref, Waiting, prov),
         NEW s \in Answers(i, ref)
  PROVE  /\ s # "NONE"
         /\ Waiting /\ s \in Dead => prov[i] \notin PayableStates
<1>1. prov[i] # "NONE" /\ prov \in [Intents -> ProviderStates]
  BY DEF RowsKnown, TypeOK
<1>2. CASE ref = NoIntent
  BY <1>1, <1>2 DEF Answers, Reported, Dead, PayableStates, Taken, ProviderStates
<1>3. CASE ref # NoIntent
  <2>1. prov[ref] # "NONE" /\ (Waiting => prov[ref] \in Taken)
    BY <1>3 DEF Known
  <2> QED
    BY <1>1, <1>3, <2>1 DEF Answers, Reported, Dead, Taken, ProviderStates
<1> QED
  BY <1>2, <1>3

-----------------------------------------------------------------------------
(* The steps of a handler that leave the tables as they are.               *)
LEMMA ReadingSteps ==
  ASSUME TypeOK, TablesInv, Handlers, HandlersHeard, NEW t \in Tasks,
         \/ StartIntent(t) \/ StartRefresh(t) \/ AskRefresh(t) \/ AskReconcile(t)
         \/ \E e \in WebhookEvents : ClaimWebhook(t, e)
         \/ \E i \in Intents : StartReconcile(t, i) \/ StartExpiry(t, i)
         \/ StartCapture(t) \/ ReadCapture(t) \/ OpenCaptureItem(t)
         \/ Decide(t) \/ OpenReconciliation(t) \/ FinishClaim(t) \/ Crash(t)
  PROVE  TablesInv' /\ Handlers'
<1> USE DEF TablesHold, Waiting
<1>0. task \in [Tasks -> TaskRecords] /\ event \in [Events -> ClaimStates]
      /\ task[t] \in TaskRecords /\ Handler(task[t], Waiting, prov, row)
  BY DEF TypeOK, Handlers
<1>1. CASE StartIntent(t)
  <2>1. Handler([Idle EXCEPT !.pc = "open"], Waiting', prov', row')
    BY DEF Handler, Idle, AboutIntent, AboutEvent
  <2> QED
    BY <1>1, <2>1, QuietMove DEF StartIntent, Start
<1>2. CASE StartRefresh(t)
  <2> DEFINE r == [Idle EXCEPT !.pc = "askRefresh", !.intent = newest,
                               !.ref = payRef[newest], !.answer = row[newest]]
  <2>1. newest \in Intents /\ row[newest] # "NONE" /\ Known(payRef[newest], Waiting, prov)
    BY <1>2 DEF StartRefresh, TypeOK, TablesInv, RowsKnown
  <2>2. UNCHANGED <<order, row, payRef, newest, prov, event>> /\ task' = [task EXCEPT ![t] = r]
    BY <1>2 DEF StartRefresh, Start
  <2>3. Handler(r, Waiting', prov', row')
    BY <2>1, <2>2 DEF Handler, Idle, AboutIntent, AboutEvent, Known
  <2> QED
    BY <2>2, <2>3, QuietMove
<1>3. CASE AskRefresh(t)
  <2>1. /\ task[t].intent \in Intents /\ task[t].ref \in Intents \cup {NoIntent}
        /\ row[task[t].intent] # "NONE" /\ Known(task[t].ref, Waiting, prov)
    BY <1>0, <1>3 DEF AskRefresh, At, TaskRecords, WellFormed, AboutIntent, Handler
  <2>2. PICK s \in Answers(task[t].intent, task[t].ref) :
          IF s \in {"THROWS", task[t].answer}
            THEN Return(t)
            ELSE task' = [task EXCEPT ![t].pc = "writeRefresh", ![t].answer = s]
    BY <1>3 DEF AskRefresh
  <2>3. CASE s \in {"THROWS", task[t].answer}
    BY <1>3, <2>2, <2>3, QuietReturn DEF AskRefresh
  <2>4. CASE s \notin {"THROWS", task[t].answer}
    <3> DEFINE r == [task[t] EXCEPT !.pc = "writeRefresh", !.answer = s]
    <3>1. s # "NONE" /\ (Waiting /\ s \in Dead => prov[task[t].intent] \notin PayableStates)
      BY <2>1, <2>2, AnswersAreTrue DEF TablesInv
    <3>2. /\ UNCHANGED <<order, row, payRef, newest, prov, event>>
          /\ task' = [task EXCEPT ![t] = r]
      BY <1>0, <1>3, <2>2, <2>4 DEF AskRefresh
    <3>3. Handler(r, Waiting', prov', row')
      BY <1>0, <2>1, <3>1, <3>2 DEF Handler, AboutIntent, AboutEvent, TaskRecords
    <3> QED
      BY <3>2, <3>3, QuietMove
  <2> QED
    BY <2>3, <2>4
<1>4. CASE AskReconcile(t)
  <2>1. Known(task[t].ref, Waiting, prov)
    BY <1>0, <1>4 DEF AskReconcile, At, Handler
  <2>2. PICK s \in Answers(task[t].intent, task[t].ref) :
          LET e == Reconcile(IF s = "CAPTURED" THEN "PAYMENT_CAPTURED" ELSE "PAYMENT_AUTHORIZED")
          IN  IF s \in {"CAPTURED", "AUTHORIZED"} /\ event[e] = "unsent"
                THEN /\ event' = [event EXCEPT ![e] = "claimed"]
                     /\ task' = [task EXCEPT ![t].pc = "decide", ![t].event = e]
                ELSE event' = event /\ Return(t)
    BY <1>4 DEF AskReconcile
  <2> DEFINE e == Reconcile(IF s = "CAPTURED" THEN "PAYMENT_CAPTURED" ELSE "PAYMENT_AUTHORIZED")
             r == [task[t] EXCEPT !.pc = "decide", !.event = e]
  <2>3. CASE event' = event /\ Return(t)
    BY <1>4, <2>3, QuietReturn DEF AskReconcile
  <2>4. CASE /\ event' = [event EXCEPT ![e] = "claimed"]
             /\ task' = [task EXCEPT ![t].pc = "decide", ![t].event = e]
    <3>1. e \notin WebhookEvents
      BY DEF Reconcile, WebhookEvents
    <3>2. \A x \in WebhookEvents : event'[x] = event[x]
      BY <1>0, <2>4, <3>1 DEF Events
    <3>3. UNCHANGED <<order, row, payRef, newest, prov>> /\ task' = [task EXCEPT ![t] = r]
      BY <1>0, <1>4, <2>4 DEF AskReconcile
    <3>4. r.pc = "decide" /\ r.ref = task[t].ref /\ r.event = e
      BY <1>0 DEF TaskRecords
    <3>5. Handler(r, Waiting', prov', row')
      BY <2>1, <3>3, <3>4 DEF Handler, AboutIntent, AboutEvent, Known
    <3> QED
      BY <3>2, <3>3, <3>5, QuietMove
  <2> QED
    BY <2>2, <2>3, <2>4
<1>5. ASSUME NEW e \in WebhookEvents, ClaimWebhook(t, e) PROVE TablesInv' /\ Handlers'
  <2> DEFINE r == [Idle EXCEPT !.pc = "decide", !.event = e, !.ref = e.intent]
  <2>1. e \in Events /\ e.intent \in Intents
    BY DEF Events, WebhookEvents
  <2>2. event[e] # "unsent" /\ \A x \in WebhookEvents : event'[x] # "unsent" => event[x] # "unsent"
    BY <1>0, <1>5, <2>1 DEF ClaimWebhook, Events
  <2>3. UNCHANGED <<order, row, payRef, newest, prov>> /\ task' = [task EXCEPT ![t] = r]
    BY <1>5 DEF ClaimWebhook, Start
  <2>4. /\ prov[e.intent] # "NONE"
        /\ e.kind \in MoneyKinds /\ e.amountOk => Known(e.intent, Waiting, prov)
    BY <2>1, <2>2 DEF TablesInv, HeardKnown, RowsKnown, Known, Taken
  <2>5. r.pc = "decide" /\ r.event = e /\ r.ref = e.intent
    BY DEF Idle
  <2>6. Handler(r, Waiting', prov', row')
    BY <2>3, <2>4, <2>5 DEF Handler, AboutIntent, AboutEvent, Known
  <2> QED
    BY <2>2, <2>3, <2>6, QuietMove
<1>6. ASSUME NEW i \in Intents, StartReconcile(t, i) PROVE TablesInv' /\ Handlers'
  <2> DEFINE r == [Idle EXCEPT !.pc = "askReconcile", !.intent = i, !.ref = payRef[i]]
  <2>1. row[i] # "NONE" /\ Known(payRef[i], Waiting, prov)
    BY <1>6 DEF StartReconcile, TablesInv, RowsKnown
  <2>2. UNCHANGED <<order, row, payRef, newest, prov, event>> /\ task' = [task EXCEPT ![t] = r]
    BY <1>6 DEF StartReconcile, Start
  <2>3. Handler(r, Waiting', prov', row')
    BY <2>1, <2>2 DEF Handler, Idle, AboutIntent, AboutEvent, Known
  <2> QED
    BY <2>2, <2>3, QuietMove
<1>7. ASSUME NEW i \in Intents, StartExpiry(t, i) PROVE TablesInv' /\ Handlers'
  <2> DEFINE r == [Idle EXCEPT !.pc = "expire", !.intent = i]
  <2>1. row[i] # "NONE"
    BY <1>7 DEF StartExpiry
  <2>2. UNCHANGED <<order, row, payRef, newest, prov, event>> /\ task' = [task EXCEPT ![t] = r]
    BY <1>7 DEF StartExpiry, Start
  <2>3. Handler(r, Waiting', prov', row')
    BY <2>1, <2>2 DEF Handler, Idle, AboutIntent, AboutEvent
  <2> QED
    BY <2>2, <2>3, QuietMove
<1>8. CASE StartCapture(t)
  <2> DEFINE r == [Idle EXCEPT !.pc = "readCapture"]
  <2>1. ~Waiting
    BY <1>8 DEF StartCapture, Committed, AwaitingPayment
  <2>2. UNCHANGED <<order, row, payRef, newest, prov, event>> /\ task' = [task EXCEPT ![t] = r]
    BY <1>8 DEF StartCapture, Start
  <2>3. Handler(r, Waiting', prov', row')
    BY <2>1, <2>2 DEF Handler, Idle, AboutIntent, AboutEvent
  <2> QED
    BY <2>2, <2>3, QuietMove
<1>9. CASE ReadCapture(t)
  <2>1. CASE Return(t)
    BY <1>9, <2>1, QuietReturn DEF ReadCapture
  <2>2. ASSUME NEW i \in Intents, row[i] = "AUTHORIZED",
               task' = [task EXCEPT ![t].pc = "capture", ![t].intent = i, ![t].ref = payRef[i]]
        PROVE  TablesInv' /\ Handlers'
    <3> DEFINE r == [task[t] EXCEPT !.pc = "capture", !.intent = i, !.ref = payRef[i]]
    <3>1. r.pc = "capture" /\ r.intent = i /\ ~Waiting
      BY <1>0, <1>9 DEF TaskRecords, ReadCapture, At, Handler
    <3>2. UNCHANGED <<order, row, payRef, newest, prov, event>> /\ task' = [task EXCEPT ![t] = r]
      BY <1>0, <1>9, <2>2 DEF ReadCapture
    <3>3. Handler(r, Waiting', prov', row')
      BY <2>2, <3>1, <3>2 DEF Handler, AboutIntent, AboutEvent
    <3> QED
      BY <3>2, <3>3, QuietMove
  <2> QED
    BY <1>9, <2>1, <2>2 DEF ReadCapture
<1>10. CASE OpenCaptureItem(t) \/ Crash(t)
  BY <1>10, QuietReturn DEF OpenCaptureItem, Crash
<1>11. CASE Decide(t)
  <2> DEFINE pc == Decision(task[t].event, order)
             r == [task[t] EXCEPT !.pc = pc]
  <2>1. UNCHANGED <<order, row, payRef, newest, prov, event>> /\ task' = [task EXCEPT ![t] = r]
    BY <1>0, <1>11 DEF Decide, Goto
  <2>2. r.pc = pc /\ r.ref = task[t].ref /\ r.event = task[t].event
    BY <1>0 DEF TaskRecords
  <2>3. /\ pc \in {"reconcile", "paymentOnly", "apply"}
        /\ pc = "paymentOnly" => task[t].event.kind \in MoneyKinds /\ task[t].event.amountOk
    BY DEF Decision
  <2>4. Handler(r, Waiting', prov', row')
    BY <1>0, <1>11, <2>1, <2>2, <2>3 DEF Handler, Decide, At, AboutIntent, AboutEvent
  <2> QED
    BY <2>1, <2>4, QuietMove
<1>12. CASE OpenReconciliation(t)
  <2>1. CASE Return(t)
    BY <1>12, <2>1, QuietReturn DEF OpenReconciliation
  <2>2. CASE Goto(t, "finish")
    <3> DEFINE r == [task[t] EXCEPT !.pc = "finish"]
    <3>1. UNCHANGED <<order, row, payRef, newest, prov, event>> /\ task' = [task EXCEPT ![t] = r]
      BY <1>0, <1>12, <2>2 DEF OpenReconciliation, Goto
    <3>2. r.pc = "finish" /\ r.ref = task[t].ref /\ r.event = task[t].event
      BY <1>0 DEF TaskRecords
    <3>3. Handler(r, Waiting', prov', row')
      BY <1>0, <1>12, <3>1, <3>2 DEF Handler, OpenReconciliation, At, AboutIntent, AboutEvent
    <3> QED
      BY <3>1, <3>3, QuietMove
  <2> QED
    BY <1>12, <2>1, <2>2 DEF OpenReconciliation
<1>13. CASE FinishClaim(t)
  <2>1. event[task[t].event] # "unsent"
    BY <1>13 DEF FinishClaim, At, HandlersHeard, AboutEvent
  <2>2. \A e \in WebhookEvents : event'[e] # "unsent" => event[e] # "unsent"
    BY <1>0, <1>13, <2>1 DEF FinishClaim, Events
  <2> QED
    BY <1>13, <2>2, QuietReturn DEF FinishClaim
<1> QED
  BY <1>1, <1>2, <1>3, <1>4, <1>5, <1>6, <1>7, <1>8, <1>9, <1>10, <1>11, <1>12, <1>13

-----------------------------------------------------------------------------
(* The steps of a handler that write.                                      *)
LEMMA OpensOne ==
  ASSUME TypeOK, TablesInv, Handlers, NEW t \in Tasks, OpenAtProvider(t)
  PROVE  TablesInv' /\ Handlers'
<1>1. CASE prov' = prov /\ Return(t)
  BY <1>1, QuietReturn DEF OpenAtProvider, TablesHold, Waiting
<1>2. ASSUME NEW i \in Intents, prov[i] = "NONE", prov' = [prov EXCEPT ![i] = "OPEN"],
             task' = [task EXCEPT ![t].pc = "insert", ![t].intent = i]
      PROVE  TablesInv' /\ Handlers'
  <2> DEFINE r == [task[t] EXCEPT !.pc = "insert", !.intent = i]
  <2>0. /\ prov \in [Intents -> ProviderStates] /\ task \in [Tasks -> TaskRecords]
        /\ row \in [Intents -> PaymentStatuses \cup {"NONE"}]
        /\ payRef \in [Intents -> Intents \cup {NoIntent}]
        /\ \A e \in WebhookEvents : e.intent \in Intents
    BY DEF TypeOK, WebhookEvents
  <2>1. UNCHANGED <<order, row, payRef, newest, event>> /\ task' = [task EXCEPT ![t] = r]
    BY <1>2, <2>0 DEF OpenAtProvider
  <2>2. Grows
    BY <1>2, <2>0, <2>1 DEF Grows, Waiting, Taken
  <2>3. RowsKnown'
    BY <1>2, <2>0, <2>1 DEF TablesInv, RowsKnown, Known, Waiting, Taken
  <2>4. row[i] = "NONE"
    BY <1>2 DEF TablesInv, RowsKnown
  <2>5. OneHanded'
    BY <1>2, <2>0, <2>1, <2>4 DEF TablesInv, OneHanded, Handed, Taken
  <2>6. HeardKnown'
    BY <1>2, <2>0, <2>1 DEF TablesInv, HeardKnown
  <2>7. WatchedWhilePayable'
    BY <1>2, <2>0, <2>1, <2>4 DEF TablesInv, WatchedWhilePayable, Dead
  <2>8. r.pc = "insert" /\ r.intent = i
    BY <2>0 DEF TaskRecords
  <2>9. Handler(r, Waiting', prov', row')
    BY <1>2, <2>0, <2>8 DEF Handler, AboutIntent, AboutEvent
  <2> QED
    BY <2>1, <2>2, <2>3, <2>5, <2>6, <2>7, <2>9, HandlerMoves DEF TablesInv
<1> QED
  BY <1>1, <1>2 DEF OpenAtProvider

(* A second row is recorded only when no other counts as live, and a       *)
(* checkout that can be paid does.                                         *)
LEMMA InsertsOne ==
  ASSUME TypeOK, TablesInv, Handlers, NEW t \in Tasks, InsertIntent(t)
  PROVE  TablesInv' /\ Handlers'
<1> DEFINE i == task[t].intent
           inserted == [row EXCEPT ![i] = "PENDING"]
<1>0. /\ prov \in [Intents -> ProviderStates] /\ task \in [Tasks -> TaskRecords]
      /\ row \in [Intents -> PaymentStatuses \cup {"NONE"}]
      /\ payRef \in [Intents -> Intents \cup {NoIntent}]
      /\ order \in Statuses
      /\ \A e \in WebhookEvents : e.intent \in Intents
  BY DEF TypeOK, WebhookEvents
<1>1. i \in Intents /\ prov[i] # "NONE"
  BY <1>0 DEF InsertIntent, At, TaskRecords, WellFormed, AboutIntent, Handlers, Handler
<1>2. Return(t) /\ UNCHANGED <<payRef, prov, event>>
  BY DEF InsertIntent
<1>3. CASE UNCHANGED <<row, newest, order>>
  BY <1>2, <1>3, QuietReturn DEF TablesHold, Waiting
<1>4. CASE /\ OneLive(inserted) /\ OrderMoves("PAYMENT_PENDING", inserted)
           /\ row' = inserted /\ newest' = i /\ order' = "PAYMENT_PENDING"
  <2>1. Waiting /\ Waiting'
    BY <1>0, <1>4, LifecycleFacts DEF OrderMoves, Waiting, AwaitingPayment, Statuses
  <2>2. Grows
    BY <1>0, <1>2, <1>4, <2>1 DEF Grows
  <2>3. RowsKnown'
    BY <1>0, <1>1, <1>2, <1>4, <2>1 DEF TablesInv, RowsKnown, Known
  <2>4. \A j \in Intents : Handed(j)' /\ j # i => Handed(j) /\ row[j] \notin Dead \cup {"NONE"}
    BY <1>0, <1>2, <1>4, <2>1
       DEF TablesInv, Handed, RowsKnown, WatchedWhilePayable, Waiting
  <2>5. \A j \in Intents : Handed(j)' => j = i
    BY <1>0, <1>1, <1>4, <2>4 DEF OneLive, CountsAsLive, Dead
  <2>6. OneHanded'
    BY <2>5 DEF OneHanded
  <2>7. HeardKnown'
    BY <1>2 DEF TablesInv, HeardKnown
  <2>8. WatchedWhilePayable'
    BY <1>0, <1>2, <1>4, <2>1 DEF TablesInv, WatchedWhilePayable, Dead, Waiting
  <2> QED
    BY <1>2, <2>2, <2>3, <2>6, <2>7, <2>8, HandlerReturns DEF TablesInv
<1> QED
  BY <1>3, <1>4 DEF InsertIntent

(* An event is written on the rows in flight: each keeps a known           *)
(* reference, and none is called dead by an event of money.                *)
LEMMA WritesEvent ==
  ASSUME TypeOK, TablesInv, Handlers, NEW t \in Tasks, UpdatePaymentOnly(t) \/ Apply(t)
  PROVE  TablesInv' /\ Handlers'
<1> DEFINE e == task[t].event  ref == task[t].ref  r == [task[t] EXCEPT !.pc = "finish"]
<1>0. /\ prov \in [Intents -> ProviderStates] /\ task \in [Tasks -> TaskRecords]
      /\ row \in [Intents -> PaymentStatuses \cup {"NONE"}]
      /\ payRef \in [Intents -> Intents \cup {NoIntent}]
      /\ ref \in Intents \cup {NoIntent} /\ order \in Statuses
      /\ Handler(task[t], Waiting, prov, row)
  BY DEF TypeOK, TaskRecords, Handlers
<1>1. UNCHANGED <<newest, prov, event>>
  BY DEF UpdatePaymentOnly, Apply
<1>2. CASE Return(t) /\ UNCHANGED <<order, row, payRef>>
  BY <1>1, <1>2, QuietReturn DEF TablesHold, Waiting
<1>3. /\ task[t].pc \in {"paymentOnly", "apply"}
      /\ ref # NoIntent => prov[ref] # "NONE"
      /\ UpdatePaymentOnly(t) => e.kind \in MoneyKinds /\ Known(ref, Waiting, prov)
      /\ e.kind \in MoneyKinds /\ e.amountOk => Known(ref, Waiting, prov)
      /\ e \in Events /\ e.kind \in EventKinds \ {"UNKNOWN"}
  BY <1>0, EventTypes DEF UpdatePaymentOnly, Apply, At, Handler, AboutEvent, TaskRecords, WellFormed
<1>4. CASE /\ row' = RowsAfter(e.kind) /\ payRef' = RefsAfter(ref) /\ Goto(t, "finish")
           /\ Waiting' => order' = order /\ UpdatePaymentOnly(t)
  <2>0. StatusOf[e.kind] \in PaymentStatuses /\ (e.kind \in MoneyKinds => StatusOf[e.kind] \notin Dead)
    BY <1>3 DEF StatusOf, EventKinds, MoneyKinds, PaymentStatuses, Dead
  <2>1. \A i \in Intents : row'[i] = row[i] \/ (row[i] \in InFlight /\ row'[i] = StatusOf[e.kind])
    BY <1>0, <1>4 DEF RowsAfter
  <2>2. \A i \in Intents : payRef'[i] = payRef[i] \/ payRef'[i] = ref
    BY <1>0, <1>4 DEF RefsAfter
  <2>3. \A i \in Intents : row'[i] = "NONE" <=> row[i] = "NONE"
    BY <2>0, <2>1 DEF InFlight, PaymentStatuses
  <2>4. Waiting' => Waiting /\ Known(ref, Waiting, prov) /\ e.kind \in MoneyKinds
    BY <1>3, <1>4 DEF Waiting
  <2>5. Grows
    BY <1>1, <2>3, <2>4 DEF Grows
  <2>6. RowsKnown'
    <3>1. \A i \in Intents : Known(payRef'[i], Waiting', prov')
      BY <1>1, <1>3, <2>2, <2>4 DEF TablesInv, RowsKnown, Known
    <3>2. newest \in Intents \cup {NoIntent}
      BY DEF TypeOK
    <3> QED
      BY <1>1, <2>3, <2>4, <3>1, <3>2 DEF TablesInv, RowsKnown
  <2>7. OneHanded' /\ HeardKnown'
    BY <1>1, <2>3 DEF TablesInv, OneHanded, Handed, HeardKnown
  <2>8. WatchedWhilePayable'
    BY <1>1, <2>0, <2>1, <2>4 DEF TablesInv, WatchedWhilePayable, Waiting
  <2>9. r.pc = "finish" /\ r.ref = ref /\ r.event = e /\ task' = [task EXCEPT ![t] = r]
    BY <1>0, <1>4 DEF TaskRecords, Goto
  <2>10. Handler(r, Waiting', prov', row')
    BY <1>0, <1>1, <1>3, <2>4, <2>9 DEF Handler, AboutIntent, AboutEvent, Known
  <2> QED
    BY <2>5, <2>6, <2>7, <2>8, <2>9, <2>10, HandlerMoves DEF TablesInv
<1>5. CASE UpdatePaymentOnly(t)
  BY <1>2, <1>4, <1>5 DEF UpdatePaymentOnly
<1>6. CASE Apply(t)
  <2>1. OrderTarget(e.kind) \notin AwaitingPayment
    BY DEF OrderTarget, AwaitingPayment
  <2>2. CASE /\ row' = RowsAfter(e.kind) /\ payRef' = RefsAfter(ref)
             /\ order' = OrderTarget(e.kind) /\ Goto(t, "finish")
    BY <1>4, <2>1, <2>2 DEF Waiting
  <2> QED
    BY <1>2, <1>6, <2>2 DEF Apply
<1> QED
  BY <1>5, <1>6

(* A row is written by its id: what a status poll read, a row that lapsed, *)
(* what a capture ended with.                                              *)
LEMMA WritesRow ==
  ASSUME TypeOK, TablesInv, Handlers, NEW t \in Tasks,
         WriteRefresh(t) \/ ExpireIntent(t) \/ WriteCapture(t)
  PROVE  TablesInv' /\ Handlers'
<1> DEFINE i == task[t].intent
<1>0. /\ prov \in [Intents -> ProviderStates] /\ task \in [Tasks -> TaskRecords]
      /\ row \in [Intents -> PaymentStatuses \cup {"NONE"}]
      /\ order \in Statuses
      /\ Handler(task[t], Waiting, prov, row)
  BY DEF TypeOK, Handlers
<1>1. i \in Intents /\ row[i] # "NONE"
  BY <1>0 DEF WriteRefresh, ExpireIntent, WriteCapture, At, AboutIntent, Handler, TaskRecords, WellFormed
<1>2. UNCHANGED <<payRef, newest, prov, event>>
  BY DEF WriteRefresh, ExpireIntent, WriteCapture
<1>3. ASSUME NEW s, s # "NONE", row' = [row EXCEPT ![i] = s] \/ row' = row,
             Waiting' => Waiting,
             Waiting' /\ s \in Dead => prov[i] \notin PayableStates
      PROVE  Grows /\ TablesInv'
  <2>1. \A j \in Intents : row'[j] = row[j] \/ (j = i /\ row'[j] = s)
    BY <1>0, <1>3
  <2>2. \A j \in Intents : row'[j] = "NONE" <=> row[j] = "NONE"
    BY <1>1, <1>3, <2>1
  <2>3. Grows
    BY <1>2, <1>3, <2>2 DEF Grows
  <2>4. RowsKnown'
    <3>1. newest \in Intents \cup {NoIntent}
      BY DEF TypeOK
    <3> QED
      BY <1>2, <1>3, <2>2, <3>1 DEF TablesInv, RowsKnown, Known
  <2>5. OneHanded' /\ HeardKnown'
    BY <1>2, <2>2 DEF TablesInv, OneHanded, Handed, HeardKnown
  <2>6. WatchedWhilePayable'
    BY <1>2, <1>3, <2>1 DEF TablesInv, WatchedWhilePayable, Waiting, PayableStates
  <2> QED
    BY <2>3, <2>4, <2>5, <2>6 DEF TablesInv
<1>4. CASE WriteRefresh(t)
  <2>1. /\ task[t].answer # "NONE"
        /\ Waiting /\ task[t].answer \in Dead => prov[i] \notin PayableStates
    BY <1>0, <1>4 DEF WriteRefresh, At, Handler
  <2>2. Grows /\ TablesInv'
    BY <1>3, <1>4, <2>1 DEF WriteRefresh, Waiting
  <2> QED
    BY <1>4, <2>2, HandlerReturns DEF WriteRefresh, TablesInv
<1>5. CASE ExpireIntent(t)
  <2>1. CASE UNCHANGED <<row, order>>
    BY <1>2, <1>5, <2>1, QuietReturn DEF ExpireIntent, TablesHold, Waiting
  <2>2. CASE row' = [row EXCEPT ![i] = "EXPIRED"] /\ order' = "PAYMENT_EXPIRED"
    <3>1. ~Waiting'
      BY <2>2 DEF Waiting, AwaitingPayment
    <3>2. Grows /\ TablesInv'
      BY <1>3, <2>2, <3>1
    <3> QED
      BY <1>5, <3>2, HandlerReturns DEF ExpireIntent, TablesInv
  <2> QED
    BY <1>5, <2>1, <2>2 DEF ExpireIntent
<1>6. CASE WriteCapture(t)
  <2>1. task[t].answer # "NONE" /\ ~Waiting /\ ~Waiting'
    BY <1>0, <1>6 DEF WriteCapture, At, Handler, Waiting
  <2>2. Grows /\ TablesInv'
    BY <1>3, <1>6, <2>1 DEF WriteCapture
  <2>3. CASE Return(t)
    BY <2>2, <2>3, HandlerReturns DEF TablesInv
  <2>4. CASE Goto(t, "captureItem")
    <3> DEFINE r == [task[t] EXCEPT !.pc = "captureItem"]
    <3>1. task' = [task EXCEPT ![t] = r] /\ r.pc = "captureItem" /\ r.intent = i
      BY <1>0, <2>4 DEF Goto, TaskRecords
    <3>2. row'[i] # "NONE"
      BY <1>1, <2>2 DEF Grows
    <3>3. Handler(r, Waiting', prov', row')
      BY <2>1, <3>1, <3>2 DEF Handler, AboutIntent, AboutEvent
    <3> QED
      BY <2>2, <3>1, <3>3, HandlerMoves DEF TablesInv
  <2> QED
    BY <1>6, <2>3, <2>4 DEF WriteCapture
<1> QED
  BY <1>4, <1>5, <1>6

-----------------------------------------------------------------------------
(* The provider's side of an intent moves and, perhaps, says so.           *)
ProvMoves(i, to, told) ==
  /\ UNCHANGED <<order, row, payRef, newest>>
  /\ prov' = [prov EXCEPT ![i] = to]
  /\ \A e \in WebhookEvents : event'[e] # "unsent" => event[e] # "unsent" \/ e \in told

LEMMA ProviderTables ==
  ASSUME TypeOK, TablesInv, NEW i \in Intents, NEW to, NEW told, ProvMoves(i, to, told),
         \/ prov[i] \in PayableStates /\ row[i] # "NONE" /\ to \in Taken
         \/ prov[i] = "AUTHORIZED" /\ to = "LAPSED" /\ ~Waiting
         \/ prov[i] = "OPEN" /\ to = "EXPIRED",
         told = {} \/ (to \in Taken /\ \A e \in told : e.intent = i)
  PROVE  Grows /\ TablesInv'
<1>0. /\ prov \in [Intents -> ProviderStates] /\ Waiting' = Waiting
      /\ payRef \in [Intents -> Intents \cup {NoIntent}]
      /\ \A e \in WebhookEvents : e.intent \in Intents
  BY DEF TypeOK, WebhookEvents, ProvMoves, Waiting
<1>1. \A j \in Intents : j # i => prov'[j] = prov[j]
  BY <1>0 DEF ProvMoves
<1>2. prov'[i] = to /\ to \notin {"NONE", "OPEN"}
  BY <1>0 DEF ProvMoves, Taken
<1>3. Grows
  BY <1>0, <1>1, <1>2 DEF Grows, ProvMoves, Taken, PayableStates
<1>4. RowsKnown'
  <2>1. \A j \in Intents : row'[j] # "NONE" => prov'[j] # "NONE"
    BY <1>1, <1>2 DEF TablesInv, RowsKnown, ProvMoves
  <2>2. \A j \in Intents : prov'[j] \in Taken => row'[j] # "NONE"
    BY <1>1, <1>2 DEF TablesInv, RowsKnown, ProvMoves, Taken
  <2>3. \A j \in Intents : Known(payRef'[j], Waiting', prov')
    <3> TAKE j \in Intents
    <3>1. Known(payRef[j], Waiting, prov) /\ payRef[j] \in Intents \cup {NoIntent}
      BY <1>0 DEF TablesInv, RowsKnown
    <3> QED
      BY <1>3, <3>1, KnownStays DEF ProvMoves
  <2>4. Waiting' => \A j \in Intents : prov'[j] # "LAPSED"
    BY <1>0, <1>1, <1>2 DEF TablesInv, RowsKnown, Taken
  <2> QED
    BY <2>1, <2>2, <2>3, <2>4 DEF TablesInv, RowsKnown, ProvMoves
<1>5. OneHanded'
  <2>1. \A j \in Intents : Handed(j)' => Handed(j)
    BY <1>1, <1>2 DEF Handed, ProvMoves, Taken, PayableStates
  <2> QED
    BY <2>1 DEF TablesInv, OneHanded
<1>6. HeardKnown'
  <2> SUFFICES ASSUME NEW e \in WebhookEvents, event'[e] # "unsent"
               PROVE  /\ prov'[e.intent] # "NONE"
                      /\ e.kind \in MoneyKinds /\ e.amountOk
                           => prov'[e.intent] \in Taken \cup {"LAPSED"}
    BY DEF HeardKnown
  <2>1. event[e] # "unsent" \/ (e.intent = i /\ to \in Taken)
    BY DEF ProvMoves
  <2> QED
    BY <1>0, <1>1, <1>2, <2>1 DEF TablesInv, HeardKnown, Taken
<1>7. WatchedWhilePayable'
  <2>1. \A j \in Intents : prov'[j] \in PayableStates => prov[j] \in PayableStates
    BY <1>1, <1>2 DEF PayableStates, Taken
  <2> QED
    BY <2>1 DEF TablesInv, WatchedWhilePayable, ProvMoves, PayableStates
<1> QED
  BY <1>3, <1>4, <1>5, <1>6, <1>7 DEF TablesInv

LEMMA AsksCapture ==
  ASSUME TypeOK, TablesInv, Handlers, NEW t \in Tasks, AskCapture(t)
  PROVE  TablesInv' /\ Handlers'
<1> DEFINE ref == task[t].ref
<1>0. /\ prov \in [Intents -> ProviderStates] /\ task \in [Tasks -> TaskRecords]
      /\ event \in [Events -> ClaimStates]
      /\ Handler(task[t], Waiting, prov, row)
  BY DEF TypeOK, Handlers
<1>1. /\ ref \in Intents /\ task[t].intent \in Intents /\ ~Waiting
      /\ row[task[t].intent] # "NONE"
  BY <1>0 DEF AskCapture, At, AboutIntent, Handler, TaskRecords, WellFormed
<1>2. UNCHANGED <<order, row, payRef, newest>>
  BY DEF AskCapture
<1>3. ASSUME NEW s \in {"CAPTURED", "EXPIRED"},
             task' = [task EXCEPT ![t].pc = "writeCapture", ![t].answer = s],
             Grows
      PROVE  Handlers'
  <2> DEFINE r == [task[t] EXCEPT !.pc = "writeCapture", !.answer = s]
  <2>1. /\ task' = [task EXCEPT ![t] = r]
        /\ r.pc = "writeCapture" /\ r.intent = task[t].intent /\ r.answer = s
    BY <1>0, <1>3 DEF TaskRecords
  <2>2. ~Waiting'
    BY <1>1, <1>2 DEF Waiting
  <2>3. Handler(r, Waiting', prov', row')
    BY <1>1, <1>2, <2>1, <2>2 DEF Handler, AboutIntent, AboutEvent
  <2> QED
    BY <1>3, <2>1, <2>3, HandlerMoves DEF TablesInv
<1>4. CASE UNCHANGED <<prov, event>>
  <2>1. Grows /\ TablesInv'
    BY <1>2, <1>4, QuietTables DEF TablesHold, Waiting
  <2>2. CASE Return(t)
    BY <2>1, <2>2, HandlerReturns DEF TablesInv
  <2>3. CASE ~Return(t)
    <3>1. \E s \in {"CAPTURED", "EXPIRED"} :
            task' = [task EXCEPT ![t].pc = "writeCapture", ![t].answer = s]
      BY <2>3 DEF AskCapture
    <3> QED
      BY <1>3, <2>1, <3>1
  <2> QED
    BY <2>2, <2>3
<1>5. ASSUME NEW s \in {"CAPTURED", "EXPIRED"}, prov[ref] = "AUTHORIZED",
             prov' = [prov EXCEPT ![ref] = IF s = "CAPTURED" THEN s ELSE "LAPSED"],
             IF s = "CAPTURED"
               THEN event' = [event EXCEPT ![Webhook("PAYMENT_CAPTURED", ref)] =
                                 IF @ = "unsent" THEN "sent" ELSE @]
               ELSE event' = event,
             task' = [task EXCEPT ![t].pc = "writeCapture", ![t].answer = s]
      PROVE  TablesInv' /\ Handlers'
  <2> DEFINE to == IF s = "CAPTURED" THEN s ELSE "LAPSED"
             told == IF s = "CAPTURED" THEN {Webhook("PAYMENT_CAPTURED", ref)} ELSE {}
  <2>1. \A e \in WebhookEvents : event'[e] # "unsent" => event[e] # "unsent" \/ e \in told
    BY <1>0, <1>5 DEF Events
  <2>2. ProvMoves(ref, to, told)
    BY <1>2, <1>5, <2>1 DEF ProvMoves
  <2>3. told = {} \/ (to \in Taken /\ \A e \in told : e.intent = ref)
    BY DEF Webhook, Taken
  <2>4. row[ref] # "NONE"
    BY <1>1, <1>5 DEF TablesInv, RowsKnown, Taken
  <2>5. \/ prov[ref] \in PayableStates /\ row[ref] # "NONE" /\ to \in Taken
        \/ prov[ref] = "AUTHORIZED" /\ to = "LAPSED" /\ ~Waiting
    BY <1>1, <1>5, <2>4 DEF PayableStates, Taken
  <2>6. Grows /\ TablesInv'
    BY <1>1, <2>2, <2>3, <2>5, ProviderTables
  <2> QED
    BY <1>3, <1>5, <2>6
<1> QED
  BY <1>4, <1>5 DEF AskCapture

(* The rest of the world.                                                  *)
LEMMA WorldMoves ==
  ASSUME TypeOK, TablesInv, Handlers, Environment
  PROVE  TablesInv' /\ Handlers'
<1>0. /\ prov \in [Intents -> ProviderStates] /\ event \in [Events -> ClaimStates]
      /\ order \in Statuses
      /\ WebhookEvents \subseteq Events
  BY DEF TypeOK, Events
<1>1. ASSUME NEW i \in Intents, NEW to, NEW told, ProvMoves(i, to, told), UNCHANGED task,
             \/ prov[i] \in PayableStates /\ row[i] # "NONE" /\ to \in Taken
             \/ prov[i] = "AUTHORIZED" /\ to = "LAPSED" /\ ~Waiting
             \/ prov[i] = "OPEN" /\ to = "EXPIRED",
             told = {} \/ (to \in Taken /\ \A e \in told : e.intent = i)
      PROVE  TablesInv' /\ Handlers'
  <2>1. Grows /\ TablesInv'
    BY <1>1, ProviderTables
  <2> QED
    BY <1>1, <2>1, HandlersRest DEF TablesInv
<1>2. ASSUME NEW i \in Intents, NEW kind, Webhook(kind, i) \in WebhookEvents, Send(Webhook(kind, i))
      PROVE  \A e \in WebhookEvents :
               event'[e] # "unsent" => event[e] # "unsent" \/ e \in {Webhook(kind, i)}
  BY <1>0, <1>2 DEF Send
<1>3. ASSUME NEW i \in Intents, CustomerPays(i) PROVE TablesInv' /\ Handlers'
  <2> DEFINE to == IF Provider = "stub" THEN "AUTHORIZED" ELSE "CAPTURED"
             kind == IF Provider = "stub" THEN "PAYMENT_AUTHORIZED" ELSE "PAYMENT_CAPTURED"
  <2>1. Webhook(kind, i) \in WebhookEvents /\ Webhook(kind, i).intent = i
    BY DEF Webhook, WebhookEvents, EventKinds, MoneyKinds
  <2>2. ProvMoves(i, to, {Webhook(kind, i)})
    BY <1>2, <1>3, <2>1 DEF CustomerPays, ProvMoves
  <2>3. prov[i] \in PayableStates /\ row[i] # "NONE" /\ to \in Taken /\ UNCHANGED task
    BY <1>3 DEF CustomerPays, PayableStates, Taken
  <2> QED
    BY <1>1, <2>1, <2>2, <2>3
<1>4. ASSUME NEW i \in Intents, ProviderCaptures(i) PROVE TablesInv' /\ Handlers'
  <2> DEFINE kind == "PAYMENT_CAPTURED"
  <2>1. Webhook(kind, i) \in WebhookEvents /\ Webhook(kind, i).intent = i
    BY DEF Webhook, WebhookEvents, EventKinds, MoneyKinds
  <2>2. ProvMoves(i, "CAPTURED", {Webhook(kind, i)})
    BY <1>2, <1>4, <2>1 DEF ProviderCaptures, ProvMoves
  <2>3. prov[i] \in PayableStates /\ row[i] # "NONE" /\ "CAPTURED" \in Taken /\ UNCHANGED task
    BY <1>4 DEF ProviderCaptures, PayableStates, Taken, TablesInv, RowsKnown
  <2> QED
    BY <1>1, <2>1, <2>2, <2>3
<1>5. ASSUME NEW i \in Intents, ProviderExpires(i) PROVE TablesInv' /\ Handlers'
  <2>1. ProvMoves(i, "EXPIRED", {})
    BY <1>5 DEF ProviderExpires, ProvMoves
  <2> QED
    BY <1>1, <1>5, <2>1 DEF ProviderExpires
<1>6. ASSUME NEW i \in Intents, BlockLapses(i) PROVE TablesInv' /\ Handlers'
  <2>1. ProvMoves(i, "LAPSED", {})
    BY <1>6 DEF BlockLapses, ProvMoves
  <2> QED
    BY <1>1, <1>6, <2>1 DEF BlockLapses, Waiting
<1>7. ASSUME NEW e \in WebhookEvents, ProviderNotifies(e) PROVE TablesInv' /\ Handlers'
  <2>1. prov[e.intent] # "NONE" /\ ~(e.kind \in MoneyKinds /\ e.amountOk)
    BY <1>7, ConfigAssumption DEF ProviderNotifies, Notices, MoneyKinds
  <2>2. \A x \in WebhookEvents : event'[x] # "unsent" => event[x] # "unsent" \/ x = e
    BY <1>0, <1>7 DEF ProviderNotifies, Send
  <2>3. HeardKnown'
    BY <1>7, <2>1, <2>2 DEF ProviderNotifies, TablesInv, HeardKnown
  <2>4. Grows
    BY <1>7 DEF ProviderNotifies, Grows, Waiting
  <2>5. RowsKnown'
    BY <1>7 DEF ProviderNotifies, TablesInv, RowsKnown, Known, Waiting
  <2>6. OneHanded' /\ WatchedWhilePayable'
    BY <1>7 DEF ProviderNotifies, TablesInv, OneHanded, Handed, WatchedWhilePayable
  <2>7. UNCHANGED task
    BY <1>7 DEF ProviderNotifies
  <2> QED
    BY <2>3, <2>4, <2>5, <2>6, <2>7, HandlersRest DEF TablesInv
<1>8. ASSUME NEW i \in Intents, Lapse(i) PROVE TablesInv' /\ Handlers'
  BY <1>8, QuietRest DEF Lapse, TablesHold, Waiting
<1>9. CASE CancelOrder
  BY <1>9, QuietRest DEF CancelOrder, TablesHold, Waiting, AwaitingPayment
<1>10. ASSUME NEW to \in Statuses, KitchenMoves(to) PROVE TablesInv' /\ Handlers'
  <2>1. ~Waiting'
    BY <1>10, ConfigAssumption DEF KitchenMoves, Waiting, AwaitingPayment, InKitchen, Committed
  <2> QED
    BY <1>10, <2>1, QuietRest DEF KitchenMoves, TablesHold
<1> QED
  BY <1>3, <1>4, <1>5, <1>6, <1>7, <1>8, <1>9, <1>10 DEF Environment

-----------------------------------------------------------------------------
LEMMA ChargeInvariant == Spec => []ChargeInv
<1>1. Init => ChargeInv
  BY DEF Init, ChargeInv, OneHanded, Handed, RowsKnown, Known, HeardKnown,
         WatchedWhilePayable, Handlers, Handler, Idle, AboutIntent, AboutEvent,
         Taken, Dead, Events
<1>2. TypeOK /\ MoneyInv /\ ChargeInv /\ [Next]_vars => ChargeInv'
  <2> SUFFICES ASSUME TypeOK, MoneyInv, TablesInv, Handlers, [Next]_vars
               PROVE  TablesInv' /\ Handlers'
    BY DEF ChargeInv, TablesInv
  <2>1. ASSUME NEW t \in Tasks,
               ApiStep(t) \/ WorkerStep(t) \/ ApplyEventStep(t) \/ Crash(t)
        PROVE  TablesInv' /\ Handlers'
    <3>1. HandlersHeard
      BY DEF MoneyInv
    <3> QED
      BY <2>1, <3>1, ReadingSteps, OpensOne, InsertsOne, WritesEvent, WritesRow, AsksCapture
         DEF ApiStep, WorkerStep, ApplyEventStep
  <2>2. CASE UNCHANGED vars
    BY <2>2, QuietRest DEF vars, TablesHold, Waiting
  <2> QED
    BY <2>1, <2>2, WorldMoves DEF Next, Tasks
<1> QED
  BY <1>1, <1>2, TypeCorrect, MoneyIsTrue, PTL DEF Spec

(* One order, one charge: whatever requests race, whatever expires and     *)
(* whichever handler dies, the provider never holds money on two intents   *)
(* of one order.                                                           *)
THEOREM ChargedOnce == Spec => []AtMostOneCharge
<1>1. ChargeInv => AtMostOneCharge
  BY DEF ChargeInv, OneHanded, Handed, AtMostOneCharge
<1> QED
  BY <1>1, ChargeInvariant, PTL

(* While the order can be paid no checkout the diner could complete is one *)
(* the engine has stopped watching.                                        *)
THEOREM Watched == Spec => []WatchedWhilePayable
<1>1. ChargeInv => WatchedWhilePayable
  BY DEF ChargeInv
<1> QED
  BY <1>1, ChargeInvariant, PTL

-----------------------------------------------------------------------------
(* The engine implements Checkout.                                         *)
Money == [i \in Intents |-> Fate(i)]

(* Only the back office parks an order: the engine never does.             *)
NeverParked == order # "RECONCILIATION_REQUIRED"

StageMoves ==
  \/ Stage' = Stage
  \/ Stage # "closed" /\ Stage' = "closed"
  \/ Stage = "waiting" /\ Stage' = "confirmed"

(* Fates follow the provider and whether the row is there.                 *)
LEMMA FatesHold ==
  ASSUME UNCHANGED prov, \A i \in Intents : row'[i] = "NONE" <=> row[i] = "NONE"
  PROVE  Money' = Money
<1>1. ASSUME NEW i \in Intents PROVE Fate(i)' = Fate(i)
  BY <1>1 DEF Fate
<1> QED
  BY <1>1 DEF Money

(* The order moves and no checkout does: it is confirmed on money there.   *)
LEMMA OrderStep ==
  ASSUME TypeOK, RowsKnown, MoneyInv', StageMoves, UNCHANGED prov, Money' = Money
  PROVE  [Promise!Next]_(Promise!vars)
<1>1. CASE Stage' = Stage
  BY <1>1 DEF Promise!vars, Money
<1>2. CASE Stage # "closed" /\ Stage' = "closed"
  BY <1>2 DEF Promise!Next, Promise!Close, Money
<1>3. CASE Stage = "waiting" /\ Stage' = "confirmed"
  <2>1. Waiting /\ order' \in InKitchen
    BY <1>3 DEF Stage, Waiting
  <2>2. MoneyHeld'
    BY <2>1 DEF MoneyInv, ConfirmedOnlyOnMoney
  <2>3. PICK i \in Intents :
          prov[i] \in IF SplitTiming = "ON_CAPTURE" THEN {"CAPTURED"} ELSE Taken
    BY <2>1, <2>2 DEF MoneyHeld, RowsKnown
  <2>4. Money[i] \in IF SplitTiming = "ON_CAPTURE" THEN {"taken"} ELSE {"blocked", "taken"}
    BY <2>3 DEF Money, Fate, FateOf, Taken
  <2>5. Promise!Confirm
    BY <1>3, <2>4 DEF Promise!Confirm, Money
  <2> QED
    BY <2>5 DEF Promise!Next
<1> QED
  BY <1>1, <1>2, <1>3 DEF StageMoves

(* One checkout moves and the order does not.                              *)
LEMMA FateStep ==
  ASSUME UNCHANGED Stage, NEW i \in Intents,
         \A j \in Intents : j # i => Fate(j)' = Fate(j),
         \/ Fate(i)' = Fate(i)
         \/ /\ Fate(i) = "none" /\ Fate(i)' = "offered" /\ Stage = "waiting"
            /\ \A j \in Intents : Fate(j) \notin {"offered", "blocked", "taken"}
         \/ Fate(i) = "offered" /\ Fate(i)' \in {"blocked", "taken"}
         \/ Fate(i) = "blocked" /\ Fate(i)' = "taken"
         \/ Fate(i) = "blocked" /\ Fate(i)' = "released" /\ Stage # "waiting"
         \/ Fate(i) \in {"none", "offered"} /\ Fate(i)' = "ended"
  PROVE  [Promise!Next]_(Promise!vars)
<1>1. Money' = [Money EXCEPT ![i] = Fate(i)']
  BY DEF Money
<1>2. Money[i] = Fate(i) /\ \A j \in Intents : Money[j] = Fate(j)
  BY DEF Money
<1>3. Promise!Becomes(i, Fate(i)')
  BY <1>1 DEF Promise!Becomes, Money
<1>4. CASE Fate(i)' = Fate(i)
  <2>1. Money' = Money
    BY <1>1, <1>2, <1>4 DEF Money
  <2> QED
    BY <2>1 DEF Promise!vars, Money
<1>5. CASE /\ Fate(i) = "none" /\ Fate(i)' = "offered" /\ Stage = "waiting"
           /\ \A j \in Intents : Fate(j) \notin {"offered", "blocked", "taken"}
  <2>1. Promise!Offer(i)
    BY <1>2, <1>3, <1>5 DEF Promise!Offer, Promise!Payable, Money
  <2> QED
    BY <2>1 DEF Promise!Next
<1>6. CASE Fate(i) = "offered" /\ Fate(i)' \in {"blocked", "taken"}
  <2>1. Promise!Pay(i, Fate(i)')
    BY <1>2, <1>3, <1>6 DEF Promise!Pay, Money
  <2> QED
    BY <1>6, <2>1 DEF Promise!Next
<1>7. CASE Fate(i) = "blocked" /\ Fate(i)' = "taken"
  <2>1. Promise!Take(i)
    BY <1>2, <1>3, <1>7 DEF Promise!Take, Money
  <2> QED
    BY <2>1 DEF Promise!Next
<1>8. CASE Fate(i) = "blocked" /\ Fate(i)' = "released" /\ Stage # "waiting"
  <2>1. Promise!Release(i)
    BY <1>2, <1>3, <1>8 DEF Promise!Release, Money
  <2> QED
    BY <2>1 DEF Promise!Next
<1>9. CASE Fate(i) \in {"none", "offered"} /\ Fate(i)' = "ended"
  <2>1. Promise!End(i)
    BY <1>2, <1>3, <1>9 DEF Promise!End, Money
  <2> QED
    BY <2>1 DEF Promise!Next
<1> QED
  BY <1>4, <1>5, <1>6, <1>7, <1>8, <1>9

(* Where a move the engine asks for takes the order.                       *)
LEMMA StageFollows ==
  ASSUME TypeOK, NeverParked,
         NEW to \in {"PAYMENT_PENDING", "PAYMENT_CONFIRMED", "PAYMENT_FAILED", "PAYMENT_EXPIRED"},
         TransitionAccepted(order, to), order' = to
  PROVE  StageMoves /\ NeverParked' /\ (to = "PAYMENT_PENDING" => Stage = "waiting" /\ Stage' = Stage)
  BY DEF TypeOK, NeverParked, TransitionAccepted, CanTransition, Allowed, Statuses,
         StageMoves, Stage, AwaitingPayment, InKitchen, Committed

(* Every step of a handler is a step of Checkout, or none.                 *)
LEMMA HandlerImplements ==
  ASSUME TypeOK, ChargeInv, ChargeInv', MoneyInv', NeverParked, NEW t \in Tasks,
         ApiStep(t) \/ WorkerStep(t) \/ ApplyEventStep(t) \/ Crash(t)
  PROVE  [Promise!Next]_(Promise!vars) /\ NeverParked'
<1> USE DEF ChargeInv
<1>0. /\ prov \in [Intents -> ProviderStates] /\ task \in [Tasks -> TaskRecords]
      /\ row \in [Intents -> PaymentStatuses \cup {"NONE"}]
      /\ Handler(task[t], Waiting, prov, row)
  BY DEF TypeOK, Handlers
<1>1. CASE UNCHANGED <<order, row, prov>>
  <2>1. Money' = Money /\ StageMoves /\ NeverParked'
    BY <1>1, FatesHold DEF StageMoves, Stage, NeverParked
  <2> QED
    BY <1>1, <2>1, OrderStep
<1>2. CASE OpenAtProvider(t)
  <2>1. ASSUME NEW i \in Intents, prov[i] = "NONE", prov' = [prov EXCEPT ![i] = "OPEN"]
        PROVE  [Promise!Next]_(Promise!vars)
    <3>1. UNCHANGED <<order, row>> /\ row[i] = "NONE"
      BY <1>2, <2>1 DEF OpenAtProvider, RowsKnown
    <3>2. Fate(i) = "none" /\ Fate(i)' = "none"
      BY <1>0, <2>1, <3>1 DEF Fate, FateOf
    <3>3. \A j \in Intents : j # i => Fate(j)' = Fate(j)
      BY <1>0, <2>1, <3>1 DEF Fate
    <3>4. UNCHANGED Stage
      BY <3>1 DEF Stage
    <3> QED
      BY <3>2, <3>3, <3>4, FateStep
  <2>2. CASE prov' = prov
    BY <1>1, <1>2, <2>2 DEF OpenAtProvider
  <2>3. NeverParked'
    BY <1>2 DEF OpenAtProvider, NeverParked
  <2> QED
    BY <1>2, <2>1, <2>2, <2>3 DEF OpenAtProvider
<1>3. CASE InsertIntent(t)
  <2>0. prov' = prov
    BY <1>3 DEF InsertIntent
  <2>3. PICK i \in Intents : i = task[t].intent /\ prov[i] # "NONE"
    BY <1>0, <1>3 DEF InsertIntent, At, TaskRecords, WellFormed, AboutIntent, Handler
  <2> DEFINE inserted == [row EXCEPT ![i] = "PENDING"]
  <2>1. CASE UNCHANGED <<row, order>>
    BY <1>1, <2>0, <2>1
  <2>2. CASE /\ OrderMoves("PAYMENT_PENDING", inserted)
             /\ row' = inserted /\ order' = "PAYMENT_PENDING"
    <3>1. Stage = "waiting" /\ Stage' = Stage /\ NeverParked'
      BY <2>2, StageFollows DEF OrderMoves
    <3>2. row'[i] # "NONE"
      BY <1>0, <2>2
    <3>3. \A j \in Intents : j # i => Fate(j)' = Fate(j)
      BY <1>0, <2>0, <2>2 DEF Fate
    <3>4. CASE prov[i] = "OPEN" /\ row[i] = "NONE"
      <4>1. Fate(i) = "none" /\ Fate(i)' = "offered"
        BY <2>0, <3>2, <3>4 DEF Fate, FateOf
      <4>2. Handed(i)'
        BY <2>0, <3>2, <3>4 DEF Handed
      <4>3. ASSUME NEW j \in Intents, Fate(j) \in {"offered", "blocked", "taken"} PROVE FALSE
        <5>1. j # i
          BY <4>1, <4>3
        <5>2. Handed(j)
          BY <1>0, <4>3 DEF Fate, FateOf, Handed, Taken, ProviderStates
        <5>3. Handed(j)'
          BY <1>0, <2>0, <2>2, <5>1, <5>2 DEF Handed
        <5> QED
          BY <3>2, <4>2, <5>1, <5>3 DEF OneHanded
      <4> QED
        BY <3>1, <3>2, <3>3, <4>1, <4>3, FateStep
    <3>5. CASE ~(prov[i] = "OPEN" /\ row[i] = "NONE")
      <4>1. Fate(i)' = Fate(i)
        BY <2>0, <3>2, <3>5 DEF Fate
      <4> QED
        BY <3>1, <3>2, <3>3, <4>1, FateStep
    <3> QED
      BY <3>4, <3>5
  <2> QED
    BY <1>3, <2>1, <2>2, <2>3 DEF InsertIntent
<1>4. CASE UpdatePaymentOnly(t) \/ Apply(t)
  <2> DEFINE e == task[t].event
  <2>1. e.kind \in EventKinds \ {"UNKNOWN"}
    BY <1>0, <1>4, EventTypes DEF UpdatePaymentOnly, Apply, At, AboutEvent, TaskRecords, WellFormed
  <2>2. StatusOf[e.kind] # "NONE"
    BY <2>1 DEF StatusOf, EventKinds, MoneyKinds
  <2>3. \A i \in Intents : row'[i] = "NONE" <=> row[i] = "NONE"
    BY <1>0, <1>4, <2>2 DEF UpdatePaymentOnly, Apply, RowsAfter, InFlight
  <2>4. prov' = prov
    BY <1>4 DEF UpdatePaymentOnly, Apply
  <2>5. Money' = Money
    BY <2>3, <2>4, FatesHold
  <2>6. StageMoves /\ NeverParked'
    <3>1. CASE order' = order
      BY <3>1 DEF StageMoves, Stage, NeverParked
    <3>2. CASE TransitionAccepted(order, OrderTarget(e.kind)) /\ order' = OrderTarget(e.kind)
      BY <3>2, StageFollows DEF OrderTarget
    <3> QED
      BY <1>4, <3>1, <3>2 DEF UpdatePaymentOnly, Apply, OrderMoves
  <2> QED
    BY <2>4, <2>5, <2>6, OrderStep
<1>5. CASE WriteRefresh(t) \/ ExpireIntent(t) \/ WriteCapture(t)
  <2> DEFINE i == task[t].intent
  <2>1. row[i] # "NONE" /\ (WriteRefresh(t) \/ WriteCapture(t) => task[t].answer # "NONE")
    BY <1>0, <1>5 DEF WriteRefresh, ExpireIntent, WriteCapture, At, AboutIntent, Handler
  <2>2. row' = row \/ \E s : s # "NONE" /\ row' = [row EXCEPT ![i] = s]
    BY <1>5, <2>1 DEF WriteRefresh, ExpireIntent, WriteCapture
  <2>3. \A j \in Intents : row'[j] = "NONE" <=> row[j] = "NONE"
    BY <1>0, <2>1, <2>2
  <2>4. prov' = prov
    BY <1>5 DEF WriteRefresh, ExpireIntent, WriteCapture
  <2>5. Money' = Money
    BY <2>3, <2>4, FatesHold
  <2>6. StageMoves /\ NeverParked'
    <3>1. CASE order' = order
      BY <3>1 DEF StageMoves, Stage, NeverParked
    <3>2. CASE TransitionAccepted(order, "PAYMENT_EXPIRED") /\ order' = "PAYMENT_EXPIRED"
      BY <3>2, StageFollows
    <3> QED
      BY <1>5, <3>1, <3>2 DEF WriteRefresh, ExpireIntent, WriteCapture, OrderMoves
  <2> QED
    BY <2>4, <2>5, <2>6, OrderStep
<1>6. CASE AskCapture(t)
  <2>1. PICK ref \in Intents : ref = task[t].ref /\ ~Waiting /\ UNCHANGED <<order, row>>
    BY <1>0, <1>6 DEF AskCapture, At, AboutIntent, Handler, TaskRecords, WellFormed
  <2>2. UNCHANGED Stage /\ Stage # "waiting" /\ NeverParked'
    BY <2>1 DEF Stage, Waiting, NeverParked
  <2>3. CASE prov' = prov
    BY <1>1, <2>1, <2>3
  <2>4. ASSUME NEW to \in {"CAPTURED", "LAPSED"}, prov[ref] = "AUTHORIZED",
               prov' = [prov EXCEPT ![ref] = to]
        PROVE  [Promise!Next]_(Promise!vars)
    <3>1. Fate(ref) = "blocked" /\ Fate(ref)' \in {"taken", "released"}
      BY <1>0, <2>1, <2>4 DEF Fate, FateOf
    <3>2. \A j \in Intents : j # ref => Fate(j)' = Fate(j)
      BY <1>0, <2>1, <2>4 DEF Fate
    <3> QED
      BY <2>1, <2>2, <3>1, <3>2, FateStep
  <2> QED
    BY <1>6, <2>1, <2>2, <2>3, <2>4 DEF AskCapture
<1> QED
  BY <1>1, <1>2, <1>3, <1>4, <1>5, <1>6
     DEF ApiStep, WorkerStep, ApplyEventStep, StartIntent, ClaimWebhook, StartRefresh,
         AskRefresh, StartReconcile, StartExpiry, AskReconcile, StartCapture, ReadCapture,
         OpenCaptureItem, Decide, OpenReconciliation, FinishClaim, Crash

(* So is every step of the rest of the world.                              *)
LEMMA WorldImplements ==
  ASSUME TypeOK, ChargeInv, MoneyInv', NeverParked, Environment
  PROVE  [Promise!Next]_(Promise!vars) /\ NeverParked'
<1> USE DEF ChargeInv
<1>0. prov \in [Intents -> ProviderStates]
  BY DEF TypeOK
<1>1. ASSUME NEW i \in Intents, NEW to, UNCHANGED <<order, row>>, prov' = [prov EXCEPT ![i] = to],
             \/ prov[i] = "OPEN" /\ row[i] # "NONE" /\ to \in Taken
             \/ prov[i] = "AUTHORIZED" /\ to = "CAPTURED"
             \/ prov[i] = "AUTHORIZED" /\ to = "LAPSED" /\ Stage # "waiting"
             \/ prov[i] = "OPEN" /\ to = "EXPIRED"
      PROVE  [Promise!Next]_(Promise!vars) /\ NeverParked'
  <2>1. UNCHANGED Stage /\ NeverParked'
    BY <1>1 DEF Stage, NeverParked
  <2>2. \A j \in Intents : j # i => Fate(j)' = Fate(j)
    BY <1>0, <1>1 DEF Fate
  <2>3. \/ Fate(i) = "offered" /\ Fate(i)' \in {"blocked", "taken"}
        \/ Fate(i) = "blocked" /\ Fate(i)' = "taken"
        \/ Fate(i) = "blocked" /\ Fate(i)' = "released" /\ Stage # "waiting"
        \/ Fate(i) \in {"none", "offered"} /\ Fate(i)' = "ended"
    BY <1>0, <1>1 DEF Fate, FateOf, Taken
  <2> QED
    BY <2>1, <2>2, <2>3, FateStep
<1>2. ASSUME UNCHANGED <<row, prov>>, StageMoves, NeverParked'
      PROVE  [Promise!Next]_(Promise!vars)
  BY <1>2, FatesHold, OrderStep
<1>3. ASSUME NEW i \in Intents,
             CustomerPays(i) \/ ProviderCaptures(i) \/ ProviderExpires(i) \/ BlockLapses(i)
      PROVE  [Promise!Next]_(Promise!vars) /\ NeverParked'
  BY <1>1, <1>3
     DEF CustomerPays, ProviderCaptures, ProviderExpires, BlockLapses, Taken, Stage,
         InKitchen, Committed
<1>4. CASE \/ \E e \in WebhookEvents : ProviderNotifies(e)
           \/ \E i \in Intents : Lapse(i)
  <2>1. UNCHANGED <<order, row, prov>>
    BY <1>4 DEF ProviderNotifies, Lapse
  <2> QED
    BY <1>2, <2>1 DEF StageMoves, Stage, NeverParked
<1>5. CASE CancelOrder
  <2>1. StageMoves /\ NeverParked' /\ UNCHANGED <<row, prov>>
    BY <1>5 DEF CancelOrder, StageMoves, Stage, NeverParked, Cancellable, AwaitingPayment,
                InKitchen, Committed
  <2> QED
    BY <1>2, <2>1
<1>6. ASSUME NEW to \in Statuses, KitchenMoves(to)
      PROVE  [Promise!Next]_(Promise!vars) /\ NeverParked'
  <2>1. StageMoves /\ NeverParked' /\ UNCHANGED <<row, prov>>
    BY <1>6, ConfigAssumption
       DEF KitchenMoves, StageMoves, Stage, NeverParked, AwaitingPayment, InKitchen, Committed
  <2> QED
    BY <1>2, <2>1
<1> QED
  BY <1>3, <1>4, <1>5, <1>6 DEF Environment

(* The engine implements Checkout: whatever its handlers interleave to,    *)
(* checkouts are offered one at a time, an order leaves its wait for a     *)
(* kitchen only while its money is there, and never comes back to it.      *)
THEOREM Implements == Spec => ImplementsCheckout
<1>1. Init => Promise!Init /\ NeverParked
  BY DEF Init, Promise!Init, Stage, Fate, FateOf, NeverParked, AwaitingPayment
<1>2. TypeOK /\ ChargeInv /\ ChargeInv' /\ MoneyInv' /\ NeverParked /\ [Next]_vars
        => [Promise!Next]_(Promise!vars) /\ NeverParked'
  <2> SUFFICES ASSUME TypeOK, ChargeInv, ChargeInv', MoneyInv', NeverParked, [Next]_vars
               PROVE  [Promise!Next]_(Promise!vars) /\ NeverParked'
    OBVIOUS
  <2>1. CASE UNCHANGED vars
    <3>1. StageMoves /\ NeverParked' /\ UNCHANGED <<row, prov>>
      BY <2>1 DEF vars, StageMoves, Stage, NeverParked
    <3> QED
      BY <3>1, FatesHold, OrderStep DEF ChargeInv
  <2> QED
    BY <2>1, HandlerImplements, WorldImplements DEF Next, Tasks
<1> QED
  BY <1>1, <1>2, TypeCorrect, ChargeInvariant, MoneyIsTrue, PTL DEF Spec, ImplementsCheckout, Promise!Spec
=============================================================================
