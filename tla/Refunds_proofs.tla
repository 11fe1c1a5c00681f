--------------------------- MODULE Refunds_proofs ---------------------------
(***************************************************************************)
(* Proofs about Refunds, for every number of orders, workers and attempts. *)
(***************************************************************************)
EXTENDS Refunds, TLAPS

(* A worker that is about to call the provider, or has called it, has a    *)
(* refund in hand; one that records has an answer.                         *)
HandsFull ==
  \A w \in Workers :
    /\ worker[w].pc \in {"call", "record"} => worker[w].hand \in Orders
    /\ worker[w].pc = "record" => worker[w].answer \in Outcomes

Steps == {"idle", "initiate", "attempt", "call", "record"}
WorkerRecords ==
  [pc : Steps, todo : SUBSET Orders, hand : Orders \cup {NoOrder}, tries : Nat,
   answer : Outcomes \cup {"none"}]

(* What a worker's own record may become, and what it keeps of the rest.   *)
LEMMA WorkerUpdates ==
  ASSUME worker \in [Workers -> WorkerRecords], HandsFull, NEW w \in Workers
  PROVE  /\ worker[w] \in WorkerRecords
         /\ Idle \in WorkerRecords
         /\ \A r \in WorkerRecords :
              /\ r.pc \in {"call", "record"} => r.hand \in Orders
              /\ r.pc = "record" => r.answer \in Outcomes
              /\ Become(w, r)
              => worker' \in [Workers -> WorkerRecords] /\ HandsFull'
         /\ \A pc \in {"initiate", "attempt"}, left \in SUBSET Orders :
              Continue(w, pc, left) => worker' \in [Workers -> WorkerRecords] /\ HandsFull'
         /\ Become(w, Idle) => worker' \in [Workers -> WorkerRecords] /\ HandsFull'
         /\ worker' = worker => worker' \in [Workers -> WorkerRecords] /\ HandsFull'
<1>1. Idle \in WorkerRecords /\ Idle.pc = "idle"
  BY DEF Idle, WorkerRecords, Steps
<1>2. ASSUME NEW r \in WorkerRecords, r.pc \in {"call", "record"} => r.hand \in Orders,
             r.pc = "record" => r.answer \in Outcomes, Become(w, r)
      PROVE  worker' \in [Workers -> WorkerRecords] /\ HandsFull'
  BY <1>2 DEF Become, HandsFull
<1>3. ASSUME NEW pc \in {"initiate", "attempt"}, NEW left \in SUBSET Orders,
             Continue(w, pc, left)
      PROVE  worker' \in [Workers -> WorkerRecords] /\ HandsFull'
  <2>1. /\ [Idle EXCEPT !.pc = pc, !.todo = left] \in WorkerRecords
        /\ [Idle EXCEPT !.pc = pc, !.todo = left].pc = pc
    BY DEF Idle, WorkerRecords, Steps
  <2> QED
    BY <1>1, <1>2, <1>3, <2>1 DEF Continue
<1>4. worker' = worker => HandsFull'
  BY DEF HandsFull
<1> QED
  BY <1>1, <1>2, <1>3, <1>4

(* Type correctness, with what workers have in hand.                       *)
LEMMA Typing == Spec => [](TypeOK /\ HandsFull)
<1>1. Init => TypeOK /\ HandsFull
  BY LimitsAssumption
     DEF Init, TypeOK, HandsFull, Idle, Statuses, RefundStatuses, Timers, Outcomes
<1>2. TypeOK /\ HandsFull /\ [Next]_vars => TypeOK' /\ HandsFull'
  <2> SUFFICES ASSUME TypeOK, HandsFull, [Next]_vars PROVE TypeOK' /\ HandsFull'
    OBVIOUS
  <2>0. worker \in [Workers -> WorkerRecords]
    BY DEF TypeOK, WorkerRecords, Steps
  <2>a. worker' \in [Workers -> WorkerRecords]
          => worker' \in [Workers -> [pc : {"idle", "initiate", "attempt", "call", "record"},
                             todo : SUBSET Orders, hand : Orders \cup {NoOrder},
                             tries : Nat, answer : Outcomes \cup {"none"}]]
    BY DEF WorkerRecords, Steps
  <2>1. ASSUME NEW w \in Workers, ClaimRefundable(w) PROVE TypeOK' /\ HandsFull'
    <3>1. \A s \in SUBSET Orders :
            /\ [Idle EXCEPT !.pc = "initiate", !.todo = s] \in WorkerRecords
            /\ [Idle EXCEPT !.pc = "initiate", !.todo = s].pc = "initiate"
      BY DEF Idle, WorkerRecords, Steps
    <3>2. worker' \in [Workers -> WorkerRecords] /\ HandsFull'
      BY <2>0, <2>1, <3>1, WorkerUpdates DEF ClaimRefundable
    <3> QED
      BY <2>1, <2>a, <3>2 DEF ClaimRefundable, TypeOK, row, provider
  <2>2. ASSUME NEW w \in Workers, ClaimDue(w) PROVE TypeOK' /\ HandsFull'
    <3>1. \A s \in SUBSET Orders :
            /\ [Idle EXCEPT !.pc = "attempt", !.todo = s] \in WorkerRecords
            /\ [Idle EXCEPT !.pc = "attempt", !.todo = s].pc = "attempt"
      BY DEF Idle, WorkerRecords, Steps
    <3>2. worker' \in [Workers -> WorkerRecords] /\ HandsFull'
      BY <2>0, <2>2, <3>1, WorkerUpdates DEF ClaimDue
    <3> QED
      BY <2>2, <2>a, <3>2 DEF ClaimDue, TypeOK, row, provider
  <2>3. ASSUME NEW w \in Workers, Initiate(w) PROVE TypeOK' /\ HandsFull'
    <3>1. PICK o \in worker[w].todo :
            LET owed == /\ status[o] \in RefundableFrom
                        /\ opened[o] = 0
                        /\ payment[o] \in RefundablePayment
            IN  /\ IF owed /\ o \in Mispriced
                     THEN Become(w, Idle)
                     ELSE Continue(w, "initiate", worker[w].todo \ {o})
                /\ IF owed /\ o \notin Mispriced
                     THEN OpenRefund(o)
                     ELSE UNCHANGED <<status, row>>
      BY <2>3 DEF Initiate
    <3>2. o \in Orders /\ worker[w].todo \ {o} \in SUBSET Orders
      BY <2>0, <2>3, WorkerUpdates DEF WorkerRecords
    <3>3. worker' \in [Workers -> WorkerRecords] /\ HandsFull'
      BY <2>0, <3>1, <3>2, WorkerUpdates
    <3>4. OpenRefund(o) => TypeOK'
      BY <2>3, <2>a, <3>2, <3>3
         DEF OpenRefund, Initiate, TypeOK, provider, RefundStatuses, Timers, Statuses
    <3>5. UNCHANGED <<status, row>> => TypeOK'
      BY <2>3, <2>a, <3>3 DEF Initiate, TypeOK, provider, row
    <3> QED
      BY <3>1, <3>3, <3>4, <3>5
  <2>4. ASSUME NEW w \in Workers, Attempt(w) PROVE TypeOK' /\ HandsFull'
    <3>1. PICK o \in worker[w].todo :
            LET left == worker[w].todo \ {o}
            IN  \/ /\ o \in VendorDirect
                   /\ timer' = [timer EXCEPT ![o] = "null"]
                   /\ Continue(w, "attempt", left)
                \/ /\ o \notin VendorDirect
                   /\ Become(w, [pc |-> "call", todo |-> left, hand |-> o,
                                 tries |-> attempts[o], answer |-> "none"])
                   /\ timer' = timer
      BY <2>4 DEF Attempt
    <3>2. o \in Orders /\ worker[w].todo \ {o} \in SUBSET Orders
      BY <2>0, <2>4, WorkerUpdates DEF WorkerRecords
    <3>3. [pc |-> "call", todo |-> worker[w].todo \ {o}, hand |-> o,
           tries |-> attempts[o], answer |-> "none"] \in WorkerRecords
      BY <3>2 DEF WorkerRecords, Steps, TypeOK
    <3>4. worker' \in [Workers -> WorkerRecords] /\ HandsFull'
      BY <2>0, <3>1, <3>2, <3>3, WorkerUpdates
    <3>5. timer' \in [Orders -> Timers]
      BY <3>1, <3>2 DEF TypeOK, Timers
    <3> QED
      BY <2>4, <2>a, <3>4, <3>5 DEF Attempt, TypeOK, provider
  <2>5. ASSUME NEW w \in Workers, Call(w) PROVE TypeOK' /\ HandsFull'
    <3>1. worker[w].hand \in Orders
      BY <2>5 DEF HandsFull, Call, At
    <3>2. \A s \in Outcomes :
            /\ [worker[w] EXCEPT !.pc = "record", !.answer = s] \in WorkerRecords
            /\ [worker[w] EXCEPT !.pc = "record", !.answer = s].hand \in Orders
            /\ [worker[w] EXCEPT !.pc = "record", !.answer = s].answer \in Outcomes
      BY <2>0, <3>1, WorkerUpdates DEF WorkerRecords, Steps
    <3>3. PICK s \in Outcomes : Answered(w, s)
      BY <2>5 DEF Call, Outcomes
    <3>4. worker' \in [Workers -> WorkerRecords] /\ HandsFull'
      BY <2>0, <3>2, <3>3, WorkerUpdates DEF Answered
    <3>5. accepted' \subseteq Orders /\ returned' \subseteq Orders
      BY <2>5, <3>1 DEF Call, TypeOK
    <3> QED
      BY <2>5, <2>a, <3>4, <3>5 DEF Call, TypeOK, row
  <2>6. ASSUME NEW w \in Workers, Record(w) PROVE TypeOK' /\ HandsFull'
    <3> DEFINE o == worker[w].hand
               answer == worker[w].answer
               number == worker[w].tries + 1
    <3>1. /\ o \in Orders /\ answer \in Outcomes /\ number \in Nat
          /\ worker[w].todo \in SUBSET Orders
      BY <2>0, <2>6, WorkerUpdates DEF HandsFull, Record, At, WorkerRecords
    <3>2. CASE Become(w, Idle) /\ UNCHANGED <<status, payment, row>>
      <4>1. worker' \in [Workers -> WorkerRecords] /\ HandsFull'
        BY <2>0, <3>2, WorkerUpdates
      <4> QED
        BY <2>6, <2>a, <3>2, <4>1 DEF Record, TypeOK, row, provider
    <3>3. CASE /\ refund' = [refund EXCEPT ![o] = answer]
               /\ attempts' = [attempts EXCEPT ![o] = number]
               /\ \E s \in Timers : timer' = [timer EXCEPT ![o] = s]
               /\ status' \in {status, [status EXCEPT ![o] = "REFUNDED"]}
               /\ payment' \in {payment, [payment EXCEPT ![o] = "REFUNDED"]}
               /\ opened' = opened
               /\ Continue(w, "attempt", worker[w].todo)
      <4>1. worker' \in [Workers -> WorkerRecords] /\ HandsFull'
        BY <2>0, <3>1, <3>3, WorkerUpdates
      <4>2. refund' \in [Orders -> RefundStatuses] /\ timer' \in [Orders -> Timers]
        BY <3>1, <3>3 DEF TypeOK, Outcomes, RefundStatuses
      <4>3. status' \in [Orders -> Statuses]
        BY <3>1, <3>3 DEF TypeOK, Statuses
      <4> QED
        BY <2>6, <2>a, <3>1, <3>3, <4>1, <4>2, <4>3 DEF Record, TypeOK, provider
    <3> QED
      BY <2>6, <3>2, <3>3 DEF Record, Timers
  <2>7. ASSUME NEW o \in Orders, ProviderReturns(o) PROVE TypeOK' /\ HandsFull'
    BY <2>7 DEF ProviderReturns, TypeOK, HandsFull, row
  <2>8. ASSUME NEW o \in Orders, NEW n \in Notices, ProviderNotifies(o, n)
        PROVE  TypeOK' /\ HandsFull'
    BY <2>8, ConfigAssumption DEF ProviderNotifies, TypeOK, HandsFull, row
  <2>9. ASSUME NEW o \in Orders, NEW n \in Notices, ApplyRefundEvent(o, n)
        PROVE  TypeOK' /\ HandsFull'
    BY <2>9 DEF ApplyRefundEvent, RefundEventMoves, TypeOK, HandsFull, row, provider, Statuses
  <2>10. ASSUME NEW o \in Orders, Capture(o) PROVE TypeOK' /\ HandsFull'
    BY <2>10 DEF Capture, TypeOK, HandsFull, row, provider, Statuses
  <2>11. ASSUME NEW o \in Orders, Cancel(o) PROVE TypeOK' /\ HandsFull'
    BY <2>11 DEF Cancel, TypeOK, HandsFull, row, provider, Statuses
  <2>12. ASSUME NEW o \in Orders, NEW to \in Reach, OrderMoves(o, to)
         PROVE  TypeOK' /\ HandsFull'
    <3>1. to \in Statuses
      BY ConfigAssumption DEF InKitchen, Committed, Statuses
    <3> QED
      BY <2>12, <3>1 DEF OrderMoves, TypeOK, HandsFull, row, provider
  <2>13. ASSUME NEW o \in Orders, TimePasses(o) PROVE TypeOK' /\ HandsFull'
    BY <2>13 DEF TimePasses, TypeOK, HandsFull, provider, Timers
  <2>14. ASSUME NEW w \in Workers, Crash(w) PROVE TypeOK' /\ HandsFull'
    <3>1. worker' \in [Workers -> WorkerRecords] /\ HandsFull'
      BY <2>0, <2>14, WorkerUpdates DEF Crash
    <3>2. crashes' \in 0..MaxCrashes
      BY <2>14, LimitsAssumption DEF Crash, TypeOK
    <3> QED
      BY <2>14, <2>a, <3>1, <3>2 DEF Crash, TypeOK, row, provider
  <2>15. CASE UNCHANGED vars
    BY <2>15 DEF vars, TypeOK, HandsFull
  <2> QED
    BY <2>1, <2>2, <2>3, <2>4, <2>5, <2>6, <2>7, <2>8, <2>9, <2>10, <2>11, <2>12,
       <2>13, <2>14, <2>15 DEF Next, WorkerContinues
<1> QED
  BY <1>1, <1>2, PTL DEF Spec

(* Every variable of the refund engine keeps its type: two replicas, a     *)
(* crash or a late notification never write a value the schema refuses.    *)
THEOREM RefundTypes == Spec => []TypeOK
  BY Typing, PTL

-----------------------------------------------------------------------------
(* A refund row is counted only under the order's lock and only when there *)
(* was none.                                                               *)
LEMMA OpenedOnce ==
  ASSUME TypeOK, [Next]_vars
  PROVE  \/ opened' = opened
         \/ \E o \in Orders : /\ opened[o] = 0 /\ status[o] \in RefundableFrom
                              /\ OpenRefund(o)
<1>1. ASSUME NEW w \in Workers, Initiate(w)
      PROVE  \/ opened' = opened
             \/ \E o \in Orders : /\ opened[o] = 0 /\ status[o] \in RefundableFrom
                                  /\ OpenRefund(o)
  <2>1. worker[w].todo \in SUBSET Orders
    BY DEF TypeOK
  <2> QED
    BY <1>1, <2>1 DEF Initiate, row
<1>2. ASSUME NEW w \in Workers, Record(w) PROVE opened' = opened
  BY <1>2 DEF Record, row
<1> QED
  BY <1>1, <1>2
     DEF Next, vars, row, WorkerContinues, ClaimRefundable, ClaimDue, Attempt, Call, Crash,
         ProviderReturns, Capture, Cancel, TimePasses, ProviderNotifies,
         ApplyRefundEvent, OrderMoves

(* Two workers, a restart or a replayed tick never open two refunds for    *)
(* one order, because initiate asks again under the lock.                  *)
THEOREM OnlyOneRefund == Spec => []OneRefundPerOrder
<1>1. Init => OneRefundPerOrder
  BY DEF Init, OneRefundPerOrder
<1>2. TypeOK /\ OneRefundPerOrder /\ [Next]_vars => OneRefundPerOrder'
  BY OpenedOnce DEF OneRefundPerOrder, OpenRefund, TypeOK
<1> QED
  BY <1>1, <1>2, Typing, PTL DEF Spec

-----------------------------------------------------------------------------
(* Nobody gets both the food and the money.  The order of every refund     *)
(* that was opened is out of the reach of kitchens, and nothing is asked   *)
(* of the provider for a refund that was not opened.                       *)
Settling == {"REFUND_PENDING", "REFUNDED", "REFUND_FAILED"}
OpenedIsSettling == \A o \in Orders : opened[o] > 0 => status[o] \in Settling
AskedIsOpened ==
  /\ \A o \in Orders : refund[o] # "none" \/ o \in accepted \cup returned => opened[o] > 0
  /\ \A w \in Workers :
       /\ worker[w].pc \in {"attempt", "call", "record"} =>
            \A o \in worker[w].todo : opened[o] > 0
       /\ worker[w].pc \in {"call", "record"} => opened[worker[w].hand] > 0
FoodOrMoneyInv == OpenedIsSettling /\ AskedIsOpened

(* An order that settles goes on settling.                                 *)
LEMMA SettlingStays ==
  ASSUME TypeOK, HandsFull, [Next]_vars, NEW o \in Orders, status[o] \in Settling
  PROVE  status'[o] \in Settling
<1>1. ASSUME NEW w \in Workers, Initiate(w) PROVE status'[o] \in Settling
  <2>1. worker[w].todo \in SUBSET Orders
    BY DEF TypeOK
  <2> QED
    BY <1>1, <2>1 DEF Initiate, OpenRefund, Settling, TypeOK, row
<1>2. ASSUME NEW w \in Workers, Record(w) PROVE status'[o] \in Settling
  BY <1>2 DEF Record, Settling, TypeOK
<1>3. ASSUME NEW p \in Orders, NEW n \in Notices, ApplyRefundEvent(p, n)
      PROVE  status'[o] \in Settling
  BY <1>3 DEF ApplyRefundEvent, RefundEventMoves, Settling, TypeOK
<1>4. ASSUME NEW p \in Orders, Capture(p) \/ Cancel(p) PROVE status'[o] \in Settling
  BY <1>4 DEF Capture, Cancel, Cancellable, Settling, TypeOK
<1>5. ASSUME NEW p \in Orders, NEW to \in Reach, OrderMoves(p, to)
      PROVE  status'[o] \in Settling
  BY <1>5 DEF OrderMoves, InKitchen, Committed, Settling, TypeOK
<1> QED
  BY <1>1, <1>2, <1>3, <1>4, <1>5
     DEF Next, vars, WorkerContinues, ClaimRefundable, ClaimDue, Attempt, Call, Crash,
         ProviderReturns, TimePasses, ProviderNotifies

(* Opening a refund settles its order, and no row is ever closed.          *)
LEMMA OpenedSettles ==
  ASSUME TypeOK, HandsFull, OpenedIsSettling, [Next]_vars
  PROVE  /\ OpenedIsSettling'
         /\ \A o \in Orders : opened[o] > 0 => opened'[o] > 0
<1>1. CASE opened' = opened
  BY <1>1, SettlingStays DEF OpenedIsSettling
<1>2. ASSUME NEW o \in Orders, opened[o] = 0, OpenRefund(o)
      PROVE  OpenedIsSettling' /\ \A p \in Orders : opened[p] > 0 => opened'[p] > 0
  <2>1. \A p \in Orders : p # o => opened'[p] = opened[p] /\ status'[p] = status[p]
    BY <1>2 DEF OpenRefund, TypeOK
  <2>2. status'[o] \in Settling
    BY <1>2 DEF OpenRefund, Settling, TypeOK
  <2> QED
    BY <1>2, <2>1, <2>2 DEF OpenedIsSettling
<1> QED
  BY <1>1, <1>2, OpenedOnce

THEOREM FoodOrMoney == Spec => []NoFoodAndMoney
<1>1. Init => FoodOrMoneyInv
  BY DEF Init, FoodOrMoneyInv, OpenedIsSettling, AskedIsOpened, Idle
<1>2. TypeOK /\ HandsFull /\ FoodOrMoneyInv /\ [Next]_vars => FoodOrMoneyInv'
  <2> SUFFICES ASSUME TypeOK, HandsFull, FoodOrMoneyInv, [Next]_vars PROVE AskedIsOpened'
    BY OpenedSettles DEF FoodOrMoneyInv
  <2>0. /\ \A o \in Orders : opened[o] > 0 => opened'[o] > 0
        /\ AskedIsOpened
        /\ worker \in [Workers -> WorkerRecords]
    BY OpenedSettles DEF FoodOrMoneyInv, TypeOK, WorkerRecords, Steps
  (* A worker that turns to something else keeps only what was opened.     *)
  <2> DEFINE Fine(r) ==
        /\ r.pc \in {"attempt", "call", "record"} =>
             \A o \in r.todo : o \in Orders /\ opened[o] > 0
        /\ r.pc \in {"call", "record"} => r.hand \in Orders /\ opened[r.hand] > 0
  <2>a. Fine(Idle)
    BY DEF Idle
  <2>b. \A w \in Workers : Fine(worker[w])
    BY <2>0 DEF AskedIsOpened, HandsFull, WorkerRecords
  <2>c. ASSUME NEW w \in Workers, NEW left, left \subseteq Orders,
               \A o \in left : opened[o] > 0, Continue(w, "attempt", left)
        PROVE  \E r : Become(w, r) /\ Fine(r)
    <3>1. Fine([Idle EXCEPT !.pc = "attempt", !.todo = left])
      BY <2>c DEF Idle
    <3> QED
      BY <2>a, <2>c, <3>1 DEF Continue
  <2>d. ASSUME NEW w \in Workers, NEW r, Become(w, r), Fine(r),
               \A o \in Orders : refund'[o] # "none" \/ o \in accepted' \cup returned'
                                  => opened'[o] > 0
        PROVE  AskedIsOpened'
    <3>1. worker'[w] = r /\ \A u \in Workers : u # w => worker'[u] = worker[u]
      BY <2>0, <2>d DEF Become
    <3>2. \A u \in Workers : Fine(worker'[u])
      BY <2>b, <2>d, <3>1
    <3> QED
      BY <2>0, <2>d, <3>2 DEF AskedIsOpened
  <2>1. ASSUME NEW w \in Workers, ClaimRefundable(w) PROVE AskedIsOpened'
    <3>1. \A s : Fine([Idle EXCEPT !.pc = "initiate", !.todo = s])
      BY DEF Idle
    <3> QED
      BY <2>0, <2>1, <2>d, <3>1 DEF ClaimRefundable, AskedIsOpened, row, provider
  <2>2. ASSUME NEW w \in Workers, ClaimDue(w) PROVE AskedIsOpened'
    <3> DEFINE due == {o \in Orders : /\ refund[o] \in {"REQUESTED", "PENDING", "FAILED"}
                                      /\ timer[o] = "passed"
                                      /\ attempts[o] < MaxAttempts}
    <3>1. \A o \in due : o \in Orders /\ opened[o] > 0
      BY <2>0 DEF AskedIsOpened
    <3>2. Fine([Idle EXCEPT !.pc = "attempt", !.todo = due])
      BY <3>1 DEF Idle
    <3> QED
      BY <2>0, <2>2, <2>d, <3>2 DEF ClaimDue, AskedIsOpened, row, provider
  <2>3. ASSUME NEW w \in Workers, Initiate(w) PROVE AskedIsOpened'
    <3>1. PICK o \in worker[w].todo :
            LET owed == /\ status[o] \in RefundableFrom
                        /\ opened[o] = 0
                        /\ payment[o] \in RefundablePayment
            IN  /\ IF owed /\ o \in Mispriced
                     THEN Become(w, Idle)
                     ELSE Continue(w, "initiate", worker[w].todo \ {o})
                /\ IF owed /\ o \notin Mispriced
                     THEN OpenRefund(o)
                     ELSE UNCHANGED <<status, row>>
      BY <2>3 DEF Initiate
    <3>2. o \in Orders
      BY <2>0, <2>3 DEF WorkerRecords
    <3>3. \A s : Fine([Idle EXCEPT !.pc = "initiate", !.todo = s])
      BY DEF Idle
    <3>4. \E r : Become(w, r) /\ Fine(r)
      BY <2>a, <3>1, <3>3 DEF Continue
    <3>5. OpenRefund(o) => \A p \in Orders : refund'[p] = refund[p] \/ opened'[p] > 0
      BY <3>2 DEF OpenRefund, TypeOK
    <3>6. \A p \in Orders : refund'[p] # "none" \/ p \in accepted' \cup returned'
                               => opened'[p] > 0
      BY <2>0, <2>3, <3>1, <3>5 DEF Initiate, AskedIsOpened, row, provider
    <3> QED
      BY <2>d, <3>4, <3>6
  <2>4. ASSUME NEW w \in Workers, Attempt(w) PROVE AskedIsOpened'
    <3>1. \A o \in worker[w].todo : o \in Orders /\ opened[o] > 0
      BY <2>b, <2>4 DEF Attempt, At
    <3>2. PICK o \in worker[w].todo :
            \/ Continue(w, "attempt", worker[w].todo \ {o})
            \/ Become(w, [pc |-> "call", todo |-> worker[w].todo \ {o}, hand |-> o,
                          tries |-> attempts[o], answer |-> "none"])
      BY <2>4 DEF Attempt
    <3>3. \E r : Become(w, r) /\ Fine(r)
      BY <2>c, <3>1, <3>2
    <3> QED
      BY <2>0, <2>4, <2>d, <3>3 DEF Attempt, AskedIsOpened, provider
  <2>5. ASSUME NEW w \in Workers, Call(w) PROVE AskedIsOpened'
    <3>1. worker[w].hand \in Orders /\ opened[worker[w].hand] > 0
      BY <2>b, <2>5 DEF Call, At
    <3>2. ASSUME NEW s \in Outcomes PROVE Fine([worker[w] EXCEPT !.pc = "record", !.answer = s])
      <4>1. LET r == [worker[w] EXCEPT !.pc = "record", !.answer = s]
            IN  r.todo = worker[w].todo /\ r.hand = worker[w].hand
        BY <2>0 DEF WorkerRecords
      <4>2. Fine(worker[w]) /\ worker[w].pc = "call"
        BY <2>b, <2>5 DEF Call, At
      <4> QED
        BY <4>1, <4>2
    <3>3. PICK s \in Outcomes : Answered(w, s)
      BY <2>5 DEF Call, Outcomes
    <3>4. \A o \in Orders : refund'[o] # "none" \/ o \in accepted' \cup returned'
                               => opened'[o] > 0
      BY <2>0, <2>5, <3>1 DEF Call, AskedIsOpened, row
    <3> QED
      BY <2>d, <3>2, <3>3, <3>4 DEF Answered
  <2>6. ASSUME NEW w \in Workers, Record(w) PROVE AskedIsOpened'
    <3>1. /\ worker[w].hand \in Orders /\ opened[worker[w].hand] > 0
          /\ \A o \in worker[w].todo : o \in Orders /\ opened[o] > 0
      BY <2>b, <2>6 DEF Record, At
    <3>2. \/ Become(w, Idle) /\ refund' = refund
          \/ /\ Continue(w, "attempt", worker[w].todo)
             /\ refund' = [refund EXCEPT ![worker[w].hand] = worker[w].answer]
      BY <2>6 DEF Record, row
    <3>3. \E r : Become(w, r) /\ Fine(r)
      BY <2>a, <2>c, <3>1, <3>2
    <3>4. \A o \in Orders : refund'[o] # "none" \/ o \in accepted' \cup returned'
                               => opened'[o] > 0
      BY <2>0, <2>6, <3>1, <3>2 DEF Record, AskedIsOpened, provider, TypeOK
    <3> QED
      BY <2>d, <3>3, <3>4
  <2>7. ASSUME NEW w \in Workers, Crash(w) PROVE AskedIsOpened'
    BY <2>0, <2>7, <2>a, <2>d DEF Crash, AskedIsOpened, row, provider
  <2>8. ASSUME NEW o \in Orders, ProviderReturns(o) PROVE AskedIsOpened'
    BY <2>0, <2>8 DEF ProviderReturns, AskedIsOpened, row
  <2>9. ASSUME NEW o \in Orders, NEW n \in Notices, ProviderNotifies(o, n)
        PROVE  AskedIsOpened'
    BY <2>0, <2>9 DEF ProviderNotifies, AskedIsOpened, row
  <2>10. CASE UNCHANGED <<opened, refund, accepted, returned, worker>>
    BY <2>0, <2>10 DEF AskedIsOpened
  <2> QED
    BY <2>1, <2>2, <2>3, <2>4, <2>5, <2>6, <2>7, <2>8, <2>9, <2>10
       DEF Next, vars, row, provider, WorkerContinues, ApplyRefundEvent,
           Capture, Cancel, OrderMoves, TimePasses
<1>3. TypeOK /\ FoodOrMoneyInv => NoFoodAndMoney
  BY DEF TypeOK, FoodOrMoneyInv, OpenedIsSettling, AskedIsOpened, NoFoodAndMoney, Settling
<1> QED
  BY <1>1, <1>2, <1>3, Typing, PTL DEF Spec

-----------------------------------------------------------------------------
(* REFUNDED is only said of money that was sent back.  With the Cashfree   *)
(* adapter it is not true: it reads every refund notification as a         *)
(* success, so the theorem is about the provider that does not.            *)
ReportsAreTrue ==
  /\ \A o \in Orders : "returned" \in notice[o] => o \in returned
  /\ \A w \in Workers :
       worker[w].pc = "record" /\ worker[w].answer = "SUCCEEDED" =>
         worker[w].hand \in returned
RefundedInv == RefundedIsReturned /\ ReportsAreTrue

THEOREM RefundedMeansReturned ==
  ASSUME Provider = "stub" PROVE Spec => []RefundedIsReturned
<1>1. Init => RefundedInv
  BY DEF Init, RefundedInv, RefundedIsReturned, ReportsAreTrue, Idle
<1>2. TypeOK /\ HandsFull /\ RefundedInv /\ [Next]_vars => RefundedInv'
  <2> SUFFICES ASSUME TypeOK, HandsFull, RefundedInv, [Next]_vars PROVE RefundedInv'
    OBVIOUS
  <2>0. RefundedIsReturned /\ ReportsAreTrue /\ worker \in [Workers -> WorkerRecords]
    BY DEF RefundedInv, TypeOK, WorkerRecords, Steps
  <2>a. Idle.pc = "idle"
    BY DEF Idle
  (* A worker that stops recording owes no explanation.                    *)
  <2>b. ASSUME NEW w \in Workers, NEW r, Become(w, r), r.pc # "record",
               returned' = returned, notice' = notice
        PROVE  ReportsAreTrue'
    <3>1. worker'[w] = r /\ \A u \in Workers : u # w => worker'[u] = worker[u]
      BY <2>0, <2>b DEF Become
    <3> QED
      BY <2>0, <2>b, <3>1 DEF ReportsAreTrue
  <2>c. ASSUME NEW w \in Workers, NEW pc, pc # "record", NEW left, Continue(w, pc, left)
        PROVE  \E r : Become(w, r) /\ r.pc # "record"
    <3>1. [Idle EXCEPT !.pc = pc, !.todo = left].pc = pc
      BY DEF Idle
    <3> QED
      BY <2>a, <2>c, <3>1 DEF Continue
  <2>1. ASSUME NEW w \in Workers, ClaimRefundable(w) \/ ClaimDue(w) PROVE RefundedInv'
    <3>1. \A pc, s : [Idle EXCEPT !.pc = pc, !.todo = s].pc = pc
      BY DEF Idle
    <3>2. ReportsAreTrue'
      BY <2>1, <2>b, <3>1 DEF ClaimRefundable, ClaimDue, provider
    <3> QED
      BY <2>0, <2>1, <3>2
         DEF ClaimRefundable, ClaimDue, provider, RefundedInv, RefundedIsReturned
  <2>2. ASSUME NEW w \in Workers, Initiate(w) PROVE RefundedInv'
    <3>1. \E r : Become(w, r) /\ r.pc # "record"
      BY <2>2, <2>a, <2>c DEF Initiate
    <3>2. worker[w].todo \subseteq Orders
      BY <2>0 DEF WorkerRecords
    <3>3. \A o \in Orders : status'[o] = "REFUNDED" => status[o] = "REFUNDED"
      BY <2>2, <3>2 DEF Initiate, OpenRefund, TypeOK
    <3> QED
      BY <2>0, <2>2, <2>b, <3>1, <3>3 DEF Initiate, provider, RefundedInv, RefundedIsReturned
  <2>3. ASSUME NEW w \in Workers, Attempt(w) PROVE RefundedInv'
    <3>1. \E r : Become(w, r) /\ r.pc # "record"
      BY <2>3, <2>c DEF Attempt
    <3> QED
      BY <2>0, <2>3, <2>b, <3>1 DEF Attempt, provider, RefundedInv, RefundedIsReturned
  <2>4. ASSUME NEW w \in Workers, Call(w) PROVE RefundedInv'
    <3>1. PICK s \in Outcomes :
            /\ Answered(w, s)
            /\ returned \subseteq returned'
            /\ s = "SUCCEEDED" => worker[w].hand \in returned'
      BY <2>4 DEF Call, Outcomes
    <3> DEFINE r == [worker[w] EXCEPT !.pc = "record", !.answer = s]
    <3>2. /\ worker'[w] = r /\ r.hand = worker[w].hand /\ r.answer = s
          /\ \A u \in Workers : u # w => worker'[u] = worker[u]
      BY <2>0, <3>1 DEF Answered, Become, WorkerRecords
    <3> HIDE DEF r
    <3> QED
      BY <2>0, <2>4, <3>1, <3>2 DEF Call, RefundedInv, RefundedIsReturned, ReportsAreTrue
  <2>5. ASSUME NEW w \in Workers, Record(w) PROVE RefundedInv'
    <3>1. \E r : Become(w, r) /\ r.pc # "record"
      BY <2>5, <2>a, <2>c DEF Record
    <3>2. status' # status => worker[w].answer = "SUCCEEDED"
      BY <2>5 DEF Record, NextAction
    <3>3. status' \in {status, [status EXCEPT ![worker[w].hand] = "REFUNDED"]}
      BY <2>5 DEF Record
    <3>4. status' # status => worker[w].hand \in returned
      BY <2>0, <2>5, <3>2 DEF ReportsAreTrue, Record, At
    <3>5. \A o \in Orders : status'[o] = "REFUNDED" => o \in returned
      BY <2>0, <3>3, <3>4 DEF RefundedIsReturned, TypeOK
    <3> QED
      BY <2>5, <2>b, <3>1, <3>5 DEF Record, provider, RefundedInv, RefundedIsReturned
  <2>6. ASSUME NEW w \in Workers, Crash(w) PROVE RefundedInv'
    BY <2>0, <2>6, <2>a, <2>b DEF Crash, provider, RefundedInv, RefundedIsReturned
  <2>7. ASSUME NEW o \in Orders, ProviderReturns(o) PROVE RefundedInv'
    BY <2>0, <2>7 DEF ProviderReturns, RefundedInv, RefundedIsReturned, ReportsAreTrue
  <2>8. ASSUME NEW o \in Orders, NEW n \in Notices, ProviderNotifies(o, n) PROVE RefundedInv'
    BY <2>0, <2>8 DEF ProviderNotifies, RefundedInv, RefundedIsReturned, ReportsAreTrue, TypeOK
  <2>9. ASSUME NEW o \in Orders, NEW n \in Notices, ApplyRefundEvent(o, n) PROVE RefundedInv'
    <3>1. status'[o] = "REFUNDED" => o \in returned
      BY <2>0, <2>9, Provider = "stub"
         DEF ApplyRefundEvent, RefundEventMoves, ReportsAreTrue, TypeOK
    <3> QED
      BY <2>0, <2>9, <3>1
         DEF ApplyRefundEvent, provider, RefundedInv, RefundedIsReturned, ReportsAreTrue, TypeOK
  <2>10. ASSUME NEW o \in Orders, Capture(o) \/ Cancel(o) \/ \E to \in Reach : OrderMoves(o, to)
         PROVE  RefundedInv'
    <3>1. "REFUNDED" \notin Reach
      BY ConfigAssumption DEF InKitchen, Committed
    <3>2. \A p \in Orders : status'[p] = "REFUNDED" => status[p] = "REFUNDED"
      BY <2>10, <3>1 DEF Capture, Cancel, OrderMoves, TypeOK
    <3> QED
      BY <2>0, <2>10, <3>2
         DEF Capture, Cancel, OrderMoves, provider, RefundedInv, RefundedIsReturned,
             ReportsAreTrue
  <2>11. CASE UNCHANGED <<status, returned, notice, worker>>
    BY <2>0, <2>11 DEF RefundedInv, RefundedIsReturned, ReportsAreTrue
  <2> QED
    BY <2>1, <2>2, <2>3, <2>4, <2>5, <2>6, <2>7, <2>8, <2>9, <2>10, <2>11
       DEF Next, vars, provider, WorkerContinues, TimePasses
<1>3. RefundedInv => RefundedIsReturned
  BY DEF RefundedInv
<1> QED
  BY <1>1, <1>2, <1>3, Typing, PTL DEF Spec

-----------------------------------------------------------------------------
(* A refund never silently stops being attempted: while the order waits    *)
(* for its money, the sweep will select its row when its time comes,       *)
(* whatever a replica with a stale row in hand records.                    *)
THEOREM RefundStaysScheduled == Spec => []PendingRefundIsScheduled
<1> DEFINE Scheduled(o) ==
      status[o] = "REFUND_PENDING" =>
        /\ refund[o] \in {"REQUESTED", "PENDING", "FAILED"}
        /\ attempts[o] < MaxAttempts
        /\ timer[o] # "null"
<1>1. Init => PendingRefundIsScheduled
  BY DEF Init, PendingRefundIsScheduled, Attempted
<1>2. TypeOK /\ HandsFull /\ PendingRefundIsScheduled /\ [Next]_vars
        => PendingRefundIsScheduled'
  <2> SUFFICES ASSUME TypeOK, HandsFull, [Next]_vars, NEW o \in Attempted, Scheduled(o)
               PROVE  Scheduled(o)'
    BY DEF PendingRefundIsScheduled
  <2>0. o \in Orders /\ o \notin VendorDirect
    BY DEF Attempted
  <2>1. ASSUME NEW w \in Workers, Initiate(w) PROVE Scheduled(o)'
    <3>1. worker[w].todo \subseteq Orders
      BY DEF TypeOK
    <3> QED
      BY <2>0, <2>1, <3>1, LimitsAssumption DEF Initiate, OpenRefund, TypeOK, row
  <2>2. ASSUME NEW w \in Workers, Attempt(w) PROVE Scheduled(o)'
    <3>1. timer'[o] = timer[o]
      BY <2>0, <2>2 DEF Attempt, TypeOK
    <3> QED
      BY <2>2, <3>1 DEF Attempt
  <2>3. ASSUME NEW w \in Workers, Record(w) PROVE Scheduled(o)'
    <3>1. worker[w].hand \in Orders /\ worker[w].answer \in Outcomes /\ worker[w].tries \in Nat
      BY <2>3 DEF HandsFull, Record, At, TypeOK
    <3>2. CASE worker[w].hand # o \/ UNCHANGED <<status, row>>
      BY <2>0, <2>3, <3>1, <3>2 DEF Record, row, TypeOK
    <3>3. CASE worker[w].hand = o /\ NextAction(worker[w].answer, worker[w].tries + 1) = "DONE"
      BY <2>0, <2>3, <3>3 DEF Record, row, TypeOK
    <3>4. CASE worker[w].hand = o /\ NextAction(worker[w].answer, worker[w].tries + 1) = "RETRY"
      <4>1. worker[w].answer \in {"PENDING", "FAILED"} /\ worker[w].tries + 1 < MaxAttempts
        BY <3>1, <3>4, LimitsAssumption DEF NextAction, Outcomes
      <4> QED
        BY <2>0, <2>3, <3>4, <4>1 DEF Record, row, TypeOK
    <3>5. CASE NextAction(worker[w].answer, worker[w].tries + 1) = "RECONCILE"
      BY <2>3, <3>2, <3>5 DEF Record
    <3> QED
      BY <3>2, <3>3, <3>4, <3>5 DEF NextAction
  <2>4. ASSUME NEW p \in Orders, NEW n \in Notices, ApplyRefundEvent(p, n) PROVE Scheduled(o)'
    BY <2>0, <2>4 DEF ApplyRefundEvent, RefundEventMoves, row, TypeOK
  <2>5. ASSUME NEW p \in Orders, Capture(p) \/ Cancel(p) PROVE Scheduled(o)'
    BY <2>0, <2>5 DEF Capture, Cancel, row, TypeOK
  <2>6. ASSUME NEW p \in Orders, NEW to \in Reach, OrderMoves(p, to) PROVE Scheduled(o)'
    <3>1. to # "REFUND_PENDING"
      BY ConfigAssumption DEF InKitchen, Committed
    <3> QED
      BY <2>0, <2>6, <3>1 DEF OrderMoves, row, TypeOK
  <2>7. ASSUME NEW p \in Orders, TimePasses(p) PROVE Scheduled(o)'
    BY <2>0, <2>7 DEF TimePasses, TypeOK
  <2>8. CASE UNCHANGED <<status, refund, attempts, timer>>
    BY <2>8
  <2> QED
    BY <2>1, <2>2, <2>3, <2>4, <2>5, <2>6, <2>7, <2>8
       DEF Next, vars, row, WorkerContinues, ClaimRefundable, ClaimDue, Call, Crash,
           ProviderReturns, ProviderNotifies
<1> QED
  BY <1>1, <1>2, Typing, PTL DEF Spec
=============================================================================
