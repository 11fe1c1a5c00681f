--------------------------- MODULE Dispatch_proofs ---------------------------
(***************************************************************************)
(* Proofs about Dispatch, for every number of orders, stalls and crashes,  *)
(* the first three for every number of replicas as well; and about what    *)
(* the kitchen's board does with a ticket, for any listeners and answers.  *)
(***************************************************************************)
EXTENDS Dispatch, Screens, TLAPS

WorkerRecords ==
  [pc : WorkerSteps, pending : SUBSET Orders, due : SUBSET Rows, stuck : SUBSET Vendors,
   row : Rows \cup {NoRow}]

(* A worker that handles a rung has its row in hand, and only rows below   *)
(* the fourth rung have one left to run.                                   *)
Rungs == {"retry", "block", "alert", "fail", "advance"}
InHand == Rungs \cup {"cancel", "check", "unblock"}
RowFits(r) ==
  /\ r.pc \in InHand => r.row \in Rows
  /\ r.pc \in Rungs => r.row.step < 4
HandsFit == \A w \in Workers : RowFits(worker[w])

(* What becomes of a worker's own record.                                  *)
LEMMA WorkerUpdates ==
  ASSUME worker \in [Workers -> WorkerRecords], HandsFit, NEW w \in Workers
  PROVE  /\ worker[w] \in WorkerRecords
         /\ Idle \in WorkerRecords /\ RowFits(Idle)
         /\ \A r \in WorkerRecords :
              RowFits(r) /\ Become(w, r) => worker' \in [Workers -> WorkerRecords] /\ HandsFit'
         /\ \A pc \in WorkerSteps :
              Goto(w, pc) /\ (pc \in InHand => worker[w].row \in Rows)
                          /\ (pc \in Rungs => worker[w].row.step < 4)
              => worker' \in [Workers -> WorkerRecords] /\ HandsFit'
         /\ Done(w) => worker' \in [Workers -> WorkerRecords] /\ HandsFit'
         /\ worker' = worker => worker' \in [Workers -> WorkerRecords] /\ HandsFit'
<1>1. worker[w] \in WorkerRecords
  OBVIOUS
<1>2. Idle \in WorkerRecords /\ RowFits(Idle)
  BY DEF Idle, WorkerRecords, WorkerSteps, RowFits, InHand, Rungs
<1>3. ASSUME NEW r \in WorkerRecords, RowFits(r), worker' = [worker EXCEPT ![w] = r]
      PROVE  worker' \in [Workers -> WorkerRecords] /\ HandsFit'
  BY <1>3 DEF HandsFit
<1>4. ASSUME NEW pc \in WorkerSteps, Goto(w, pc), pc \in InHand => worker[w].row \in Rows,
             pc \in Rungs => worker[w].row.step < 4
      PROVE  worker' \in [Workers -> WorkerRecords] /\ HandsFit'
  <2>1. worker' = [worker EXCEPT ![w] = [worker[w] EXCEPT !.pc = pc]]
    BY <1>4 DEF Goto
  <2>2. /\ [worker[w] EXCEPT !.pc = pc] \in WorkerRecords
        /\ RowFits([worker[w] EXCEPT !.pc = pc])
    BY <1>1, <1>4 DEF WorkerRecords, RowFits
  <2> QED
    BY <1>3, <2>1, <2>2
<1>5. ASSUME Done(w) PROVE worker' \in [Workers -> WorkerRecords] /\ HandsFit'
  <2>1. /\ [worker[w] EXCEPT !.pc = "ladder", !.row = NoRow] \in WorkerRecords
        /\ RowFits([worker[w] EXCEPT !.pc = "ladder", !.row = NoRow])
    BY <1>1 DEF WorkerRecords, WorkerSteps, RowFits, InHand, Rungs
  <2> QED
    BY <1>3, <1>5, <2>1 DEF Done, Become
<1>6. worker' = worker => HandsFit'
  BY DEF HandsFit
<1> QED
  BY <1>1, <1>2, <1>3, <1>4, <1>5, <1>6 DEF Become

LEMMA DispatchTypes ==
  ASSUME TypeOK, NEW o \in Orders, Dispatch(o)
  PROVE  /\ status' \in [Orders -> Statuses]
         /\ attempts' \in [Orders -> 0..MaxAttempts]
         /\ watch' \in [Orders -> WatchStates]
         /\ step' \in [Orders -> 0..4]
         /\ timer' \in [Orders -> Timers]
  BY BoundsAssumption DEF TypeOK, Dispatch, Statuses, WatchStates, Timers

LEMMA WatchTypes ==
  ASSUME TypeOK, NEW o \in Orders, CancelWatch(o)
  PROVE  watch' \in [Orders -> WatchStates] /\ timer' \in [Orders -> Timers]
  BY DEF TypeOK, CancelWatch, WatchStates, Timers

(* The rows a sweep selects, and the rung each leads to.                   *)
LEMMA RowTypes ==
  ASSUME TypeOK
  PROVE  /\ DueRows \subseteq Rows
         /\ \A r \in Rows : /\ Decision(r) \in {"retry", "block", "fail", "cancel"}
                            /\ Decision(r) # "cancel" => r.step < 4 /\ r.waiting
                            /\ Decision(r) = "retry" => r.step < 2
                            /\ Decision(r) = "block" => r.step = 2
                            /\ Decision(r) = "fail" => r.step = 3
<1>1. DueRows \subseteq Rows
  <2>1. ASSUME NEW o \in Orders
        PROVE  [order |-> o, step |-> step[o], waiting |-> status[o] = "DISPATCHED"] \in Rows
    <3>1. step[o] \in 0..4
      BY DEF TypeOK
    <3>2. (status[o] = "DISPATCHED") \in BOOLEAN
      OBVIOUS
    <3> DEFINE b == status[o] = "DISPATCHED"
    <3> HIDE DEF b
    <3>3. b \in BOOLEAN => [order |-> o, step |-> step[o], waiting |-> b] \in Rows
      BY <3>1 DEF Rows
    <3> QED
      BY <3>2, <3>3 DEF b
  <2> QED
    BY <2>1 DEF DueRows
<1>2. ASSUME NEW r \in Rows
      PROVE  /\ Decision(r) \in {"retry", "block", "fail", "cancel"}
             /\ Decision(r) # "cancel" => r.step < 4 /\ r.waiting
             /\ Decision(r) = "retry" => r.step < 2
             /\ Decision(r) = "block" => r.step = 2
             /\ Decision(r) = "fail" => r.step = 3
  <2>1. r.step \in 0..4
    BY DEF Rows
  <2> QED
    BY <2>1 DEF Decision, LadderAction
<1> QED
  BY <1>1, <1>2

(* Type correctness, with what workers have in hand.                       *)
LEMMA Typing == Spec => [](TypeOK /\ HandsFit)
<1>1. Init => TypeOK /\ HandsFit
  BY BoundsAssumption
     DEF Init, TypeOK, HandsFit, RowFits, InHand, Rungs, Idle, Statuses, WatchStates,
         Timers, AckSteps, WorkerSteps
<1>2. TypeOK /\ HandsFit /\ [Next]_vars => TypeOK' /\ HandsFit'
  <2> SUFFICES ASSUME TypeOK, HandsFit, [Next]_vars PROVE TypeOK' /\ HandsFit'
    OBVIOUS
  <2>0. worker \in [Workers -> WorkerRecords]
    BY DEF TypeOK, WorkerRecords
  <2>a. worker' \in [Workers -> WorkerRecords]
          => worker' \in [Workers -> [pc : WorkerSteps, pending : SUBSET Orders,
                             due : SUBSET Rows, stuck : SUBSET Vendors,
                             row : Rows \cup {NoRow}]]
    BY DEF WorkerRecords
  <2>b. \A w \in Workers : worker[w] \in WorkerRecords /\ RowFits(worker[w])
    BY <2>0 DEF HandsFit
  <2>1. ASSUME NEW w \in Workers, ClaimPending(w) PROVE TypeOK' /\ HandsFit'
    <3>1. \A s \in SUBSET Orders :
            /\ [Idle EXCEPT !.pc = "dispatch", !.pending = s] \in WorkerRecords
            /\ RowFits([Idle EXCEPT !.pc = "dispatch", !.pending = s])
      BY DEF Idle, WorkerRecords, WorkerSteps, RowFits, InHand, Rungs
    <3>2. worker' \in [Workers -> WorkerRecords] /\ HandsFit'
      BY <2>0, <2>1, <3>1, WorkerUpdates DEF ClaimPending
    <3> QED
      BY <2>1, <2>a, <3>2 DEF ClaimPending, TypeOK, tables
  <2>2. ASSUME NEW w \in Workers, DispatchNext(w) PROVE TypeOK' /\ HandsFit'
    <3>1. PICK o \in worker[w].pending :
            LET left == worker[w].pending \ {o}
            IN  /\ Dispatch(o)
                /\ Become(w, IF left = {} THEN Idle ELSE [worker[w] EXCEPT !.pending = left])
      BY <2>2 DEF DispatchNext
    <3> DEFINE left == worker[w].pending \ {o}
    <3>2. o \in Orders
      BY <2>b, <2>2 DEF WorkerRecords
    <3>3. /\ [worker[w] EXCEPT !.pending = left] \in WorkerRecords
          /\ RowFits([worker[w] EXCEPT !.pending = left])
      BY <2>b DEF WorkerRecords, RowFits
    <3>4. worker' \in [Workers -> WorkerRecords] /\ HandsFit'
      BY <2>0, <3>1, <3>3, WorkerUpdates
    <3> QED
      BY <2>2, <2>a, <3>1, <3>2, <3>4, DispatchTypes DEF DispatchNext, TypeOK
  <2>3. ASSUME NEW w \in Workers, StartSweep(w) PROVE TypeOK' /\ HandsFit'
    <3>1. /\ [Idle EXCEPT !.pc = "findStuck", !.due = DueRows] \in WorkerRecords
          /\ RowFits([Idle EXCEPT !.pc = "findStuck", !.due = DueRows])
      BY RowTypes DEF Idle, WorkerRecords, WorkerSteps, RowFits, InHand, Rungs
    <3>2. worker' \in [Workers -> WorkerRecords] /\ HandsFit'
      BY <2>0, <2>3, <3>1, WorkerUpdates DEF StartSweep
    <3> QED
      BY <2>3, <2>a, <3>2 DEF StartSweep, TypeOK, tables
  <2>4. ASSUME NEW w \in Workers, FindStuck(w) PROVE TypeOK' /\ HandsFit'
    <3>1. \A s \in SUBSET Vendors, pc \in {"ladder", "releaseStuck"} :
            /\ [worker[w] EXCEPT !.stuck = s, !.pc = pc] \in WorkerRecords
            /\ RowFits([worker[w] EXCEPT !.stuck = s, !.pc = pc])
      BY <2>b DEF WorkerRecords, WorkerSteps, RowFits, InHand, Rungs
    <3>2. {v \in blocked : ~Unseen(v)} \in SUBSET Vendors
      BY DEF TypeOK
    <3>3. worker' \in [Workers -> WorkerRecords] /\ HandsFit'
      BY <2>0, <2>4, <3>1, <3>2, WorkerUpdates DEF FindStuck
    <3> QED
      BY <2>4, <2>a, <3>3 DEF FindStuck, TypeOK, tables
  <2>5. ASSUME NEW w \in Workers, ReleaseStuck(w) PROVE TypeOK' /\ HandsFit'
    <3>1. /\ [worker[w] EXCEPT !.stuck = {}, !.pc = "ladder"] \in WorkerRecords
          /\ RowFits([worker[w] EXCEPT !.stuck = {}, !.pc = "ladder"])
      BY <2>b DEF WorkerRecords, WorkerSteps, RowFits, InHand, Rungs
    <3>2. worker' \in [Workers -> WorkerRecords] /\ HandsFit'
      BY <2>0, <2>5, <3>1, WorkerUpdates DEF ReleaseStuck
    <3> QED
      BY <2>5, <2>a, <3>2 DEF ReleaseStuck, TypeOK
  <2>6. ASSUME NEW w \in Workers, NextRow(w) PROVE TypeOK' /\ HandsFit'
    <3>1. ASSUME NEW r \in worker[w].due
          PROVE  LET n == [worker[w] EXCEPT !.due = @ \ {r}, !.row = r, !.pc = Decision(r)]
                 IN  n \in WorkerRecords /\ RowFits(n)
      <4>1. r \in Rows /\ worker[w].due \ {r} \in SUBSET Rows
        BY <2>b DEF WorkerRecords
      <4>2. Decision(r) \in WorkerSteps /\ (Decision(r) \in Rungs => r.step < 4)
        BY <4>1, RowTypes DEF WorkerSteps, Rungs
      <4> QED
        BY <2>b, <4>1, <4>2 DEF WorkerRecords, RowFits
    <3>2. worker' \in [Workers -> WorkerRecords] /\ HandsFit'
      BY <2>0, <2>6, <3>1, WorkerUpdates DEF NextRow
    <3> QED
      BY <2>6, <2>a, <3>2 DEF NextRow, TypeOK, tables
  <2>7. ASSUME NEW w \in Workers, CancelLadder(w) PROVE TypeOK' /\ HandsFit'
    <3>1. worker[w].row \in Rows
      BY <2>b, <2>7 DEF CancelLadder, At, RowFits, InHand
    <3>2. worker' \in [Workers -> WorkerRecords] /\ HandsFit'
      BY <2>0, <2>7, <3>1, WorkerUpdates DEF CancelLadder, WorkerSteps, Rungs
    <3>3. worker[w].row.order \in Orders
      BY <3>1 DEF Rows
    <3> QED
      BY <2>7, <2>a, <3>2, <3>3, WatchTypes DEF CancelLadder, TypeOK, Hand
  <2>8. ASSUME NEW w \in Workers, CheckUnseen(w) PROVE TypeOK' /\ HandsFit'
    <3>1. worker[w].row \in Rows
      BY <2>b, <2>8 DEF CheckUnseen, At, RowFits, InHand
    <3>2. worker' \in [Workers -> WorkerRecords] /\ HandsFit'
      BY <2>0, <2>8, <3>1, WorkerUpdates DEF CheckUnseen, WorkerSteps, Rungs
    <3> QED
      BY <2>8, <2>a, <3>2 DEF CheckUnseen, TypeOK, tables
  <2>9. ASSUME NEW w \in Workers, Unblock(w) PROVE TypeOK' /\ HandsFit'
    <3>1. worker' \in [Workers -> WorkerRecords] /\ HandsFit'
      BY <2>0, <2>9, WorkerUpdates DEF Unblock
    <3> QED
      BY <2>9, <2>a, <3>1 DEF Unblock, TypeOK
  <2>10. ASSUME NEW w \in Workers, Retry(w) PROVE TypeOK' /\ HandsFit'
    <3>1. worker[w].row \in Rows /\ worker[w].row.step < 4
      BY <2>b, <2>10 DEF Retry, At, RowFits, InHand, Rungs
    <3>2. worker' \in [Workers -> WorkerRecords] /\ HandsFit'
      BY <2>0, <2>10, <3>1, WorkerUpdates DEF Retry, WorkerSteps
    <3>3. worker[w].row.order \in Orders
      BY <3>1 DEF Rows
    <3> QED
      BY <2>10, <2>a, <3>2, <3>3, DispatchTypes DEF Retry, TypeOK, Hand
  <2>11. ASSUME NEW w \in Workers, BlockVendor(w) PROVE TypeOK' /\ HandsFit'
    <3>1. worker[w].row \in Rows /\ worker[w].row.step < 4
      BY <2>b, <2>11 DEF BlockVendor, At, RowFits, InHand, Rungs
    <3>2. worker' \in [Workers -> WorkerRecords] /\ HandsFit'
      BY <2>0, <2>11, <3>1, WorkerUpdates DEF BlockVendor, WorkerSteps
    <3>3. VendorOf[worker[w].row.order] \in Vendors
      BY <3>1, OrdersAssumption DEF Rows
    <3> QED
      BY <2>11, <2>a, <3>2, <3>3 DEF BlockVendor, TypeOK, Hand
  <2>12. ASSUME NEW w \in Workers, AlertManager(w) PROVE TypeOK' /\ HandsFit'
    <3>1. worker[w].row \in Rows /\ worker[w].row.step < 4
      BY <2>b, <2>12 DEF AlertManager, At, RowFits, InHand, Rungs
    <3>2. worker' \in [Workers -> WorkerRecords] /\ HandsFit'
      BY <2>0, <2>12, <3>1, WorkerUpdates DEF AlertManager, WorkerSteps
    <3>3. worker[w].row.order \in Orders
      BY <3>1 DEF Rows
    <3> QED
      BY <2>12, <2>a, <3>2, <3>3 DEF AlertManager, TypeOK, Hand
  <2>13. ASSUME NEW w \in Workers, FailDispatch(w) PROVE TypeOK' /\ HandsFit'
    <3>1. worker[w].row \in Rows /\ worker[w].row.step < 4
      BY <2>b, <2>13 DEF FailDispatch, At, RowFits, InHand, Rungs
    <3>2. worker' \in [Workers -> WorkerRecords] /\ HandsFit'
      BY <2>0, <2>13, <3>1, WorkerUpdates DEF FailDispatch, WorkerSteps
    <3>3. worker[w].row.order \in Orders
      BY <3>1 DEF Rows
    <3>4. /\ status' \in [Orders -> Statuses]
          /\ offered' \subseteq Orders
          /\ step' \in [Orders -> 0..4]
      BY <2>13, <3>3 DEF FailDispatch, Hand, TypeOK, Statuses
    <3> QED
      BY <2>13, <2>a, <3>2, <3>4 DEF FailDispatch, TypeOK
  <2>14. ASSUME NEW w \in Workers, Advance(w) PROVE TypeOK' /\ HandsFit'
    <3>1. worker[w].row \in Rows /\ worker[w].row.step < 4
      BY <2>b, <2>14 DEF Advance, At, RowFits, InHand, Rungs
    <3>2. worker' \in [Workers -> WorkerRecords] /\ HandsFit'
      BY <2>0, <2>14, WorkerUpdates DEF Advance
    <3>3. worker[w].row.order \in Orders /\ worker[w].row.step + 1 \in 0..4
      BY <3>1 DEF Rows
    <3>4. step' \in [Orders -> 0..4] /\ timer' \in [Orders -> Timers]
      BY <2>14, <3>3 DEF Advance, Hand, TypeOK, Timers
    <3> QED
      BY <2>14, <2>a, <3>2, <3>4 DEF Advance, TypeOK
  <2>15. ASSUME NEW w \in Workers, WorkerCrash(w) PROVE TypeOK' /\ HandsFit'
    <3>1. worker' \in [Workers -> WorkerRecords] /\ HandsFit'
      BY <2>0, <2>15, WorkerUpdates DEF WorkerCrash
    <3>2. crashes' \in 0..MaxCrashes
      BY <2>15, BoundsAssumption DEF WorkerCrash, TypeOK
    <3> QED
      BY <2>15, <2>a, <3>1, <3>2 DEF WorkerCrash, TypeOK, tables
  <2>16. ASSUME NEW o \in Orders, Accept(o) \/ Confirm(o) PROVE TypeOK' /\ HandsFit'
    BY <2>16 DEF Accept, Confirm, TypeOK, HandsFit, Statuses, AckSteps
  <2>17. ASSUME NEW o \in Orders, AckCancel(o) PROVE TypeOK' /\ HandsFit'
    BY <2>17, WatchTypes DEF AckCancel, TypeOK, HandsFit, AckSteps
  <2>18. ASSUME NEW o \in Orders, AckCheck(o) \/ AckUnblock(o) PROVE TypeOK' /\ HandsFit'
    BY <2>18 DEF AckCheck, AckUnblock, TypeOK, HandsFit, AckSteps, tables
  <2>19. ASSUME NEW o \in Orders, NEW to \in Statuses, Leave(o, to) PROVE TypeOK' /\ HandsFit'
    BY <2>19 DEF Leave, TypeOK, HandsFit
  <2>20. ASSUME NEW o \in Orders, TimePasses(o) PROVE TypeOK' /\ HandsFit'
    BY <2>20 DEF TimePasses, TypeOK, HandsFit, Timers
  <2>21. ASSUME NEW o \in Orders, RequestCrash(o) PROVE TypeOK' /\ HandsFit'
    <3>1. crashes' \in 0..MaxCrashes
      BY <2>21, BoundsAssumption DEF RequestCrash, TypeOK
    <3> QED
      BY <2>21, <3>1 DEF RequestCrash, TypeOK, HandsFit, tables, AckSteps
  <2>22. CASE UNCHANGED vars
    BY <2>22 DEF vars, TypeOK, HandsFit
  <2> QED
    BY <2>1, <2>2, <2>3, <2>4, <2>5, <2>6, <2>7, <2>8, <2>9, <2>10, <2>11, <2>12, <2>13,
       <2>14, <2>15, <2>16, <2>17, <2>18, <2>19, <2>20, <2>21, <2>22 DEF Next, Continue
<1> QED
  BY <1>1, <1>2, PTL DEF Spec

(* Every column keeps its type: in particular the rung recorded never      *)
(* leaves 0..4, however many replicas record rungs of the same row.        *)
THEOREM DispatchTypesHold == Spec => []TypeOK
  BY Typing, PTL

-----------------------------------------------------------------------------
(* OneTicket.  Until an order is given up on it has been in front of a     *)
(* kitchen at most once, and not at all before it is dispatched.           *)
FirstTicket(o) ==
  o \notin offered =>
    /\ attempts[o] <= 1 /\ status[o] # "DISPATCH_FAILED"
    /\ status[o] \in {"PAYMENT_PENDING", "PAYMENT_CONFIRMED"} => attempts[o] = 0
FirstTickets == \A o \in Orders : FirstTicket(o)

LEMMA DispatchKeepsFirst ==
  ASSUME TypeOK, FirstTickets, NEW o \in Orders, Dispatch(o), UNCHANGED offered
  PROVE  FirstTickets'
<1>1. CASE Dispatchable(status[o])
  <2>1. ASSUME NEW p \in Orders, p # o PROVE FirstTicket(p)'
    BY <1>1, <2>1 DEF Dispatch, FirstTickets, FirstTicket, TypeOK
  <2>2. FirstTicket(o)'
    BY <1>1 DEF Dispatch, Dispatchable, FirstTickets, FirstTicket, TypeOK
  <2> QED
    BY <2>1, <2>2 DEF FirstTickets
<1>2. CASE ~Dispatchable(status[o])
  BY <1>2 DEF Dispatch, FirstTickets, FirstTicket
<1> QED
  BY <1>1, <1>2

(* Sweeping twice, retrying a rung and crashing anywhere send a kitchen no *)
(* second ticket for an order nobody gave up on: for every number of       *)
(* replicas sweeping side by side on snapshots of the same rows.           *)
THEOREM OneTicketEach == Spec => []OneTicket
<1>1. Init => FirstTickets
  BY DEF Init, FirstTickets, FirstTicket
<1>2. TypeOK /\ HandsFit /\ FirstTickets /\ [Next]_vars => FirstTickets'
  <2> SUFFICES ASSUME TypeOK, HandsFit, FirstTickets, [Next]_vars PROVE FirstTickets'
    OBVIOUS
  <2>0. UNCHANGED <<status, attempts, offered>> => FirstTickets'
    BY DEF FirstTickets, FirstTicket
  <2>1. ASSUME NEW w \in Workers, DispatchNext(w) PROVE FirstTickets'
    BY <2>1, DispatchKeepsFirst DEF DispatchNext, TypeOK
  <2>2. ASSUME NEW w \in Workers, Retry(w) PROVE FirstTickets'
    <3>1. worker[w].row.order \in Orders
      BY <2>2 DEF HandsFit, RowFits, InHand, Rungs, Retry, At, Rows
    <3> QED
      BY <2>2, <3>1, DispatchKeepsFirst DEF Retry, Hand
  <2>3. ASSUME NEW w \in Workers, FailDispatch(w) PROVE FirstTickets'
    BY <2>3 DEF FailDispatch, FirstTickets, FirstTicket, TypeOK
  <2>4. ASSUME NEW w \in Workers,
               \/ ClaimPending(w) \/ StartSweep(w) \/ FindStuck(w) \/ ReleaseStuck(w)
               \/ NextRow(w) \/ CancelLadder(w) \/ CheckUnseen(w) \/ Unblock(w)
               \/ BlockVendor(w) \/ AlertManager(w) \/ Advance(w) \/ WorkerCrash(w)
        PROVE  FirstTickets'
    BY <2>0, <2>4
       DEF ClaimPending, StartSweep, FindStuck, ReleaseStuck, NextRow, CancelLadder,
           CheckUnseen, Unblock, BlockVendor, AlertManager, Advance, WorkerCrash, tables
  <2>5. ASSUME NEW o \in Orders, NEW to \in Statuses, Accept(o) \/ Confirm(o) \/ Leave(o, to)
        PROVE  FirstTickets'
    BY <2>5 DEF Accept, Confirm, Leave, FirstTickets, FirstTicket, TypeOK
  <2>6. ASSUME NEW o \in Orders,
               AckCancel(o) \/ AckCheck(o) \/ AckUnblock(o) \/ TimePasses(o) \/ RequestCrash(o)
        PROVE  FirstTickets'
    BY <2>0, <2>6 DEF AckCancel, AckCheck, AckUnblock, TimePasses, RequestCrash, tables
  <2>7. CASE UNCHANGED vars
    BY <2>0, <2>7 DEF vars
  <2>8. Statuses # {}
    BY DEF Statuses
  <2> QED
    BY <2>1, <2>2, <2>3, <2>4, <2>5, <2>6, <2>7, <2>8 DEF Next, Continue
<1>3. TypeOK /\ FirstTickets => OneTicket
  BY DEF FirstTickets, FirstTicket, OneTicket, TypeOK
<1> QED
  BY <1>1, <1>2, <1>3, Typing, PTL DEF Spec

-----------------------------------------------------------------------------
(* AlertedBeforeOffered.  Whoever knows of an order on its third rung or   *)
(* above, the row, a snapshot of it or the rung in hand, knows of an order *)
(* whose manager was alerted; "a" is the set of those.                     *)
Climbed(r, a) ==
  /\ \A d \in r.due : d.step >= 3 => d.order \in a
  /\ r.pc = "retry" => r.row.step < 2
  /\ r.pc = "fail" => r.row.order \in a
  /\ r.pc = "advance" /\ r.row.step >= 2 => r.row.order \in a
AllClimbed == \A w \in Workers : Climbed(worker[w], alerted)
RowsClimbed == \A o \in Orders : step[o] >= 3 => o \in alerted
LadderInv == AllClimbed /\ RowsClimbed /\ offered \subseteq alerted

LEMMA ClimbedUpdate ==
  ASSUME TypeOK, AllClimbed, NEW w \in Workers, NEW r, Become(w, r),
         alerted \subseteq alerted', Climbed(r, alerted')
  PROVE  AllClimbed'
<1>1. ASSUME NEW x \in Workers, x # w PROVE Climbed(worker[x], alerted')
  BY <1>1 DEF AllClimbed, Climbed
<1>2. \A x \in Workers : worker'[x] = IF x = w THEN r ELSE worker[x]
  BY DEF Become, TypeOK
<1> QED
  BY <1>1, <1>2 DEF AllClimbed

(* What a step that only moves a worker on leaves true of it.              *)
LEMMA ClimbedMoves ==
  ASSUME TypeOK, NEW w \in Workers, Climbed(worker[w], alerted)
  PROVE  /\ Climbed(Idle, alerted)
         /\ Climbed([worker[w] EXCEPT !.pc = "ladder", !.row = NoRow], alerted)
         /\ \A pc \in {"check", "unblock", "alert"} :
              Climbed([worker[w] EXCEPT !.pc = pc], alerted)
<1>1. worker[w] \in WorkerRecords
  BY DEF TypeOK, WorkerRecords
<1> QED
  BY <1>1 DEF Climbed, WorkerRecords, Idle

LEMMA DispatchKeepsRows ==
  ASSUME TypeOK, RowsClimbed, NEW o \in Orders, Dispatch(o), UNCHANGED alerted
  PROVE  RowsClimbed'
  BY DEF Dispatch, RowsClimbed, TypeOK

(* The ladder is climbed in order: nobody is offered a cancellation before *)
(* the stall's manager was alerted, whatever crashes between two rungs and *)
(* however many replicas climb the same ladder from stale snapshots.       *)
THEOREM LadderInOrder == Spec => []AlertedBeforeOffered
<1>1. Init => LadderInv
  BY DEF Init, LadderInv, AllClimbed, Climbed, RowsClimbed, Idle
<1>2. TypeOK /\ HandsFit /\ LadderInv /\ [Next]_vars => LadderInv'
  <2> SUFFICES ASSUME TypeOK, HandsFit, LadderInv, [Next]_vars PROVE LadderInv'
    OBVIOUS
  <2> USE DEF LadderInv
  <2>a. \A w \in Workers : worker[w] \in WorkerRecords /\ Climbed(worker[w], alerted)
    BY DEF TypeOK, WorkerRecords, AllClimbed
  <2>b. UNCHANGED <<step, alerted, offered>> => RowsClimbed' /\ (offered \subseteq alerted)'
    BY DEF RowsClimbed
  <2>c. UNCHANGED <<worker, alerted>> => AllClimbed'
    BY DEF AllClimbed
  <2>1. ASSUME NEW w \in Workers, ClaimPending(w) \/ WorkerCrash(w) PROVE LadderInv'
    <3>1. \A s : Climbed([Idle EXCEPT !.pc = "dispatch", !.pending = s], alerted)
      BY DEF Climbed, Idle
    <3> QED
      BY <2>1, <2>a, <2>b, <3>1, ClimbedUpdate, ClimbedMoves
         DEF ClaimPending, WorkerCrash, tables
  <2>2. ASSUME NEW w \in Workers, DispatchNext(w) PROVE LadderInv'
    <3>1. PICK o \in worker[w].pending :
            LET left == worker[w].pending \ {o}
            IN  /\ Dispatch(o)
                /\ Become(w, IF left = {} THEN Idle ELSE [worker[w] EXCEPT !.pending = left])
      BY <2>2 DEF DispatchNext
    <3> DEFINE left == worker[w].pending \ {o}
    <3>2. o \in Orders
      BY <2>a, <2>2 DEF WorkerRecords
    <3>3. Climbed([worker[w] EXCEPT !.pending = left], alerted)
      BY <2>a DEF Climbed, WorkerRecords
    <3>4. AllClimbed'
      BY <2>2, <2>a, <3>1, <3>3, ClimbedUpdate, ClimbedMoves DEF DispatchNext
    <3> QED
      BY <2>2, <3>1, <3>2, <3>4, DispatchKeepsRows DEF DispatchNext
  <2>3. ASSUME NEW w \in Workers, StartSweep(w) PROVE LadderInv'
    <3>1. Climbed([Idle EXCEPT !.pc = "findStuck", !.due = DueRows], alerted)
      BY DEF Climbed, Idle, DueRows, RowsClimbed
    <3> QED
      BY <2>3, <2>b, <3>1, ClimbedUpdate DEF StartSweep, tables
  <2>4. ASSUME NEW w \in Workers, FindStuck(w) \/ ReleaseStuck(w) PROVE LadderInv'
    <3>1. \A s, pc : pc \in {"ladder", "releaseStuck"} =>
            Climbed([worker[w] EXCEPT !.stuck = s, !.pc = pc], alerted)
      BY <2>a DEF Climbed, WorkerRecords
    <3> QED
      BY <2>4, <2>b, <3>1, ClimbedUpdate DEF FindStuck, ReleaseStuck, tables
  <2>5. ASSUME NEW w \in Workers, NextRow(w) PROVE LadderInv'
    <3>1. ASSUME NEW r \in worker[w].due
          PROVE  Climbed([worker[w] EXCEPT !.due = @ \ {r}, !.row = r, !.pc = Decision(r)], alerted)
      <4>1. r \in Rows
        BY <2>a DEF WorkerRecords
      <4>2. /\ Decision(r) = "retry" => r.step < 2
            /\ Decision(r) = "fail" => r.order \in alerted
            /\ Decision(r) # "advance"
        BY <2>a, <4>1, RowTypes DEF Climbed
      <4> DEFINE n == [worker[w] EXCEPT !.due = @ \ {r}, !.row = r, !.pc = Decision(r)]
      <4>3. n.due = worker[w].due \ {r} /\ n.row = r /\ n.pc = Decision(r)
        BY <2>a DEF WorkerRecords
      <4>4. \A d \in worker[w].due : d.step >= 3 => d.order \in alerted
        BY <2>a DEF Climbed
      <4> HIDE DEF n
      <4>5. Climbed(n, alerted)
        BY <4>2, <4>3, <4>4 DEF Climbed
      <4> QED
        BY <4>5 DEF n
    <3>2. AllClimbed'
      BY <2>5, <2>a, <3>1, ClimbedUpdate, ClimbedMoves DEF NextRow, tables
    <3> QED
      BY <2>5, <2>b, <3>2 DEF NextRow, tables
  <2>6. ASSUME NEW w \in Workers, CancelLadder(w) \/ CheckUnseen(w) \/ Unblock(w)
        PROVE  LadderInv'
    <3>1. UNCHANGED <<step, alerted, offered>>
      BY <2>6 DEF CancelLadder, CheckUnseen, Unblock, tables
    <3>2. Goto(w, "check") \/ Goto(w, "unblock") \/ Done(w)
      BY <2>6 DEF CancelLadder, CheckUnseen, Unblock
    <3>3. ASSUME NEW pc \in {"check", "unblock"}, Goto(w, pc) PROVE AllClimbed'
      BY <2>a, <3>1, <3>3, ClimbedUpdate, ClimbedMoves DEF Goto, Become
    <3>4. ASSUME Done(w) PROVE AllClimbed'
      BY <2>a, <3>1, <3>4, ClimbedUpdate, ClimbedMoves DEF Done
    <3> QED
      BY <2>b, <3>1, <3>2, <3>3, <3>4
  <2>7. ASSUME NEW w \in Workers, Retry(w) PROVE LadderInv'
    <3>1. worker[w].row \in Rows
      BY <2>7 DEF HandsFit, RowFits, InHand, Rungs, Retry, At
    <3>2. worker[w].row.order \in Orders /\ worker[w].row.step \in Nat /\ worker[w].row.step < 2
      BY <2>7, <2>a, <3>1 DEF Retry, At, Climbed, Rows
    <3>3. Climbed([worker[w] EXCEPT !.pc = "advance"], alerted)
      BY <2>a, <3>2 DEF Climbed, WorkerRecords
    <3>4. AllClimbed'
      BY <2>7, <3>3, ClimbedUpdate DEF Retry, Goto, Become
    <3> QED
      BY <2>7, <3>2, <3>4, DispatchKeepsRows DEF Retry, Hand
  <2>8. ASSUME NEW w \in Workers, BlockVendor(w) PROVE LadderInv'
    BY <2>8, <2>a, <2>b, ClimbedUpdate, ClimbedMoves DEF BlockVendor, Goto, Become
  <2>9. ASSUME NEW w \in Workers, AlertManager(w) PROVE LadderInv'
    <3>1. Climbed([worker[w] EXCEPT !.pc = "advance"], alerted')
      BY <2>9, <2>a DEF AlertManager, Hand, Climbed, WorkerRecords
    <3>2. AllClimbed'
      BY <2>9, <3>1, ClimbedUpdate DEF AlertManager, Goto, Become
    <3> QED
      BY <2>9, <3>2 DEF AlertManager, RowsClimbed
  <2>10. ASSUME NEW w \in Workers, FailDispatch(w) PROVE LadderInv'
    <3>1. worker[w].row.order \in alerted
      BY <2>10, <2>a DEF FailDispatch, At, Climbed
    <3>2. Climbed([worker[w] EXCEPT !.pc = "advance"], alerted)
      BY <2>a, <3>1 DEF Climbed, WorkerRecords
    <3>3. AllClimbed'
      BY <2>10, <2>a, <3>2, ClimbedUpdate, ClimbedMoves DEF FailDispatch, Goto, Become
    <3> QED
      BY <2>10, <3>1, <3>3 DEF FailDispatch, Hand, RowsClimbed, TypeOK
  <2>11. ASSUME NEW w \in Workers, Advance(w) PROVE LadderInv'
    <3>1. worker[w].row \in Rows
      BY <2>11 DEF HandsFit, RowFits, InHand, Rungs, Advance, At
    <3>2. AllClimbed'
      BY <2>11, <2>a, ClimbedUpdate, ClimbedMoves DEF Advance, Done
    <3>3. worker[w].row.step + 1 >= 3 => worker[w].row.order \in alerted
      BY <2>11, <2>a, <3>1 DEF Advance, At, Climbed, Rows
    <3> QED
      BY <2>11, <3>2, <3>3 DEF Advance, Hand, RowsClimbed, TypeOK
  <2>12. ASSUME NEW o \in Orders, NEW to \in Statuses,
                \/ Accept(o) \/ Confirm(o) \/ Leave(o, to) \/ AckCancel(o) \/ AckCheck(o)
                \/ AckUnblock(o) \/ TimePasses(o) \/ RequestCrash(o)
         PROVE  LadderInv'
    BY <2>12, <2>b, <2>c
       DEF Accept, Confirm, Leave, AckCancel, AckCheck, AckUnblock, TimePasses,
           RequestCrash, tables
  <2>13. CASE UNCHANGED vars
    BY <2>13, <2>b, <2>c DEF vars
  <2>14. Statuses # {}
    BY DEF Statuses
  <2> QED
    BY <2>1, <2>2, <2>3, <2>4, <2>5, <2>6, <2>7, <2>8, <2>9, <2>10, <2>11, <2>12, <2>13,
       <2>14 DEF Next, Continue
<1>3. LadderInv => AlertedBeforeOffered
  BY DEF LadderInv, AlertedBeforeOffered
<1> QED
  BY <1>1, <1>2, <1>3, Typing, PTL DEF Spec

-----------------------------------------------------------------------------
(* DispatchedIsWatched, for a single replica.  What its sweep saw of an    *)
(* order is still true enough when it acts on it; "st" is the status       *)
(* column.                                                                 *)
Unpaid == {"PAYMENT_PENDING", "PAYMENT_CONFIRMED"}
StillFits(d, st) ==
  /\ d.waiting => st[d.order] \notin Unpaid \cup {"DISPATCH_FAILED"} /\ d.step < 4
  /\ ~d.waiting => st[d.order] # "DISPATCHED"

RowsAhead(r, st) ==
  /\ \A d \in r.due : StillFits(d, st)
  /\ \A d, e \in r.due : d.order = e.order => d = e

RungFits(r, st) ==
  /\ r.pc = "cancel" => st[r.row.order] # "DISPATCHED"
  /\ r.pc \in Rungs \ {"advance"} =>
       st[r.row.order] \notin Unpaid \cup {"DISPATCH_FAILED"}
  /\ r.pc = "retry" => r.row.step < 2
  /\ r.pc \in {"block", "alert"} => r.row.step = 2
  /\ r.pc = "fail" => r.row.step = 3
  /\ r.pc = "advance" /\ r.row.step = 3 => st[r.row.order] \notin Unpaid \cup {"DISPATCHED"}

SnapshotFits(r, st) ==
  /\ r.pc \in {"idle", "dispatch"} => r.due = {}
  /\ r.pc \in Rungs => \A d \in r.due : d.order # r.row.order
  /\ RowsAhead(r, st)
  /\ RungFits(r, st)
SnapshotsFit == \A w \in Workers : SnapshotFits(worker[w], status)

RowsFit ==
  \A o \in Orders :
    /\ status[o] = "DISPATCHED" => watch[o] = "armed" /\ timer[o] # "null"
    /\ step[o] = 4 => status[o] \notin Unpaid \cup {"DISPATCHED"}
    /\ ack[o] # "none" => status[o] = "ACKNOWLEDGED"
WatchInv == SnapshotsFit /\ RowsFit

LEMMA OneReplica ==
  ASSUME NEW w, Workers = {w}, TypeOK, NEW r, Become(w, r), SnapshotFits(r, status')
  PROVE  SnapshotsFit'
  BY DEF Become, TypeOK, SnapshotsFit

LEMMA SnapshotMoves ==
  ASSUME TypeOK, NEW w \in Workers, SnapshotFits(worker[w], status)
  PROVE  /\ SnapshotFits(Idle, status)
         /\ SnapshotFits([worker[w] EXCEPT !.pc = "ladder", !.row = NoRow], status)
         /\ \A pc \in {"check", "unblock"} :
              SnapshotFits([worker[w] EXCEPT !.pc = pc], status)
<1>1. worker[w] \in WorkerRecords
  BY DEF TypeOK, WorkerRecords
<1>2. SnapshotFits(Idle, status)
  BY DEF Idle, SnapshotFits, RowsAhead, RungFits, Rungs
<1>3. SnapshotFits([worker[w] EXCEPT !.pc = "ladder", !.row = NoRow], status)
  BY <1>1 DEF WorkerRecords, SnapshotFits, RowsAhead, RungFits, Rungs
<1>4. ASSUME NEW pc \in {"check", "unblock"}
      PROVE  SnapshotFits([worker[w] EXCEPT !.pc = pc], status)
  BY <1>1 DEF WorkerRecords, SnapshotFits, RowsAhead, RungFits, Rungs
<1> QED
  BY <1>2, <1>3, <1>4

(* Kitchens, customers and the payment engine move an order without        *)
(* falsifying what a sweep relies on.                                      *)
LEMMA OthersMove ==
  ASSUME TypeOK, HandsFit, NEW w \in Workers, SnapshotFits(worker[w], status),
         NEW o \in Orders, NEW s, status' = [status EXCEPT ![o] = s],
         \/ s \in {"ACKNOWLEDGED", "REJECTED", "CANCELLED", "REFUND_PENDING"}
         \/ status[o] = "PAYMENT_PENDING" /\ s = "PAYMENT_CONFIRMED"
  PROVE  SnapshotFits(worker[w], status')
<1>1. worker[w] \in WorkerRecords /\ RowFits(worker[w])
  BY DEF TypeOK, WorkerRecords, HandsFit
<1>2. RowsAhead(worker[w], status')
  BY <1>1 DEF SnapshotFits, RowsAhead, StillFits, Unpaid, WorkerRecords, Rows, TypeOK
<1>3. RungFits(worker[w], status')
  BY <1>1 DEF SnapshotFits, RungFits, Unpaid, RowFits, InHand, Rungs, Rows, TypeOK
<1> QED
  BY <1>2, <1>3 DEF SnapshotFits

(* With a single replica, an order in front of a kitchen is always         *)
(* watched: whatever interleaves with the sweep and wherever it crashes,   *)
(* its ladder is armed and has a next rung.                                *)
THEOREM WatchedByOne ==
  ASSUME NEW W, Workers = {W}
  PROVE  Spec => []DispatchedIsWatched
<1>1. Init => WatchInv
  BY DEF Init, WatchInv, SnapshotsFit, SnapshotFits, RowsAhead, RungFits, Rungs, Idle, RowsFit
<1>2. TypeOK /\ HandsFit /\ WatchInv /\ [Next]_vars => WatchInv'
  <2> SUFFICES ASSUME TypeOK, HandsFit, WatchInv, [Next]_vars PROVE WatchInv'
    OBVIOUS
  <2> USE DEF WatchInv
  <2>a. \A w \in Workers :
          /\ worker[w] \in WorkerRecords /\ RowFits(worker[w])
          /\ SnapshotFits(worker[w], status) /\ w = W
    BY DEF TypeOK, WorkerRecords, HandsFit, SnapshotsFit
  <2>b. UNCHANGED <<status, watch, step, timer, ack>> => RowsFit'
    BY DEF RowsFit
  <2>c. UNCHANGED <<worker, status>> => SnapshotsFit'
    BY DEF SnapshotsFit
  <2>1. ASSUME NEW w \in Workers, ClaimPending(w) \/ WorkerCrash(w) PROVE WatchInv'
    <3>1. \A s : SnapshotFits([Idle EXCEPT !.pc = "dispatch", !.pending = s], status)
      BY DEF Idle, SnapshotFits, RowsAhead, RungFits, Rungs
    <3>2. UNCHANGED <<status, watch, step, timer, ack>>
      BY <2>1 DEF ClaimPending, WorkerCrash, tables
    <3>3. SnapshotsFit'
      BY <2>1, <2>a, <3>1, <3>2, OneReplica, SnapshotMoves DEF ClaimPending, WorkerCrash
    <3> QED
      BY <2>b, <3>2, <3>3
  <2>2. ASSUME NEW w \in Workers, DispatchNext(w) PROVE WatchInv'
    <3>1. PICK o \in worker[w].pending :
            LET left == worker[w].pending \ {o}
            IN  /\ Dispatch(o)
                /\ Become(w, IF left = {} THEN Idle ELSE [worker[w] EXCEPT !.pending = left])
      BY <2>2 DEF DispatchNext
    <3> DEFINE left == worker[w].pending \ {o}
    <3>2. o \in Orders
      BY <2>a, <2>2 DEF WorkerRecords
    <3>3. worker[w].pc = "dispatch" /\ worker[w].due = {}
      BY <2>2, <2>a DEF DispatchNext, At, SnapshotFits
    <3>4. \A st : /\ SnapshotFits(Idle, st)
                  /\ SnapshotFits([worker[w] EXCEPT !.pending = left], st)
      BY <2>a, <3>3 DEF Idle, SnapshotFits, RowsAhead, RungFits, Rungs, WorkerRecords
    <3>5. SnapshotsFit'
      BY <2>a, <3>1, <3>4, OneReplica
    <3>6. RowsFit'
      BY <2>2, <3>1, <3>2 DEF DispatchNext, Dispatch, Dispatchable, RowsFit, TypeOK
    <3> QED
      BY <3>5, <3>6
  <2>3. ASSUME NEW w \in Workers, StartSweep(w) PROVE WatchInv'
    <3>1. ASSUME NEW d \in DueRows PROVE StillFits(d, status)
      <4>1. PICK p \in Orders :
              /\ watch[p] = "armed" /\ timer[p] = "passed"
              /\ d = [order |-> p, step |-> step[p], waiting |-> status[p] = "DISPATCHED"]
        BY <3>1 DEF DueRows
      <4>2. d.order = p /\ d.step = step[p] /\ (d.waiting <=> status[p] = "DISPATCHED")
        BY <4>1
      <4>3. step[p] \in 0..4 /\ (step[p] = 4 => status[p] # "DISPATCHED")
        BY DEF TypeOK, RowsFit
      <4> QED
        BY <4>2, <4>3 DEF StillFits, Unpaid
    <3>2. \A d, e \in DueRows : d.order = e.order => d = e
      BY DEF DueRows
    <3>3. SnapshotFits([Idle EXCEPT !.pc = "findStuck", !.due = DueRows], status)
      BY <3>1, <3>2 DEF Idle, SnapshotFits, RowsAhead, RungFits, Rungs
    <3>4. SnapshotsFit'
      BY <2>3, <2>a, <3>3, OneReplica DEF StartSweep, tables
    <3> QED
      BY <2>3, <2>b, <3>4 DEF StartSweep, tables
  <2>4. ASSUME NEW w \in Workers, FindStuck(w) \/ ReleaseStuck(w) PROVE WatchInv'
    <3>1. \A s, pc : pc \in {"ladder", "releaseStuck"} =>
            SnapshotFits([worker[w] EXCEPT !.stuck = s, !.pc = pc], status)
      BY <2>a DEF SnapshotFits, RowsAhead, RungFits, Rungs, WorkerRecords
    <3>2. SnapshotsFit'
      BY <2>4, <2>a, <3>1, OneReplica DEF FindStuck, ReleaseStuck, tables
    <3> QED
      BY <2>4, <2>b, <3>2 DEF FindStuck, ReleaseStuck, tables
  <2>5. ASSUME NEW w \in Workers, NextRow(w) PROVE WatchInv'
    <3>1. ASSUME NEW r \in worker[w].due
          PROVE  SnapshotFits([worker[w] EXCEPT !.due = @ \ {r}, !.row = r, !.pc = Decision(r)],
                              status)
      <4> DEFINE n == [worker[w] EXCEPT !.due = @ \ {r}, !.row = r, !.pc = Decision(r)]
      <4>1. n.due = worker[w].due \ {r} /\ n.row = r /\ n.pc = Decision(r)
        BY <2>a DEF WorkerRecords
      <4>2. r \in Rows /\ StillFits(r, status)
        BY <2>a DEF WorkerRecords, SnapshotFits, RowsAhead
      <4>3. \A d \in n.due : d.order # r.order
        BY <2>a, <4>1 DEF SnapshotFits, RowsAhead
      <4>4. Decision(r) = "cancel" <=> ~r.waiting
        BY <4>2 DEF Decision, StillFits, LadderAction, Rows
      <4>5. RowsAhead(n, status)
        BY <2>a, <4>1 DEF SnapshotFits, RowsAhead
      <4> HIDE DEF n
      <4>6. RungFits(n, status)
        BY <4>1, <4>2, <4>4, RowTypes DEF RungFits, StillFits, Rungs
      <4>7. n.pc \notin {"idle", "dispatch"}
        BY <4>1, <4>2, RowTypes
      <4>8. SnapshotFits(n, status)
        BY <4>1, <4>3, <4>5, <4>6, <4>7 DEF SnapshotFits
      <4> QED
        BY <4>8 DEF n
    <3>2. SnapshotsFit'
      BY <2>5, <2>a, <3>1, OneReplica, SnapshotMoves DEF NextRow, tables
    <3> QED
      BY <2>5, <2>b, <3>2 DEF NextRow, tables
  <2>6. ASSUME NEW w \in Workers, CancelLadder(w) \/ CheckUnseen(w) \/ Unblock(w)
        PROVE  WatchInv'
    <3>1. UNCHANGED <<status, step, ack>>
      BY <2>6 DEF CancelLadder, CheckUnseen, Unblock, tables
    <3>2. Goto(w, "check") \/ Goto(w, "unblock") \/ Done(w)
      BY <2>6 DEF CancelLadder, CheckUnseen, Unblock
    <3>3. ASSUME NEW pc \in {"check", "unblock"}, Goto(w, pc) PROVE SnapshotsFit'
      BY <2>a, <3>1, <3>3, OneReplica, SnapshotMoves DEF Goto, Become
    <3>4. ASSUME Done(w) PROVE SnapshotsFit'
      BY <2>a, <3>1, <3>4, OneReplica, SnapshotMoves DEF Done
    <3>5. CASE CancelLadder(w)
      <4>1. worker[w].row.order \in Orders /\ status[worker[w].row.order] # "DISPATCHED"
        BY <2>a, <3>5
           DEF CancelLadder, At, SnapshotFits, RungFits, RowFits, InHand, Rows
      <4>2. RowsFit'
        BY <3>1, <3>5, <4>1 DEF CancelLadder, CancelWatch, Hand, RowsFit, TypeOK
      <4> QED
        BY <3>2, <3>3, <3>4, <4>2
    <3>6. CASE CheckUnseen(w) \/ Unblock(w)
      <4>1. UNCHANGED <<watch, timer>>
        BY <3>6 DEF CheckUnseen, Unblock, tables
      <4> QED
        BY <2>b, <3>1, <3>2, <3>3, <3>4, <4>1
    <3> QED
      BY <2>6, <3>5, <3>6
  <2>7. ASSUME NEW w \in Workers, Retry(w) \/ BlockVendor(w) \/ AlertManager(w) PROVE WatchInv'
    <3>1. /\ worker[w].pc \in {"retry", "block", "alert"}
          /\ worker[w].row \in Rows /\ worker[w].row.step < 3
      BY <2>7, <2>a
         DEF Retry, BlockVendor, AlertManager, At, SnapshotFits, RungFits, RowFits, InHand,
             Rungs, Rows
    <3>2. worker[w].row.order \in Orders
      BY <3>1 DEF Rows
    <3>3. status[worker[w].row.order] \notin Unpaid \cup {"DISPATCH_FAILED"}
      BY <2>a, <3>1 DEF SnapshotFits, RungFits, Rungs
    <3>4. UNCHANGED <<status, watch, step, timer, ack>>
      BY <2>7, <3>3
         DEF Retry, BlockVendor, AlertManager, Dispatch, Dispatchable, Unpaid, Hand
    <3>5. \A pc \in {"alert", "advance"} :
            (pc = "alert" => worker[w].row.step = 2)
              => SnapshotFits([worker[w] EXCEPT !.pc = pc], status)
      BY <2>a, <3>1, <3>3 DEF SnapshotFits, RowsAhead, RungFits, Rungs, WorkerRecords
    <3>6. BlockVendor(w) => worker[w].row.step = 2
      BY <2>a DEF BlockVendor, At, SnapshotFits, RungFits
    <3>7. (Goto(w, "alert") /\ worker[w].row.step = 2) \/ Goto(w, "advance")
      BY <2>7, <3>6 DEF Retry, BlockVendor, AlertManager
    <3>8. SnapshotsFit'
      BY <2>a, <3>4, <3>5, <3>7, OneReplica DEF Goto, Become
    <3> QED
      BY <2>b, <3>4, <3>8
  <2>8. ASSUME NEW w \in Workers, FailDispatch(w) PROVE WatchInv'
    <3>1. worker[w].row \in Rows /\ worker[w].row.order \in Orders
      BY <2>8, <2>a DEF FailDispatch, At, RowFits, InHand, Rungs, Rows
    <3>2. \A d \in worker[w].due : d.order \in Orders /\ d.order # worker[w].row.order
      BY <2>8, <2>a DEF FailDispatch, At, SnapshotFits, Rungs, WorkerRecords, Rows
    <3>3. CASE TransitionAccepted(status[worker[w].row.order], "DISPATCH_FAILED")
      <4>1. status' = [status EXCEPT ![worker[w].row.order] = "DISPATCH_FAILED"]
        BY <2>8, <3>3 DEF FailDispatch, Hand
      <4>2. RowsAhead([worker[w] EXCEPT !.pc = "advance"], status')
        BY <2>a, <3>2, <4>1 DEF SnapshotFits, RowsAhead, StillFits, WorkerRecords, TypeOK
      <4>3. SnapshotFits([worker[w] EXCEPT !.pc = "advance"], status')
        BY <2>a, <3>1, <3>2, <4>1, <4>2
           DEF SnapshotFits, RungFits, Rungs, Unpaid, WorkerRecords, TypeOK
      <4>4. SnapshotsFit'
        BY <2>8, <2>a, <3>3, <4>3, OneReplica DEF FailDispatch, Hand, Goto, Become
      <4>5. ack[worker[w].row.order] = "none"
        BY <3>1, <3>3 DEF RowsFit, TransitionAccepted, CanTransition, Allowed, Statuses
      <4>6. RowsFit'
        BY <2>8, <3>1, <3>3, <4>1, <4>5 DEF FailDispatch, Hand, RowsFit, Unpaid, TypeOK
      <4> QED
        BY <4>4, <4>6
    <3>4. CASE ~TransitionAccepted(status[worker[w].row.order], "DISPATCH_FAILED")
      <4>1. UNCHANGED <<status, watch, step, timer, ack>> /\ Become(w, Idle)
        BY <2>8, <3>4 DEF FailDispatch, Hand
      <4> QED
        BY <2>a, <2>b, <4>1, OneReplica, SnapshotMoves
    <3> QED
      BY <3>3, <3>4
  <2>9. ASSUME NEW w \in Workers, Advance(w) PROVE WatchInv'
    <3>1. worker[w].row \in Rows
      BY <2>9, <2>a DEF Advance, At, RowFits, InHand, Rungs
    <3>2. worker[w].row.order \in Orders /\ worker[w].row.step \in 0..4
      BY <3>1 DEF Rows
    <3>3. worker[w].row.step = 3 =>
            status[worker[w].row.order] \notin Unpaid \cup {"DISPATCHED"}
      BY <2>9, <2>a DEF Advance, At, SnapshotFits, RungFits
    <3>4. SnapshotsFit'
      BY <2>9, <2>a, OneReplica, SnapshotMoves DEF Advance, Done
    <3>5. RowsFit'
      BY <2>9, <3>2, <3>3 DEF Advance, Hand, RowsFit, TypeOK
    <3> QED
      BY <3>4, <3>5
  <2>10. ASSUME NEW o \in Orders, NEW to \in Statuses, Accept(o) \/ Confirm(o) \/ Leave(o, to)
         PROVE  WatchInv'
    <3>1. \A w \in Workers : SnapshotFits(worker[w], status')
      BY <2>10, <2>a, OthersMove DEF Accept, Confirm, Leave
    <3>2. SnapshotsFit'
      BY <2>10, <3>1 DEF Accept, Confirm, Leave, SnapshotsFit
    <3>3. RowsFit'
      BY <2>10 DEF Accept, Confirm, Leave, RowsFit, Unpaid, TypeOK
    <3> QED
      BY <3>2, <3>3
  <2>11. ASSUME NEW o \in Orders,
                AckCancel(o) \/ AckCheck(o) \/ AckUnblock(o) \/ TimePasses(o) \/ RequestCrash(o)
         PROVE  WatchInv'
    <3>1. SnapshotsFit'
      BY <2>11, <2>c DEF AckCancel, AckCheck, AckUnblock, TimePasses, RequestCrash, tables
    <3>2. RowsFit'
      BY <2>11
         DEF AckCancel, AckCheck, AckUnblock, TimePasses, RequestCrash, CancelWatch, RowsFit,
             TypeOK, tables
    <3> QED
      BY <3>1, <3>2
  <2>12. CASE UNCHANGED vars
    BY <2>12, <2>b, <2>c DEF vars
  <2>13. Statuses # {}
    BY DEF Statuses
  <2> QED
    BY <2>1, <2>2, <2>3, <2>4, <2>5, <2>6, <2>7, <2>8, <2>9, <2>10, <2>11, <2>12, <2>13
       DEF Next, Continue
<1>3. WatchInv => DispatchedIsWatched
  BY DEF WatchInv, RowsFit, DispatchedIsWatched
<1> QED
  BY <1>1, <1>2, <1>3, Typing, PTL DEF Spec

-----------------------------------------------------------------------------
(* The screens.                                                            *)

Shown == Statuses \cup {"none", "absent"}

ScreensTypeOK ==
  /\ view \in Views /\ order \in Statuses
  /\ listener \in [client : 0..1, forgotten : Nat, starts : Nat]
  /\ socket \in BOOLEAN /\ event \in BOOLEAN
  /\ query \in [data : Shown, fetching : BOOLEAN, got : Shown]
  /\ seen \in Shown /\ bell \in BOOLEAN /\ toast \in Shown

(* The board's hook remembers the ticket it last saw and nothing else: a   *)
(* board without the ticket has forgotten it, whichever answers were lost. *)
OnBoard == {"none", "absent"} \cup LIVE
BoardInv ==
  view = "board" =>
    /\ query.data \in OnBoard /\ query.got \in OnBoard
    /\ seen = IF query.data \in LIVE THEN query.data ELSE "none"

(* Most steps leave the data, the hook and what is on its way alone.       *)
LEMMA DataRests ==
  ASSUME ScreensTypeOK, BoardInv, UNCHANGED <<view, seen>>, query'.data = query.data,
         query'.got \in {"none", query.got}
  PROVE  BoardInv'
BY DEF BoardInv, OnBoard

LEMMA Again ==
  ASSUME ScreensTypeOK
  PROVE  /\ Invalidated(query) \in [data : Shown, fetching : BOOLEAN, got : Shown]
         /\ Invalidated(query).data = query.data
         /\ Invalidated(query).got \in {"none", query.got}
BY DEF ScreensTypeOK, Shown, Invalidated

(* Track.tsx, notify.tsx, bus.ts: the screens' data is always a status of  *)
(* the order or the lack of one, and a counted connection never goes below *)
(* zero, whatever dies and reconnects.                                     *)
THEOREM ScreenTypes == ScreensSpec => [](ScreensTypeOK /\ BoardInv)
<1>1. ScreensInit => ScreensTypeOK /\ BoardInv
  <2> SUFFICES ASSUME ScreensInit PROVE ScreensTypeOK /\ BoardInv
    OBVIOUS
  <2>1. order \in Statuses
    BY DEF ScreensInit, Statuses
  <2>2. listener \in [client : 0..1, forgotten : Nat, starts : Nat]
    BY DEF ScreensInit
  <2>3. query \in [data : Shown, fetching : BOOLEAN, got : Shown] /\ query.data = "none" /\ query.got = "none"
    BY DEF ScreensInit, Shown
  <2>4. seen \in Shown /\ toast \in Shown
    BY DEF ScreensInit, Shown
  <2>5. "none" \notin LIVE
    BY DEF LIVE
  <2>6. ScreensTypeOK
    BY <2>1, <2>2, <2>3, <2>4 DEF ScreensInit, ScreensTypeOK
  <2>7. BoardInv
    BY <2>3, <2>5 DEF ScreensInit, BoardInv, OnBoard
  <2> QED
    BY <2>6, <2>7
<1>2. ScreensTypeOK /\ BoardInv /\ [ScreensNext]_screensVars => ScreensTypeOK' /\ BoardInv'
  <2> SUFFICES ASSUME ScreensTypeOK, BoardInv, [ScreensNext]_screensVars
               PROVE  ScreensTypeOK' /\ BoardInv'
    OBVIOUS
  <2>1. ASSUME NEW to \in Statuses, Transition(to) PROVE ScreensTypeOK' /\ BoardInv'
    <3>1. event' \in BOOLEAN
      BY <2>1 DEF Transition
    <3> QED
      BY <2>1, <3>1, DataRests DEF Transition, ScreensTypeOK
  <2>2. CASE ClientDies \/ Start
    <3>1. listener' \in [client : 0..1, forgotten : Nat, starts : Nat]
      <4> listener \in [client : 0..1, forgotten : Nat, starts : Nat]
        BY DEF ScreensTypeOK
      <4>1. listener.client \in 0..1 /\ listener.forgotten \in Nat /\ listener.starts \in Nat
        OBVIOUS
      <4>2. CASE listener.client = 1 /\ listener' = [listener EXCEPT !.client = 0, !.starts = @ + 2]
        <5>1. listener' = [client |-> 0, forgotten |-> listener.forgotten,
                           starts |-> listener.starts + 2]
          BY <4>2
        <5> QED
          BY <4>1, <5>1
      <4>3. CASE /\ listener.forgotten > 0
                 /\ listener' = [client |-> 0, forgotten |-> listener.forgotten - 1,
                                 starts |-> listener.starts + 2 + listener.client]
        BY <4>1, <4>3
      <4>4. CASE Start
        <5>1. listener.starts > 0
          BY <4>4 DEF Start
        <5>2. listener.forgotten + listener.client \in Nat /\ listener.starts - 1 \in Nat
              /\ listener.starts + 1 \in Nat
          BY <4>1, <5>1
        <5> QED
          BY <4>4, <5>2 DEF Start
      <4> QED
        BY <2>2, <4>2, <4>3, <4>4 DEF ClientDies
    <3>2. UNCHANGED <<view, order, socket, event, query, seen, bell, toast>>
      BY <2>2 DEF ClientDies, Start
    <3> QED
      BY <3>1, <3>2, DataRests DEF ScreensTypeOK
  <2>3. CASE SocketConnects \/ EventArrives
    <3>1. /\ query' = Invalidated(query) /\ socket' \in BOOLEAN /\ event' \in BOOLEAN
          /\ UNCHANGED <<view, order, listener, seen, bell, toast>>
      BY <2>3 DEF SocketConnects, EventArrives, ScreensTypeOK
    <3> QED
      BY <3>1, Again, DataRests DEF ScreensTypeOK
  <2>4. CASE SocketDrops
    BY <2>4, DataRests DEF SocketDrops, ScreensTypeOK
  <2>5. CASE Polls \/ FetchFails
    <3>1. /\ query' \in [data : Shown, fetching : BOOLEAN, got : Shown]
          /\ query'.data = query.data /\ query'.got \in {"none", query.got}
          /\ UNCHANGED <<view, order, listener, socket, event, seen, bell, toast>>
      BY <2>5 DEF Polls, FetchFails, ScreensTypeOK, Shown
    <3> QED
      BY <3>1, DataRests DEF ScreensTypeOK
  <2>6. CASE ServerAnswers
    <3>1. Answer \in Shown /\ (view = "board" => Answer \in OnBoard)
      BY DEF Answer, ScreensTypeOK, Shown, OnBoard
    <3>2. /\ query' \in [data : Shown, fetching : BOOLEAN, got : Shown]
          /\ query'.data = query.data /\ query'.got = Answer
      BY <2>6, <3>1 DEF ServerAnswers, ScreensTypeOK
    <3> QED
      BY <2>6, <3>1, <3>2 DEF ServerAnswers, ScreensTypeOK, BoardInv
  <2>7. CASE Received
    <3>1. query' \in [data : Shown, fetching : BOOLEAN, got : Shown]
          /\ query'.data = query.got /\ query'.got = "none"
      BY <2>7 DEF Received, ScreensTypeOK, Shown
    <3>2. CASE view = "track"
      BY <2>7, <3>1, <3>2 DEF Received, TrackGets, ScreensTypeOK, BoardInv
    <3>3. CASE view = "board"
      <4>1. seen' = (IF query.got = "absent" THEN "none" ELSE query.got)
            /\ bell' \in BOOLEAN /\ UNCHANGED <<view, order, listener, socket, event, toast>>
        BY <2>7, <3>3 DEF Received, BoardGets
      <4>2. query.got \in {"absent"} \cup LIVE /\ "absent" \notin LIVE
        BY <2>7, <3>3 DEF Received, BoardInv, OnBoard, LIVE
      <4> QED
        BY <3>1, <3>3, <4>1, <4>2 DEF ScreensTypeOK, Shown, BoardInv, OnBoard
    <3> QED
      BY <3>2, <3>3 DEF ScreensTypeOK, Views
  <2>8. CASE UNCHANGED screensVars
    BY <2>8, DataRests DEF screensVars, ScreensTypeOK
  <2> QED
    BY <2>1, <2>2, <2>3, <2>4, <2>5, <2>6, <2>7, <2>8 DEF ScreensNext
<1> QED
  BY <1>1, <1>2, PTL DEF ScreensSpec

(* notify.tsx: whatever the socket, the listener and the answers do, a     *)
(* ticket that comes onto the board after the first snapshot and waits to  *)
(* be accepted rings, also one that left the board when its dispatch       *)
(* failed.                                                                 *)
THEOREM TicketsRing == ScreensSpec => NewTicketRings
<1>1. ASSUME ScreensTypeOK, BoardInv, [ScreensNext]_screensVars, view = "board",
             query.data \notin LIVE \cup {"none"}, query'.data \in UNACCEPTED
      PROVE  bell'
  <2>1. query'.data # query.data
    BY <1>1 DEF UNACCEPTED, LIVE
  <2>2. Received
    <3>1. ASSUME NEW to \in Statuses, Transition(to) PROVE FALSE
      BY <2>1, <3>1 DEF Transition
    <3>2. CASE SocketConnects \/ EventArrives
      BY <1>1, <2>1, <3>2, Again DEF SocketConnects, EventArrives
    <3>3. CASE Polls \/ FetchFails \/ ServerAnswers
      BY <1>1, <2>1, <3>3 DEF Polls, FetchFails, ServerAnswers, ScreensTypeOK
    <3>4. CASE ClientDies \/ Start \/ SocketDrops \/ UNCHANGED screensVars
      BY <2>1, <3>4 DEF ClientDies, Start, SocketDrops, screensVars
    <3> QED
      BY <1>1, <3>1, <3>2, <3>3, <3>4 DEF ScreensNext
  <2>3. seen = "none" /\ query'.data = query.got /\ BoardGets(query.got)
    BY <1>1, <2>2 DEF Received, BoardInv
  <2> QED
    BY <1>1, <2>3 DEF BoardGets
<1> QED
  BY <1>1, ScreenTypes, PTL DEF ScreensSpec, NewTicketRings
=============================================================================
