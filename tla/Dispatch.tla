------------------------------ MODULE Dispatch ------------------------------
(***************************************************************************)
(* Dispatch and the escalation ladder (src/src/dispatch): the worker puts  *)
(* paid orders in front of a kitchen and watches them until somebody       *)
(* answers, blocking the stall at the third rung and giving up at the      *)
(* fourth, while kitchens acknowledge and customers cancel.                *)
(*                                                                         *)
(* A worker is one replica of src/src/workers/index.ts.  Its selects lock  *)
(* rows FOR UPDATE SKIP LOCKED outside a transaction, so the locks are     *)
(* gone when the statement ends: it acts on a snapshot.                    *)
(***************************************************************************)
EXTENDS Naturals, FiniteSets, OrderLifecycle

CONSTANTS
  Orders,
  Vendors,
  VendorOf,     \* the stall of an order
  Workers,
  NoRow,        \* "no ladder row in hand"
  MaxAttempts,  \* bound: dispatch attempts are counted up to here
  MaxCrashes    \* bound: how often workers and requests die, together

ASSUME OrdersAssumption == VendorOf \in [Orders -> Vendors]
ASSUME RowsAssumption == NoRow \notin [order : Orders, step : 0..4, waiting : BOOLEAN]
ASSUME BoundsAssumption == MaxAttempts \in Nat /\ MaxCrashes \in Nat

VARIABLES
  status,    \* order.status
  attempts,  \* dispatch_attempt rows of an order
  watch,     \* escalation_state row: "none", "armed" or "cancelled"
  step,      \* escalation_state.step
  timer,     \* escalation_state.next_run_at: null, in the future or passed
  alerted,   \* orders with manager_alerted_at
  offered,   \* orders with customer_offered_cancel_at
  blocked,   \* vendors with dispatch_blocked_at
  worker,    \* what each worker is doing
  ack,       \* the cancelForAcknowledgement call of an order in flight
  crashes

vars == <<status, attempts, watch, step, timer, alerted, offered, blocked,
          worker, ack, crashes>>
tables == <<status, attempts, watch, step, timer, alerted, offered, blocked>>

-----------------------------------------------------------------------------
WatchStates == {"none", "armed", "cancelled"}
Timers == {"null", "future", "passed"}
AckSteps == {"none", "cancel", "check", "unblock"}
WorkerSteps ==
  {"idle", "dispatch", "findStuck", "releaseStuck", "ladder", "cancel", "check",
   "unblock", "retry", "block", "alert", "fail", "advance"}

(* A due row as the sweep selected it.                                     *)
Rows == [order : Orders, step : 0..4, waiting : BOOLEAN]

(* pending: orders claimed for dispatch; due: rows still to handle; stuck: *)
(* stalls found blocked for nothing; row: the row in hand.                 *)
Idle == [pc |-> "idle", pending |-> {}, due |-> {}, stuck |-> {}, row |-> NoRow]

TypeOK ==
  /\ status \in [Orders -> Statuses]
  /\ attempts \in [Orders -> 0..MaxAttempts]
  /\ watch \in [Orders -> WatchStates]
  /\ step \in [Orders -> 0..4]
  /\ timer \in [Orders -> Timers]
  /\ alerted \subseteq Orders /\ offered \subseteq Orders
  /\ blocked \subseteq Vendors
  /\ worker \in [Workers -> [pc : WorkerSteps, pending : SUBSET Orders,
                             due : SUBSET Rows, stuck : SUBSET Vendors,
                             row : Rows \cup {NoRow}]]
  /\ ack \in [Orders -> AckSteps]
  /\ crashes \in 0..MaxCrashes

Init ==
  /\ status = [o \in Orders |-> "PAYMENT_PENDING"]
  /\ attempts = [o \in Orders |-> 0]
  /\ watch = [o \in Orders |-> "none"]
  /\ step = [o \in Orders |-> 0]
  /\ timer = [o \in Orders |-> "null"]
  /\ alerted = {} /\ offered = {} /\ blocked = {}
  /\ worker = [w \in Workers |-> Idle]
  /\ ack = [o \in Orders |-> "none"]
  /\ crashes = 0

-----------------------------------------------------------------------------
(* releaseStaleBlocks and unblockVendor ask the same question.             *)
Unseen(v) ==
  \E o \in Orders :
    /\ VendorOf[o] = v /\ status[o] = "DISPATCHED"
    /\ watch[o] = "armed" /\ step[o] >= 3

CancelWatch(o) ==
  IF watch[o] = "armed"
    THEN /\ watch' = [watch EXCEPT ![o] = "cancelled"]
         /\ timer' = [timer EXCEPT ![o] = "null"]
    ELSE UNCHANGED <<watch, timer>>

(* Mutant: a sweeper arriving late sends the ticket again.                 *)
Dispatchable_StillWaiting(s) == s \in {"PAYMENT_CONFIRMED", "DISPATCH_FAILED", "DISPATCHED"}

Dispatchable(s) == s \in {"PAYMENT_CONFIRMED", "DISPATCH_FAILED"}

(* DispatchRepository.dispatch, one transaction under the order's lock:    *)
(* the attempt, the status and the ladder, or nothing for an order that    *)
(* has moved on.  Delivery always succeeds today.                          *)
Dispatch(o) ==
  IF Dispatchable(status[o])
    THEN /\ attempts' = [attempts EXCEPT ![o] = IF @ < MaxAttempts THEN @ + 1 ELSE @]
         /\ status' = [status EXCEPT ![o] = "DISPATCHED"]
         /\ watch' = [watch EXCEPT ![o] = "armed"]
         /\ step' = [step EXCEPT ![o] = 0]
         /\ timer' = [timer EXCEPT ![o] = "future"]
    ELSE UNCHANGED <<attempts, status, watch, step, timer>>

Become(w, r) == worker' = [worker EXCEPT ![w] = r]
Goto(w, pc) == worker' = [worker EXCEPT ![w].pc = pc]
At(w, pc) == worker[w].pc = pc
Hand(w) == worker[w].row

-----------------------------------------------------------------------------
(* The dispatch sweep of a worker tick.                                    *)

ClaimPending(w) ==
  LET paid == {o \in Orders : status[o] = "PAYMENT_CONFIRMED"}
  IN  /\ worker[w] = Idle /\ paid # {}
      /\ Become(w, [Idle EXCEPT !.pc = "dispatch", !.pending = paid])
      /\ UNCHANGED <<tables, ack, crashes>>

DispatchNext(w) ==
  /\ At(w, "dispatch")
  /\ \E o \in worker[w].pending :
       LET left == worker[w].pending \ {o}
       IN  /\ Dispatch(o)
           /\ Become(w, IF left = {} THEN Idle ELSE [worker[w] EXCEPT !.pending = left])
  /\ UNCHANGED <<alerted, offered, blocked, ack, crashes>>

-----------------------------------------------------------------------------
(* The escalation sweep.                                                   *)

DueRows ==
  {[order |-> o, step |-> step[o], waiting |-> status[o] = "DISPATCHED"] :
     o \in {p \in Orders : watch[p] = "armed" /\ timer[p] = "passed"}}

(* Mutant: stale blocks are looked for when a ladder row is due, not on    *)
(* every sweep.                                                            *)
StartSweep_OnlyWhenDue(w) ==
  /\ worker[w] = Idle
  /\ DueRows # {}
  /\ Become(w, [Idle EXCEPT !.pc = "findStuck", !.due = DueRows])
  /\ UNCHANGED <<tables, ack, crashes>>

(* A sweep with no row due and no stall blocked does nothing.              *)
StartSweep(w) ==
  /\ worker[w] = Idle
  /\ DueRows # {} \/ blocked # {}
  /\ Become(w, [Idle EXCEPT !.pc = "findStuck", !.due = DueRows])
  /\ UNCHANGED <<tables, ack, crashes>>

FindStuck(w) ==
  LET stuck == {v \in blocked : ~Unseen(v)}
  IN  /\ At(w, "findStuck")
      /\ Become(w, [worker[w] EXCEPT !.stuck = stuck,
                                     !.pc = IF stuck = {} THEN "ladder" ELSE "releaseStuck"])
      /\ UNCHANGED <<tables, ack, crashes>>

ReleaseStuck(w) ==
  /\ At(w, "releaseStuck")
  /\ blocked' = blocked \ worker[w].stuck
  /\ Become(w, [worker[w] EXCEPT !.stuck = {}, !.pc = "ladder"])
  /\ UNCHANGED <<status, attempts, watch, step, timer, alerted, offered, ack, crashes>>

LadderAction == <<"retry", "retry", "block", "fail">>

(* decideLadderStep on what the select saw.                                *)
Decision(r) == IF r.waiting /\ r.step < 4 THEN LadderAction[r.step + 1] ELSE "cancel"
UnblocksToo(r) == ~r.waiting /\ r.step + 1 >= 3

NextRow(w) ==
  /\ At(w, "ladder")
  /\ IF worker[w].due = {}
       THEN Become(w, Idle)
       ELSE \E r \in worker[w].due :
              Become(w, [worker[w] EXCEPT !.due = @ \ {r}, !.row = r, !.pc = Decision(r)])
  /\ UNCHANGED <<tables, ack, crashes>>

Done(w) == Become(w, [worker[w] EXCEPT !.pc = "ladder", !.row = NoRow])

CancelLadder(w) ==
  /\ At(w, "cancel")
  /\ CancelWatch(Hand(w).order)
  /\ IF UnblocksToo(Hand(w)) THEN Goto(w, "check") ELSE Done(w)
  /\ UNCHANGED <<status, attempts, step, alerted, offered, blocked, ack, crashes>>

(* unblockVendor: a read, and a write on what was read.                    *)
CheckUnseen(w) ==
  /\ At(w, "check")
  /\ IF Unseen(VendorOf[Hand(w).order]) THEN Done(w) ELSE Goto(w, "unblock")
  /\ UNCHANGED <<tables, ack, crashes>>

Unblock(w) ==
  /\ At(w, "unblock")
  /\ blocked' = blocked \ {VendorOf[Hand(w).order]}
  /\ Done(w)
  /\ UNCHANGED <<status, attempts, watch, step, timer, alerted, offered, ack, crashes>>

(* Rungs 1 and 2 call dispatch again.                                      *)
Retry(w) ==
  /\ At(w, "retry")
  /\ Dispatch(Hand(w).order)
  /\ Goto(w, "advance")
  /\ UNCHANGED <<alerted, offered, blocked, ack, crashes>>

(* Rung 3: the stall is blocked, then the manager is alerted, and only     *)
(* then (Advance) does the row say so.                                     *)
BlockVendor(w) ==
  /\ At(w, "block")
  /\ blocked' = blocked \cup {VendorOf[Hand(w).order]}
  /\ Goto(w, "alert")
  /\ UNCHANGED <<status, attempts, watch, step, timer, alerted, offered, ack, crashes>>

AlertManager(w) ==
  /\ At(w, "alert")
  /\ alerted' = alerted \cup {Hand(w).order}
  /\ Goto(w, "advance")
  /\ UNCHANGED <<status, attempts, watch, step, timer, offered, blocked, ack, crashes>>

(* Rung 4, in a transaction.  An order that may not fail any more aborts   *)
(* the whole sweep.                                                        *)
FailDispatch(w) ==
  LET o == Hand(w).order
  IN  /\ At(w, "fail")
      /\ IF TransitionAccepted(status[o], "DISPATCH_FAILED")
           THEN /\ status' = [status EXCEPT ![o] = "DISPATCH_FAILED"]
                /\ offered' = offered \cup {o}
                /\ step' = [step EXCEPT ![o] = 4]
                /\ Goto(w, "advance")
           ELSE UNCHANGED <<status, offered, step>> /\ Become(w, Idle)
      /\ UNCHANGED <<attempts, watch, timer, alerted, blocked, ack, crashes>>

(* Mutant: rung 2 schedules nothing.                                       *)
Advance_ForgetsThird(w) ==
  LET r == Hand(w)
  IN  /\ At(w, "advance")
      /\ step' = [step EXCEPT ![r.order] = r.step + 1]
      /\ timer' = [timer EXCEPT ![r.order] = IF r.step + 1 >= 2 THEN "null" ELSE "future"]
      /\ Done(w)
      /\ UNCHANGED <<status, attempts, watch, alerted, offered, blocked, ack, crashes>>

(* The rung is recorded and the next one scheduled, whatever the row or    *)
(* the order have become since the select.                                 *)
Advance(w) ==
  LET r == Hand(w)
  IN  /\ At(w, "advance")
      /\ step' = [step EXCEPT ![r.order] = r.step + 1]
      /\ timer' = [timer EXCEPT ![r.order] = IF r.step + 1 = 4 THEN "null" ELSE "future"]
      /\ Done(w)
      /\ UNCHANGED <<status, attempts, watch, alerted, offered, blocked, ack, crashes>>

-----------------------------------------------------------------------------
(* The kitchen, the customer and the rest.                                 *)

(* The ACKNOWLEDGED half of accept; cancelForAcknowledgement follows it    *)
(* outside the transaction.                                                *)
Accept(o) ==
  /\ status[o] = "DISPATCHED"
  /\ status' = [status EXCEPT ![o] = "ACKNOWLEDGED"]
  /\ ack' = [ack EXCEPT ![o] = "cancel"]
  /\ UNCHANGED <<attempts, watch, step, timer, alerted, offered, blocked, worker, crashes>>

AckCancel(o) ==
  /\ ack[o] = "cancel"
  /\ CancelWatch(o)
  /\ ack' = [ack EXCEPT ![o] = "check"]
  /\ UNCHANGED <<status, attempts, step, alerted, offered, blocked, worker, crashes>>

AckCheck(o) ==
  /\ ack[o] = "check"
  /\ ack' = [ack EXCEPT ![o] = IF Unseen(VendorOf[o]) THEN "none" ELSE "unblock"]
  /\ UNCHANGED <<tables, worker, crashes>>

AckUnblock(o) ==
  /\ ack[o] = "unblock"
  /\ blocked' = blocked \ {VendorOf[o]}
  /\ ack' = [ack EXCEPT ![o] = "none"]
  /\ UNCHANGED <<status, attempts, watch, step, timer, alerted, offered, worker, crashes>>

(* The payment engine confirms the order.                                  *)
Confirm(o) ==
  /\ status[o] = "PAYMENT_PENDING"
  /\ status' = [status EXCEPT ![o] = "PAYMENT_CONFIRMED"]
  /\ UNCHANGED <<attempts, watch, step, timer, alerted, offered, blocked, worker, ack, crashes>>

(* The kitchen rejects, the customer or the console cancels, the refund    *)
(* engine opens a refund: nothing here tells the ladder.                   *)
Leave(o, to) ==
  /\ status[o] \in {"DISPATCHED", "DISPATCH_FAILED"}
  /\ to \in {"REJECTED", "CANCELLED", "REFUND_PENDING"} /\ CanTransition(status[o], to)
  /\ status' = [status EXCEPT ![o] = to]
  /\ UNCHANGED <<attempts, watch, step, timer, alerted, offered, blocked, worker, ack, crashes>>

TimePasses(o) ==
  /\ timer[o] = "future"
  /\ timer' = [timer EXCEPT ![o] = "passed"]
  /\ UNCHANGED <<status, attempts, watch, step, alerted, offered, blocked, worker, ack, crashes>>

WorkerCrash(w) ==
  /\ worker[w] # Idle /\ crashes < MaxCrashes
  /\ crashes' = crashes + 1
  /\ Become(w, Idle)
  /\ UNCHANGED <<tables, ack>>

RequestCrash(o) ==
  /\ ack[o] # "none" /\ crashes < MaxCrashes
  /\ crashes' = crashes + 1
  /\ ack' = [ack EXCEPT ![o] = "none"]
  /\ UNCHANGED <<tables, worker>>

-----------------------------------------------------------------------------
Continue(w) ==
  \/ DispatchNext(w) \/ FindStuck(w) \/ ReleaseStuck(w) \/ NextRow(w)
  \/ CancelLadder(w) \/ CheckUnseen(w) \/ Unblock(w) \/ Retry(w)
  \/ BlockVendor(w) \/ AlertManager(w) \/ FailDispatch(w) \/ Advance(w)

Next ==
  \/ \E w \in Workers :
       ClaimPending(w) \/ StartSweep(w) \/ Continue(w) \/ WorkerCrash(w)
  \/ \E o \in Orders :
       \/ Accept(o) \/ AckCancel(o) \/ AckCheck(o) \/ AckUnblock(o)
       \/ Confirm(o) \/ TimePasses(o) \/ RequestCrash(o)
       \/ \E to \in Statuses : Leave(o, to)

Spec == Init /\ [][Next]_vars

(* A worker's loop runs both sweeps on every tick and finishes what it     *)
(* began; the clock moves.  Kitchens, customers and requests owe nothing.  *)
Fairness ==
  /\ \A w \in Workers :
       SF_vars(ClaimPending(w)) /\ SF_vars(StartSweep(w)) /\ WF_vars(Continue(w))
  /\ \A o \in Orders : WF_vars(TimePasses(o))

LiveSpec == Spec /\ Fairness

-----------------------------------------------------------------------------
(* A ticket in front of a kitchen is always watched: its ladder is armed   *)
(* and has a next rung (the comment on arming it in dispatch, ESC-01).     *)
DispatchedIsWatched ==
  \A o \in Orders :
    status[o] = "DISPATCHED" => watch[o] = "armed" /\ timer[o] # "null"

(* Sweeping twice, retrying a rung and crashing in between send no second  *)
(* ticket, unless the first was declared failed.                           *)
OneTicket == \A o \in Orders : attempts[o] > 1 => o \in offered

(* Nobody is offered a cancellation for a stall that was never blocked and *)
(* reported: the ladder is climbed in order, across restarts.              *)
AlertedBeforeOffered == offered \subseteq alerted

(* A paid order is not left unanswered: the kitchen takes it, somebody     *)
(* ends it, or the dispatch fails and the customer is offered the money.   *)
TicketIsAnswered ==
  \A o \in Orders : status[o] = "PAYMENT_CONFIRMED" ~> status[o] \notin {"PAYMENT_CONFIRMED", "DISPATCHED"}

(* No stall stays blocked with nothing left to acknowledge, by whichever   *)
(* route its orders went (the comment on releaseStaleBlocks).              *)
BlockIsLifted ==
  \A v \in Vendors : v \in blocked /\ ~Unseen(v) ~> v \notin blocked \/ Unseen(v)
=============================================================================
