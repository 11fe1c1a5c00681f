------------------------------- MODULE Worker -------------------------------
(***************************************************************************)
(* The worker tick and the notifications it sends (src/src/workers/        *)
(* index.ts, src/src/notify): three of its sweeps put somebody in the      *)
(* picture - the customer when a ticket was dispatched, the person on call *)
(* when a stall does not answer, the customer when the food is ready - by  *)
(* walking a ladder of channels, each claimed in the notification table    *)
(* before it is used.  Dispatch and Refunds model what the sweeps do to an *)
(* order; here it is who is told, by replicas that die and throw.          *)
(***************************************************************************)
EXTENDS Naturals, Sequences, FiniteSets

CONSTANTS
  Orders,
  Workers,
  NoOrder,
  Phoneless,    \* orders whose customer has no verified number
  OnCall,       \* whether OPS_ONCALL_PHONE is set
  ReadyLimit,   \* notifyReady's limit, 50 in the code
  CustomerTiers,\* the customer's ladder; in the code socket, push, WhatsApp, SMS
  Prompt,       \* whether a send takes less than STALE_QUEUED_SECONDS
  MaxFaults     \* bound: how often a worker dies or a sweep throws, together

ASSUME OrdersAssumption == NoOrder \notin Orders /\ Phoneless \subseteq Orders
ASSUME ConfigAssumption ==
  /\ OnCall \in BOOLEAN /\ Prompt \in BOOLEAN /\ ReadyLimit \in Nat \ {0}
  /\ MaxFaults \in Nat

Events == {"confirmed", "stuck", "ready"}
Tiers == {"WEBSOCKET", "WEB_PUSH", "WHATSAPP", "SMS"}
ASSUME TiersAssumption == CustomerTiers \in Seq(Tiers) /\ CustomerTiers # <<>>

VARIABLES
  status,    \* order.status
  shelf,     \* orders that became READY in the last hour, by ready_at
  alerted,   \* orders with escalation_state.manager_alerted_at
  note,      \* notification.status by order, event and tier
  messages,  \* what really left, by order, event and tier, counted up to 2
  worker,    \* what each replica is doing
  faults

workerVars == <<status, shelf, alerted, note, messages, worker, faults>>

-----------------------------------------------------------------------------
(* buildCustomerLadder and buildOpsLadder.                                 *)
Ladder(event) ==
  IF event = "stuck" THEN <<"WHATSAPP", "SMS">> ELSE CustomerTiers

HasRecipient(o, event) == IF event = "stuck" THEN OnCall ELSE o \notin Phoneless

(* The socket and push channels do not run yet; the other two need         *)
(* somebody to send to.                                                    *)
Available(o, event, tier) == tier \in {"WHATSAPP", "SMS"} /\ HasRecipient(o, event)

(* The sweeps of a tick that notify, in the order of the tick.             *)
Sweeps == <<"dispatch", "escalation", "ready">>
EventOf(sweep) ==
  CASE sweep = "dispatch" -> "confirmed"
    [] sweep = "escalation" -> "stuck"
    [] sweep = "ready" -> "ready"

(* pc: select the sweep's orders, take the next one, look whether it was   *)
(* already told, claim a rung, send, record.                               *)
AtSweep(n) == [pc |-> "select", sweep |-> n, todo |-> <<>>, hand |-> NoOrder,
               rung |-> 1, outcome |-> "none"]
NextSweep(w) == AtSweep((worker[w].sweep % Len(Sweeps)) + 1)

WorkerInit ==
  /\ status = [o \in Orders |-> "PAYMENT_CONFIRMED"]
  /\ shelf = <<>> /\ alerted = {}
  /\ note = [o \in Orders |-> [e \in Events |-> [t \in Tiers |-> "none"]]]
  /\ messages = [o \in Orders |-> [e \in Events |-> [t \in Tiers |-> 0]]]
  /\ worker = [w \in Workers |-> AtSweep(1)]
  /\ faults = 0

Sweep(w) == Sweeps[worker[w].sweep]
Event(w) == EventOf(Sweep(w))
Hand(w) == worker[w].hand
Tier(w) == Ladder(Event(w))[worker[w].rung]
At(w, pc) == worker[w].pc = pc
Then(w, state) == worker' = [worker EXCEPT ![w] = state]

-----------------------------------------------------------------------------
(* The sweeps select what they will work through.                          *)

(* Any listing of a set: the models leave the order of these two open.     *)
Listings(S) == {q \in [1..Cardinality(S) -> S] : \A i, j \in DOMAIN q : i # j => q[i] # q[j]}

SelectPending(w) ==
  /\ At(w, "select") /\ Sweep(w) = "dispatch"
  /\ \E q \in Listings({o \in Orders : status[o] = "PAYMENT_CONFIRMED"}) :
       Then(w, [worker[w] EXCEPT !.pc = "next", !.todo = q])
  /\ UNCHANGED <<status, shelf, alerted, note, messages, faults>>

(* escalation.sweep marks the orders it found overdue before it returns    *)
(* them to be paged about.                                                 *)
SelectOverdue(w) ==
  /\ At(w, "select") /\ Sweep(w) = "escalation"
  /\ \E overdue \in SUBSET {o \in Orders : status[o] = "DISPATCHED" /\ o \notin alerted} :
       /\ alerted' = alerted \cup overdue
       /\ \E q \in Listings(overdue) : Then(w, [worker[w] EXCEPT !.pc = "next", !.todo = q])
  /\ UNCHANGED <<status, shelf, note, messages, faults>>

(* notifyReady: the oldest of the last hour's orders that still wait, told *)
(* or not.                                                                 *)
SelectReady(w) ==
  LET ready == SelectSeq(shelf, LAMBDA o : status[o] = "READY")
      first == IF Len(ready) < ReadyLimit THEN Len(ready) ELSE ReadyLimit
  IN /\ At(w, "select") /\ Sweep(w) = "ready"
     /\ Then(w, [worker[w] EXCEPT !.pc = "next", !.todo = SubSeq(ready, 1, first)])
     /\ UNCHANGED <<status, shelf, alerted, note, messages, faults>>

(* The next order of the sweep; a dispatch that finds its order gone tells *)
(* nobody.                                                                 *)
NextOrder(w) ==
  LET todo == worker[w].todo
      o == Head(todo)
      told == [worker[w] EXCEPT !.pc = "sent?", !.todo = Tail(todo), !.hand = o, !.rung = 1]
  IN /\ At(w, "next") /\ todo # <<>>
     /\ IF Sweep(w) = "dispatch"
        THEN IF status[o] = "PAYMENT_CONFIRMED"
             THEN Then(w, told) /\ status' = [status EXCEPT ![o] = "DISPATCHED"]
             ELSE Then(w, [worker[w] EXCEPT !.todo = Tail(todo)]) /\ UNCHANGED status
        ELSE Then(w, told) /\ UNCHANGED status
     /\ UNCHANGED <<shelf, alerted, note, messages, faults>>

EndSweep(w) ==
  /\ At(w, "next") /\ worker[w].todo = <<>>
  /\ Then(w, NextSweep(w))
  /\ UNCHANGED <<status, shelf, alerted, note, messages, faults>>

-----------------------------------------------------------------------------
(* One walk down the ladder.                                               *)

Forward(w) == [worker[w] EXCEPT !.pc = "next", !.hand = NoOrder, !.rung = 1, !.outcome = "none"]
NextRung(w) ==
  IF worker[w].rung = Len(Ladder(Event(w))) THEN Forward(w)
  ELSE [worker[w] EXCEPT !.pc = "claim", !.rung = @ + 1, !.outcome = "none"]

(* Mutant: a claim counts as a delivery.                                   *)
CheckSent_AnyClaim(w) ==
  /\ At(w, "sent?")
  /\ Then(w, IF \E t \in Tiers : note[Hand(w)][Event(w)][t] # "none" THEN Forward(w)
             ELSE [worker[w] EXCEPT !.pc = "claim"])
  /\ UNCHANGED <<status, shelf, alerted, note, messages, faults>>

(* Mutant: a delivery of any event counts.                                 *)
CheckSent_AnyEvent(w) ==
  /\ At(w, "sent?")
  /\ Then(w, IF \E e \in Events, t \in Tiers : note[Hand(w)][e][t] = "SENT" THEN Forward(w)
             ELSE [worker[w] EXCEPT !.pc = "claim"])
  /\ UNCHANGED <<status, shelf, alerted, note, messages, faults>>

(* A tier that delivered the event ends it before the walk.                *)
CheckSent(w) ==
  /\ At(w, "sent?")
  /\ Then(w, IF \E t \in Tiers : note[Hand(w)][Event(w)][t] = "SENT" THEN Forward(w)
             ELSE [worker[w] EXCEPT !.pc = "claim"])
  /\ UNCHANGED <<status, shelf, alerted, note, messages, faults>>

(* Mutant: a claim that is being worked on can be taken over.              *)
Claimable_Queued(row) == row \in {"none", "QUEUED", "stale"}

(* The unique index decides who gets a free rung; a claim left by a crash  *)
(* is taken over when it is stale, without writing anything.               *)
Claimable(row) == row \in {"none", "stale"}

Claim(w) ==
  LET row == note[Hand(w)][Event(w)][Tier(w)]
  IN /\ At(w, "claim")
     /\ IF Claimable(row)
        THEN /\ note' = [note EXCEPT ![Hand(w)][Event(w)][Tier(w)] =
                           IF row = "none" THEN "QUEUED" ELSE row]
             /\ Then(w, IF Available(Hand(w), Event(w), Tier(w))
                        THEN [worker[w] EXCEPT !.pc = "send"]
                        ELSE [worker[w] EXCEPT !.pc = "record", !.outcome = "SKIPPED"])
        ELSE UNCHANGED note /\ Then(w, NextRung(w))
     /\ UNCHANGED <<status, shelf, alerted, messages, faults>>

UpToTwo(n) == IF n = 2 THEN 2 ELSE n + 1

SendOn(w) ==
  /\ At(w, "send")
  /\ messages' = [messages EXCEPT ![Hand(w)][Event(w)][Tier(w)] = UpToTwo(@)]
  /\ Then(w, [worker[w] EXCEPT !.pc = "record", !.outcome = "SENT"])
  /\ UNCHANGED <<status, shelf, alerted, note, faults>>

(* The outcome is written on the row by its key; SENT ends the walk.       *)
Record(w) ==
  /\ At(w, "record")
  /\ note' = [note EXCEPT ![Hand(w)][Event(w)][Tier(w)] = worker[w].outcome]
  /\ Then(w, IF worker[w].outcome = "SENT" THEN Forward(w) ELSE NextRung(w))
  /\ UNCHANGED <<status, shelf, alerted, messages, faults>>

-----------------------------------------------------------------------------
(* What goes wrong, and what goes on meanwhile.                            *)

(* safely: an exception ends the sweep, and the tick goes on with the next.*)
Throw(w) ==
  /\ faults < MaxFaults /\ ~At(w, "select")
  /\ faults' = faults + 1
  /\ Then(w, NextSweep(w))
  /\ UNCHANGED <<status, shelf, alerted, note, messages>>

Crash(w) ==
  /\ faults < MaxFaults
  /\ worker[w] # AtSweep(1)
  /\ faults' = faults + 1
  /\ Then(w, AtSweep(1))
  /\ UNCHANGED <<status, shelf, alerted, note, messages>>

InHand(o, e, t) ==
  \E w \in Workers : worker[w].pc \in {"send", "record"}
                     /\ Hand(w) = o /\ Event(w) = e /\ Tier(w) = t

(* Two minutes pass over a claim.                                          *)
GoStale(o, e, t) ==
  /\ note[o][e][t] = "QUEUED"
  /\ Prompt => ~InHand(o, e, t)
  /\ note' = [note EXCEPT ![o][e][t] = "stale"]
  /\ UNCHANGED <<status, shelf, alerted, messages, worker, faults>>

(* The kitchen and the customer.                                           *)
KitchenMove(o) ==
  /\ \/ /\ status[o] = "DISPATCHED"
        /\ status' = [status EXCEPT ![o] = "READY"]
        /\ shelf' = Append(shelf, o)
     \/ /\ status[o] = "READY"
        /\ status' = [status EXCEPT ![o] = "COLLECTED"]
        /\ UNCHANGED shelf
  /\ UNCHANGED <<alerted, note, messages, worker, faults>>

(* The oldest order has waited for more than an hour.                      *)
HourPasses ==
  /\ shelf # <<>>
  /\ shelf' = Tail(shelf)
  /\ UNCHANGED <<status, alerted, note, messages, worker, faults>>

Work(w) ==
  \/ SelectPending(w) \/ SelectOverdue(w) \/ SelectReady(w) \/ NextOrder(w)
  \/ EndSweep(w) \/ CheckSent(w) \/ Claim(w) \/ SendOn(w) \/ Record(w)

WorkerNext ==
  \/ \E w \in Workers : Work(w) \/ Throw(w) \/ Crash(w)
  \/ \E o \in Orders, e \in Events, t \in Tiers : GoStale(o, e, t)
  \/ \E o \in Orders : KitchenMove(o)
  \/ HourPasses

WorkerSpec == WorkerInit /\ [][WorkerNext]_workerVars

(* The loop never stops; two minutes pass.                                 *)
WorkerLiveSpec ==
  /\ WorkerSpec
  /\ \A w \in Workers : WF_workerVars(Work(w))
  /\ \A o \in Orders, e \in Events, t \in Tiers : WF_workerVars(GoStale(o, e, t))

-----------------------------------------------------------------------------
(* Properties.                                                             *)

(* PRD 10, notification.repository.ts:4: the same event is not sent twice  *)
(* on one channel, whichever replicas react to it, while none of them dies *)
(* or throws between the claim and the record.                             *)
OncePerTier ==
  faults = 0 =>
    \A o \in Orders, e \in Events, t \in Tiers : messages[o][e][t] <= 1

InTheLastHour(o) == \E i \in DOMAIN shelf : shelf[i] = o
Told(o, event) == \E t \in Tiers : messages[o][event][t] > 0

(* "The single message the product owes a customer" (index.ts:377): food   *)
(* that stays on the counter for the hour is announced, whatever died or   *)
(* threw on the way, because each walk looks for a delivery and not for a  *)
(* claim.                                                                  *)
ReadyIsTold ==
  \A o \in Orders \ Phoneless :
    status[o] = "READY" /\ InTheLastHour(o) ~>
      Told(o, "ready") \/ status[o] # "READY" \/ ~InTheLastHour(o)

(* Marking an order as alerted and paging about it are apart (index.ts:    *)
(* 213-256): no walk of another event or of another replica keeps the page *)
(* from leaving, only a death or an exception in between does.             *)
AlertedIsPaged ==
  OnCall => \A o \in Orders : o \in alerted ~> Told(o, "stuck") \/ faults > 0
=============================================================================
