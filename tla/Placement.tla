----------------------------- MODULE Placement -----------------------------
(***************************************************************************)
(* Order placement (src/src/ordering/order.controller.ts and placeOrder in *)
(* order.repository.ts): taps on "place order", each a request that proves *)
(* its session, then runs one READ COMMITTED transaction under two row     *)
(* locks, the stall's and the court's, while stalls are blocked and        *)
(* reopened and the day ends.                                              *)
(*                                                                         *)
(* A step is one statement, or one wait for a lock.  Locks are held to the *)
(* end of the transaction.  Baskets, prices and stock are left out: what   *)
(* they can do here is turn a request down.                                *)
(***************************************************************************)
EXTENDS Naturals, FiniteSets

CONSTANTS
  Requests,
  KeyOf,         \* the Idempotency-Key of a request; a repeated tap repeats it
  SessionOf,     \* the session its token is for
  CallerOf,      \* the customer its token is for, or Nobody
  StallOf,       \* the stall it orders from
  CourtOf,       \* the court of a stall
  Sessions, Customers, Stalls, Courts,
  Nobody,        \* no customer
  IdentityMode,  \* ORDER_IDENTITY_MODE
  NoOrder,       \* "this request has placed nothing"
  Free,          \* a lock nobody holds
  MaxNumber,     \* 999 in the code: the last number of a day
  MaxDay         \* bound: midnights

ASSUME RequestsAssumption ==
  /\ SessionOf \in [Requests -> Sessions]
  /\ CallerOf \in [Requests -> Customers \cup {Nobody}]
  /\ StallOf \in [Requests -> Stalls]
  /\ CourtOf \in [Stalls -> Courts]
ASSUME NobodyAssumption == Nobody \notin Customers
ASSUME FreeAssumption == Free \notin Requests
ASSUME NumbersAssumption == MaxNumber \in Nat /\ MaxDay \in Nat

(* OrderIdentityGuard lets nobody order without a name, except at a        *)
(* counter.                                                                *)
ASSUME GuardAssumption ==
  /\ IdentityMode \in {"otp", "counter"}
  /\ IdentityMode = "otp" => \A r \in Requests : CallerOf[r] # Nobody

VARIABLES
  owner,       \* app_session.customer_id
  placed,      \* the order row a request inserted
  shut,        \* stalls that take no orders: blocked, paused or not active
  stallLock,   \* who holds the vendor row FOR UPDATE
  courtLock,   \* who holds the food_court row FOR UPDATE
  request,     \* what each request is doing
  day          \* businessDate()

vars == <<owner, placed, shut, stallLock, courtLock, request, day>>
locks == <<stallLock, courtLock>>
world == <<owner, placed, shut, day>>

-----------------------------------------------------------------------------
Started ==
  {"attach", "lookup", "session", "lockStall", "resolve", "lockCourt", "number", "insert"}
Ended == {"placed", "replayed", "refused", "duplicate", "collided", "crashed"}

OrderRows == [customer : Customers \cup {Nobody}, day : 1..MaxDay + 1, number : 1..MaxNumber]

ASSUME NoOrderAssumption == NoOrder \notin OrderRows

TypeOK ==
  /\ owner \in [Sessions -> Customers \cup {Nobody}]
  /\ placed \in [Requests -> OrderRows \cup {NoOrder}]
  /\ shut \subseteq Stalls
  /\ stallLock \in [Stalls -> Requests \cup {Free}]
  /\ courtLock \in [Courts -> Requests \cup {Free}]
  /\ request \in [Requests -> [pc : {"new"} \cup Started \cup Ended,
                               customer : Customers \cup {Nobody},
                               number : 0..MaxNumber]]
  /\ day \in 1..MaxDay + 1

Init ==
  /\ owner \in [Sessions -> {Nobody}]
  /\ placed = [r \in Requests |-> NoOrder]
  /\ shut = {}
  /\ stallLock = [v \in Stalls |-> Free]
  /\ courtLock = [c \in Courts |-> Free]
  /\ request = [r \in Requests |-> [pc |-> "new", customer |-> Nobody, number |-> 0]]
  /\ day = 1

-----------------------------------------------------------------------------
Court(r) == CourtOf[StallOf[r]]
Placed == {r \in Requests : placed[r] # NoOrder}
WithKey(k) == {q \in Placed : KeyOf[q] = k}
Today(c) == {q \in Placed : Court(q) = c /\ placed[q].day = day}

At(r, pc) == request[r].pc = pc
Goto(r, pc) == request' = [request EXCEPT ![r].pc = pc]

(* Commit, rollback and a lost connection all let go of the locks.         *)
End(r, pc) ==
  /\ Goto(r, pc)
  /\ stallLock' = [v \in Stalls |-> IF stallLock[v] = r THEN Free ELSE stallLock[v]]
  /\ courtLock' = [c \in Courts |-> IF courtLock[c] = r THEN Free ELSE courtLock[c]]

-----------------------------------------------------------------------------
(* sessionForCustomer: the session is read, and claimed for the caller if  *)
(* it is nobody's.                                                         *)
Identify(r) ==
  LET o == owner[SessionOf[r]]
  IN  /\ At(r, "new")
      /\ CASE o = CallerOf[r] /\ o # Nobody -> Goto(r, "lookup")
           [] o = Nobody -> Goto(r, IF CallerOf[r] = Nobody THEN "lookup" ELSE "attach")
           [] OTHER -> Goto(r, "refused")
      /\ UNCHANGED <<world, locks>>

(* The update claims only a session that is still nobody's, and the        *)
(* request goes on whether it did or not.                                  *)
Attach(r) ==
  /\ At(r, "attach")
  /\ owner' = [owner EXCEPT ![SessionOf[r]] = IF @ = Nobody THEN CallerOf[r] ELSE @]
  /\ Goto(r, "lookup")
  /\ UNCHANGED <<placed, shut, day, locks>>

(* Mutant: a known key is answered with its order, whoever asks.           *)
Lookup_AnyCustomer(r) ==
  /\ At(r, "lookup")
  /\ Goto(r, IF WithKey(KeyOf[r]) # {} THEN "replayed" ELSE "session")
  /\ UNCHANGED <<world, locks>>

(* The transaction begins with the idempotency check: an order with this   *)
(* key is returned to the customer it belongs to and hidden from others.   *)
Lookup(r) ==
  /\ At(r, "lookup")
  /\ \/ WithKey(KeyOf[r]) = {} /\ Goto(r, "session")
     \/ \E q \in WithKey(KeyOf[r]) :
          Goto(r, IF placed[q].customer = owner[SessionOf[r]] THEN "replayed" ELSE "refused")
  /\ UNCHANGED <<world, locks>>

(* resolve reads the session, whose customer the order will be for; a      *)
(* session without one orders at a counter only.                           *)
ReadSession(r) ==
  LET asking == owner[SessionOf[r]]
  IN  /\ At(r, "session")
      /\ IF asking = Nobody /\ IdentityMode = "otp"
           THEN Goto(r, "refused")
           ELSE request' = [request EXCEPT ![r].pc = "lockStall", ![r].customer = asking]
      /\ UNCHANGED <<world, locks>>

(* Mutant: the stall is read without FOR UPDATE.                           *)
LockStall_ReadOnly(r) ==
  /\ At(r, "lockStall")
  /\ Goto(r, IF StallOf[r] \in shut THEN "refused" ELSE "resolve")
  /\ UNCHANGED <<world, locks>>

LockStall(r) ==
  /\ At(r, "lockStall") /\ stallLock[StallOf[r]] = Free
  /\ IF StallOf[r] \in shut
       THEN Goto(r, "refused") /\ stallLock' = stallLock
       ELSE Goto(r, "resolve") /\ stallLock' = [stallLock EXCEPT ![StallOf[r]] = r]
  /\ UNCHANGED <<world, courtLock>>

(* Menu, stock, fee rules and the quote.                                   *)
Resolve(r) ==
  /\ At(r, "resolve")
  /\ Goto(r, "lockCourt")
  /\ UNCHANGED <<world, locks>>

(* An expired session, a stall that cannot be paid, an item that is gone,  *)
(* off the menu or out of stock.                                           *)
TurnDown(r) ==
  /\ request[r].pc \in {"new", "session", "lockStall", "resolve"}
  /\ End(r, "refused")
  /\ UNCHANGED world

(* Mutant: the court is not locked.                                        *)
LockCourt_Skipped(r) ==
  /\ At(r, "lockCourt")
  /\ Goto(r, "number")
  /\ UNCHANGED <<world, locks>>

LockCourt(r) ==
  /\ At(r, "lockCourt") /\ courtLock[Court(r)] = Free
  /\ courtLock' = [courtLock EXCEPT ![Court(r)] = r]
  /\ Goto(r, "number")
  /\ UNCHANGED <<world, stallLock>>

(* nextOrderNumber: one more than the highest of the day.                  *)
NextNumber(r) ==
  /\ At(r, "number")
  /\ \E n \in 0..MaxNumber :
       /\ n = 0 \/ \E q \in Today(Court(r)) : placed[q].number = n
       /\ \A q \in Today(Court(r)) : placed[q].number <= n
       /\ IF n = MaxNumber
            THEN End(r, "refused")
            ELSE /\ request' = [request EXCEPT ![r].pc = "insert", ![r].number = n + 1]
                 /\ UNCHANGED locks
  /\ UNCHANGED world

(* The rows of the order, and the commit.  The day is read again, after    *)
(* the number.  Two unique indexes may refuse the row.                     *)
Insert(r) ==
  LET row == [customer |-> request[r].customer, day |-> day, number |-> request[r].number]
  IN  /\ At(r, "insert")
      /\ IF WithKey(KeyOf[r]) # {}
           THEN End(r, "duplicate") /\ placed' = placed
           ELSE IF \E q \in Today(Court(r)) : placed[q].number = row.number
             THEN End(r, "collided") /\ placed' = placed
             ELSE End(r, "placed") /\ placed' = [placed EXCEPT ![r] = row]
      /\ UNCHANGED <<owner, shut, day>>

Crash(r) ==
  /\ request[r].pc \in Started
  /\ End(r, "crashed")
  /\ UNCHANGED world

-----------------------------------------------------------------------------
(* Somebody who orders on a session verifies a phone: the session is       *)
(* theirs, whoever had it before (verify in customer-auth.controller.ts).  *)
Verify(s) ==
  /\ \E r \in Requests :
       /\ SessionOf[r] = s /\ CallerOf[r] # Nobody
       /\ owner[s] # CallerOf[r]
       /\ owner' = [owner EXCEPT ![s] = CallerOf[r]]
  /\ UNCHANGED <<placed, shut, locks, request, day>>

(* The ladder blocks a stall or a manager closes it: an update of its row, *)
(* which waits for whoever holds it.                                       *)
Shut(v) ==
  /\ v \notin shut /\ stallLock[v] = Free
  /\ shut' = shut \cup {v}
  /\ UNCHANGED <<owner, placed, locks, request, day>>

Reopen(v) ==
  /\ v \in shut /\ stallLock[v] = Free
  /\ shut' = shut \ {v}
  /\ UNCHANGED <<owner, placed, locks, request, day>>

Midnight ==
  /\ day <= MaxDay
  /\ day' = day + 1
  /\ UNCHANGED <<owner, placed, shut, locks, request>>

Next ==
  \/ \E r \in Requests :
       \/ Identify(r) \/ Attach(r) \/ Lookup(r) \/ ReadSession(r) \/ LockStall(r)
       \/ Resolve(r) \/ TurnDown(r) \/ LockCourt(r) \/ NextNumber(r) \/ Insert(r) \/ Crash(r)
  \/ \E s \in Sessions : Verify(s)
  \/ \E v \in Stalls : Shut(v) \/ Reopen(v)
  \/ Midnight

Spec == Init /\ [][Next]_vars

-----------------------------------------------------------------------------
(* Two taps on a bad connection are one order (rule 3 of                   *)
(* order.repository.ts), even when both ask before either has written.     *)
OneOrderPerKey == \A q, r \in Placed : KeyOf[q] = KeyOf[r] => q = r

(* Nobody is turned away at the end of checkout because the number just    *)
(* handed out was already another order's, whoever else is ordering in the *)
(* court and even when midnight falls in between (nextOrderNumber).        *)
NumberIsFree == \A r \in Requests : ~At(r, "collided")

(* No order is written for a stall that is shut at that moment, even when  *)
(* the block fell between the check and the insert (the comment on the     *)
(* stall's FOR UPDATE in resolve).                                         *)
OnlyOpenStalls ==
  [][\A r \in Requests : placed[r] = NoOrder /\ placed'[r] # NoOrder => StallOf[r] \notin shut']_vars

(* A request that is answered with an order is answered with its caller's, *)
(* placed by it or by an earlier tap: a key left over in a browser by a    *)
(* checkout that failed replays nobody else's order.                       *)
OrderIsTheirs ==
  \A r \in Requests :
    request[r].pc \in {"placed", "replayed"} =>
      \E q \in WithKey(KeyOf[r]) : placed[q].customer = CallerOf[r]
=============================================================================
